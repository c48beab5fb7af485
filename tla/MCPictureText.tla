----------------------------- MODULE MCPictureText -----------------------------
(* Pictures of one to three chunks, with every length of a last chunk.     *)
EXTENDS PictureText
MCPictures == {[i \in 1..n |-> (i * 37 + n) % 256] : n \in {3, 5, 7, 8, 10, 12, 16}}
=============================================================================
