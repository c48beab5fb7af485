--------------------------------- MODULE Base64 ---------------------------------
(***************************************************************************)
(* lib_base64.c: lib_base64_encode_static, for three bytes or more.        *)
(*                                                                         *)
(* A text is a sequence of the six-bit values of its characters, with Pad  *)
(* for the sign that fills the last group.                                 *)
(***************************************************************************)
EXTENDS Naturals, Sequences

Byte == 0..255
Pad == 64

First(b) == b[1] \div 4
Second(b) == ((b[1] % 4) * 16) + (b[2] \div 16)
Third(b) == ((b[2] % 16) * 4) + (b[3] \div 64)
Fourth(b) == b[3] % 64

(* Mutant: the bits of the second byte are not shifted.                    *)
ItemsUnshifted(b) == <<First(b), ((b[1] % 4) * 16) + (b[2] % 16), Third(b), Fourth(b)>>

Items(b) == <<First(b), Second(b), Third(b), Fourth(b)>>

OutSize(n) == (n \div 3) * 4 + (IF n % 3 = 0 THEN 0 ELSE 4)

(* Group g, from 0: the loop encodes the whole groups ...                  *)
WholeGroup(data, g) == Items(<<data[3 * g + 1], data[3 * g + 2], data[3 * g + 3]>>)

(* ... and what follows it writes one group more, with what is left or, if *)
(* nothing is, with the last three bytes again.                            *)
LastGroup(data) ==
    LET n == Len(data)
    IN  CASE n % 3 = 0 -> Items(<<data[n - 2], data[n - 1], data[n]>>)
          [] n % 3 = 1 -> <<First(<<data[n], 0, 0>>), Second(<<data[n], 0, 0>>), Pad, Pad>>
          [] n % 3 = 2 -> LET b == <<data[n - 1], data[n], 0>>
                          IN  <<First(b), Second(b), Third(b), Pad>>

(* Mutant: the loop runs up to the size, one group too far.                *)
WrittenTooFar(n) == 4 * (n \div 3 + 2)

(* Characters written, the one after the text included.                    *)
Written(n) == 4 * (n \div 3 + 1) + (IF n % 3 = 0 THEN 0 ELSE 1)

Encode(data) ==
    [k \in 1..OutSize(Len(data)) |->
       LET g == (k - 1) \div 4
       IN  (IF g < Len(data) \div 3 THEN WholeGroup(data, g) ELSE LastGroup(data))[((k - 1) % 4) + 1]]

-----------------------------------------------------------------------------
(* External: the decoder of the server (a data URL), the definition of the *)
(* encoding.                                                               *)
DecodedSize(text) ==
    LET n == Len(text)
    IN  IF n = 0 THEN 0
        ELSE (3 * (n \div 4)) - (IF text[n - 1] = Pad THEN 2 ELSE IF text[n] = Pad THEN 1 ELSE 0)

Decode(text) ==
    [i \in 1..DecodedSize(text) |->
       LET q == 4 * ((i - 1) \div 3)
       IN  CASE (i - 1) % 3 = 0 -> (text[q + 1] * 4) + (text[q + 2] \div 16)
             [] (i - 1) % 3 = 1 -> ((text[q + 2] % 16) * 16) + (text[q + 3] \div 4)
             [] (i - 1) % 3 = 2 -> ((text[q + 3] % 4) * 64) + text[q + 4]]
=============================================================================
