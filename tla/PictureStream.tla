---------------------------- MODULE PictureStream ----------------------------
(***************************************************************************)
(* What app_camera.c promises the task that asked for a picture: it hands  *)
(* out the chunks of a picture one by one, in order, none twice and none   *)
(* missing, and once a later picture is being handed out no chunk of an    *)
(* earlier one appears any more.                                           *)
(***************************************************************************)
EXTENDS Naturals

CONSTANT Ids    \* camera stream ids, in the order in which they are assigned

VARIABLES
    received,   \* per id, how many chunks have been handed out
    last        \* the chunk handed out last

Init ==
    /\ received = [i \in Ids |-> 0]
    /\ last = [id |-> 0, chunk |-> 0]

Deliver(i) ==
    /\ \A j \in Ids : j > i => received[j] = 0
    /\ received' = [received EXCEPT ![i] = @ + 1]
    /\ last' = [id |-> i, chunk |-> received[i]]

Next == \E i \in Ids : Deliver(i)

Spec == Init /\ [][Next]_<<received, last>>
=============================================================================
