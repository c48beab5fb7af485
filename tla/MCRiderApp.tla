----------------------------- MODULE MCRiderApp -----------------------------
(* RiderApp on a street with two positions too far apart for one trip, on  *)
(* which everybody starts at the same one.                                 *)
EXTENDS RiderApp

Riding == {0, 2000}

MCInit ==
    /\ AppInit
    /\ scooter_pos = [s \in Scooters |-> 0]
    /\ user_pos = [u \in Users |-> 0]

MCSpec == MCInit /\ [][AppNext]_appvars /\ AppFairness
=============================================================================
