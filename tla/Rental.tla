------------------------------- MODULE Rental -------------------------------
(***************************************************************************)
(* What the server promises about rentals.  A scooter has at most one      *)
(* renter.  A recognition names somebody at a scooter, once: a user who    *)
(* has been close to it, or the empty string when it failed.  A request    *)
(* asks for a scooter to be freed.  The renter of a scooter changes only   *)
(* when a name or a request that stands is carried out, each at most once; *)
(* names and requests may be dropped, a renter never is.                   *)
(***************************************************************************)
EXTENDS Naturals

CONSTANTS Scooters, Users, Recognitions, Requests

VARIABLES
    renter,     \* per scooter, "_none", a user, or "" after a failed recognition
    known,      \* per scooter, the users who have been close to it
    named,      \* per recognition, {<<scooter, name>>} until it is recorded, or {}
    asked       \* per request, {scooter} until that scooter is freed, or {}

rentals == <<renter, known, named, asked>>

Init ==
    /\ renter = [s \in Scooters |-> "_none"]
    /\ known = [s \in Scooters |-> {}]
    /\ named = [r \in Recognitions |-> {}]
    /\ asked = [f \in Requests |-> {}]

(* The server learns who is close to some scooters; it forgets nobody.     *)
Meet ==
    /\ known' \in [Scooters -> SUBSET Users]
    /\ \A s \in Scooters : known[s] \subseteq known'[s]
    /\ UNCHANGED <<renter, named, asked>>

Name(r, s, u) ==
    /\ named[r] = {}
    /\ u \in known[s] \cup {""}
    /\ named' = [named EXCEPT ![r] = {<<s, u>>}]
    /\ UNCHANGED <<renter, known, asked>>

Rent(r, s, u) ==
    /\ named[r] = {<<s, u>>}
    /\ renter' = [renter EXCEPT ![s] = u]
    /\ named' = [named EXCEPT ![r] = {}]
    /\ UNCHANGED <<known, asked>>

Ask(f, s) ==
    /\ asked[f] = {}
    /\ asked' = [asked EXCEPT ![f] = {s}]
    /\ UNCHANGED <<renter, known, named>>

Free(f, s) ==
    /\ asked[f] = {s}
    /\ renter' = [renter EXCEPT ![s] = "_none"]
    /\ asked' = [asked EXCEPT ![f] = {}]
    /\ UNCHANGED <<known, named>>

(* A failure or a crash.                                                   *)
Drop ==
    /\ \E lost \in SUBSET Recognitions :
          named' = [r \in Recognitions |-> IF r \in lost THEN {} ELSE named[r]]
    /\ \E lost \in SUBSET Requests :
          asked' = [f \in Requests |-> IF f \in lost THEN {} ELSE asked[f]]
    /\ UNCHANGED <<renter, known>>

Next ==
    \/ Meet
    \/ \E r \in Recognitions, s \in Scooters, u \in Users \cup {""} :
          Name(r, s, u) \/ Rent(r, s, u)
    \/ \E f \in Requests, s \in Scooters : Ask(f, s) \/ Free(f, s)
    \/ Drop

Spec == Init /\ [][Next]_rentals
=============================================================================
