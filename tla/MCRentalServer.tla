--------------------------- MODULE MCRentalServer ---------------------------
(* RentalServer on a street of one position, or of two that are not        *)
(* close to each other.                                                    *)
EXTENDS RentalServer, TLC

Here == {0}
Apart == {0, 200}

(* On a street of two positions only who is close matters: the scooters    *)
(* stay where they are and the users move.                                 *)
ScootersStay ==
    /\ \A s \in Scooters : scooter_pos[s] = 0
    /\ \A h \in GpsSlots : gps[h].pc = "set_location" => gps[h].pos = 0

(* While the server starts, one recognition runs.                          *)
FewWhileStarting ==
    startup.pc # "done"
    => Cardinality({r \in RecSlots : rec[r].pc # "idle" \/ pending[r] # {}}) <= 1

Symmetry == Permutations(Users) \cup Permutations(Scooters)
              \cup Permutations(RecSlots) \cup Permutations(GpsSlots)
=============================================================================
