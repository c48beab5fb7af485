SPECIFICATION MCSpec
CONSTANTS
    Scooters = {s1}
    Users = {u1}
    Positions <- Riding
    GpsSlots = {}
    RecSlots = {r1}
    FreeSlots = {f1}
    PollSlots = {q1, q2}
    Undefined = Undefined
    NoScooter = NoScooter
    MaxTime = 2
    MaxRestarts = 1
INVARIANTS AppTypeOK ShownScooterWasRidden
PROPERTIES BillsStartAtARide RenterSeesAScooter
