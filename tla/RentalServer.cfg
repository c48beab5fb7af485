SPECIFICATION Spec
CONSTANTS
    Scooters = {s1}
    Users = {u1}
    Positions <- Apart
    GpsSlots = {h1}
    RecSlots = {r1, r2}
    FreeSlots = {}
    Undefined = Undefined
    MaxTime = 2
    MaxRestarts = 0
CONSTRAINTS ScootersStay FewWhileStarting
INVARIANTS TypeOK FlagHasARecognition RenterWasClose
SYMMETRY Symmetry
