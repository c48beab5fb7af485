SPECIFICATION FairSpec
CONSTANTS
    Scooters = {s1}
    Users = {u1}
    Positions <- Here
    GpsSlots = {}
    RecSlots = {r1, r2}
    FreeSlots = {f1}
    Undefined = Undefined
    MaxTime = 1
    MaxRestarts = 1
PROPERTIES FlagComesDown ImplementsRental
