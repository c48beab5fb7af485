SPECIFICATION Spec
CONSTANTS
    Scooters = {s1, s2}
    Users = {u1}
    Positions <- Here
    GpsSlots = {h1}
    RecSlots = {r1}
    FreeSlots = {}
    Undefined = Undefined
    MaxTime = 1
    MaxRestarts = 0
PROPERTIES LockMeansNobodyClose
