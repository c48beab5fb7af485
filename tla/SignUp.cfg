SPECIFICATION Spec
CONSTANTS
    Requests = {r1, r2, r3}
    Names = {"first", "second"}
    NoFile = NoFile
    MaxRestarts = 1
INVARIANTS TypeOK AccountsCanSignIn PicturesShowAFace CleanUpThrowsOnOverlap
CHECK_DEADLOCK FALSE
