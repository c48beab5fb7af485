SPECIFICATION FairSpec
CONSTANTS
    Replies = {"unlock", "photo", "lock", "failed"}
    Late = 1
    NumTries = 2
    NoBuffer = NoBuffer
INVARIANTS TypeOK BufferIsLive
PROPERTIES OutcomeWasTold FailureHasACause CheckInEnds
