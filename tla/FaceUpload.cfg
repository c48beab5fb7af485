SPECIFICATION Spec
CONSTANTS
    NumTries = 2
    MaxPayload = 2
    Sizes = {2, 3}
    MaxUploads = 2
    MaxRestarts = 1
INVARIANTS TypeOK FailuresAreBounded
PROPERTIES OneRecognitionPerUpload WholePictureRecognised
CHECK_DEADLOCK FALSE
