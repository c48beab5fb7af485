SPECIFICATION Spec
CONSTANTS
    RequestQueueSize = 1
    OutQueueSize = 2
    MaxSize = 3
    MaxId = 2
INVARIANTS TypeOK NoUseAfterFree OneFramePerPicture WholePictureOrNone
PROPERTIES InOrder
CHECK_DEADLOCK FALSE
