SPECIFICATION SmoothSpec
CONSTANTS
    RequestQueueSize = 1
    OutQueueSize = 2
    MaxSize = 3
    MaxId = 2
PROPERTIES PictureEnds
CHECK_DEADLOCK FALSE
