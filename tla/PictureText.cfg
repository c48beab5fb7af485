SPECIFICATION Spec
CONSTANTS
    ChunkSize = 6
    Late = 1
    Pictures <- MCPictures
INVARIANTS TypeOK TextIsPicture BytesGoToLiveBuffers EncodeStaysInBlock
CHECK_DEADLOCK FALSE
