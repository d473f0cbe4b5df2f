SPECIFICATION LiveSpec
CONSTANTS
    Message <- MCMessage
    to_vec <- MCBody
    BASE = 2
    HEADER = 3
    MAX_FRAME_LEN = 3
    SockCap = 2
    MaxFrames = 3
    MaxForeign = 8
CHECK_DEADLOCK FALSE
INVARIANTS
    WireTypeOK
    OwnFramesUnderstood
PROPERTIES
    ChannelKept
    FramesArrive
