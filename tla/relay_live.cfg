SPECIFICATION FairSpec
CONSTANTS
    Status <- OneStatus
    NoStatus = NoStatus
    SockCap = 1
    PipeCap = 1
    MaxIn = 2
    MaxOut <- LiveWrites
CHECK_DEADLOCK FALSE
PROPERTIES RelayEnds AbandonedRelayEnds
