SPECIFICATION Spec
CONSTANTS
    Status <- AllStatus
    NoStatus = NoStatus
    SockCap = 1
    PipeCap = 1
    MaxIn = 2
    MaxOut <- Writes
CHECK_DEADLOCK FALSE
INVARIANT NoFalseSuccess
PROPERTY ImplementsDirectRun
