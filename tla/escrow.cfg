SPECIFICATION LiveSpec
CONSTANTS
    Op = {o1}
    Caller <- AllCallers
CONSTANTS
    Uid <- MCUid
    Gid <- MCGid
    DaemonUid = "ghbrk"
    DaemonGid = "ghbrk"
    RootUid = "root"
    ClientsGid = "ghbrk-clients"
    NoFile = NoFile
    POLLS = 2
CHECK_DEADLOCK FALSE
INVARIANTS
    EscrowTypeOK
    NothingLeft
    IdentityWhole
    SshChildReachesProxy
PROPERTIES
    NoLateSignature
    EscrowSettles
