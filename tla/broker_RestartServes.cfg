SPECIFICATION DaemonSpec
CONSTANTS
    User <- MCUser
    Org <- MCOrg
    Repo <- MCRepo
    Branch <- MCBranch
    NoBranch = NoBranch
    Wildcard = "*"
    Glob <- MCGlob
    BadGlob <- MCBadGlob
    GlobMatch <- MCGlobMatch
    CustomRole <- MCCustomRole
    NoDoc = NoDoc
    Undeclared = Undeclared
    InitialPolicy <- MCPolicy
    c1 = c1
    c2 = c2
    Conn = {c1}
    Peer <- OnlyRoot
    Requests <- GrantRequests
    Edits <- NoEdits
    MaxStarts = 2
    MaxFaults = 1
    MaxAuditErrors = 0
CHECK_DEADLOCK FALSE
PROPERTY RestartServes
