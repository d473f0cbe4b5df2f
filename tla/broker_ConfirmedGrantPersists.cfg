SPECIFICATION Spec
CONSTANTS
    User <- MCUser
    Org <- MCOrg
    Repo <- MCRepo
    Branch <- MCBranch
    NoBranch = NoBranch
    Wildcard = "*"
    Glob <- MCGlob
    BadGlob <- MCBadGlob
    GlobMatch <- MCGlobMatch
    CustomRole <- MCCustomRole
    NoDoc = NoDoc
    Undeclared = Undeclared
    InitialPolicy <- MCPolicy
    c1 = c1
    c2 = c2
    Conn = {c1, c2}
    Peer <- OnlyRoot
    Requests <- GrantRequests
    Edits <- NoEdits
    MaxStarts = 1
    MaxFaults = 0
    MaxAuditErrors = 0
SYMMETRY Symmetry
CHECK_DEADLOCK FALSE
INVARIANT ConfirmedGrantPersists
