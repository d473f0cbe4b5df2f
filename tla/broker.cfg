SPECIFICATION Spec
CONSTANTS
    User <- MCUser
    Org <- MCOrg
    Repo <- MCRepo
    Branch <- MCBranch
    NoBranch = NoBranch
    Wildcard = "*"
    Glob <- MCGlob
    BadGlob <- MCBadGlob
    GlobMatch <- MCGlobMatch
    CustomRole <- MCCustomRole
    NoDoc = NoDoc
    Undeclared = Undeclared
    InitialPolicy <- MCPolicy
    c1 = c1
    c2 = c2
    Conn = {c1, c2}
    Peer <- AllPeers
    Requests <- MCRequests
    Edits <- HandEdits
    MaxStarts = 3
    MaxFaults = 2
    MaxAuditErrors = 1
CONSTRAINT Scenario
SYMMETRY Symmetry
CHECK_DEADLOCK FALSE
INVARIANTS TypeOK ExecutionJustified AnswerTruthful AuditAgrees
    SequentialGrantsDurable AuthorityFromRoot ChildrenRecorded
PROPERTY DecisionsRecorded
