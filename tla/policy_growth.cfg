SPECIFICATION GrowthSpec
CONSTANTS
    User <- MCUser
    Org <- MCOrg
    Repo <- MCRepo
    Branch <- MCBranch
    NoBranch = NoBranch
    Wildcard = "*"
    Glob <- MCGlob
    BadGlob <- MCBadGlob
    GlobMatch <- MCGlobMatch
    CustomRole <- MCCustomRole
    Undeclared = Undeclared
    Bases <- MCBases
    Grants <- MCGrants
    MaxRules = 3
CHECK_DEADLOCK FALSE
INVARIANTS GrowthTypeOK EvaluateIsLoop ReportedPushNeverDefaulted
PROPERTIES GrantOnlyOpens LoadableStaysLoadable
