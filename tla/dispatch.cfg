SPECIFICATION Spec
CONSTANTS
    User <- MCUser
    Org <- MCOrg
    Repo <- MCRepo
    Branch <- MCBranch
    NoBranch = NoBranch
    Wildcard = "*"
    Glob <- MCGlob
    BadGlob = {}
    GlobMatch <- MCGlobMatch
    CustomRole <- MCCustomRole
    Undeclared = Undeclared
    Flag <- MCFlag
    AsUrl <- MCAsUrl
    AsRefspec <- MCAsRefspec
    Segments <- MCSegments
    WithoutHeads <- MCWithoutHeads
    WithoutDotGit <- MCWithoutDotGit
    AttachedMethod <- MCAttachedMethod
    AttachedRepo <- MCAttachedRepo
    IsGet <- MCIsGet
    GITHUB_HOST = "github.com"
    Tree <- MCTree
    Jobs <- MCJobs
    Docs <- MCDocs
    Specs <- MCSpecs
    Lines <- MCLines
    Caller = "alice"
    WordSegments <- MCWordSegments
    Truth <- MCTruth
CHECK_DEADLOCK FALSE
INVARIANTS ClassifiersAgree JudgedOnOwnRepository HintsMatchFallback ExplainPredicts GrantAsTyped ReportTrue
