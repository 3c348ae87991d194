SPECIFICATION Spec
CONSTANTS
    Tokens = {"a", "b"}
    Versions = {"v1", "v2", "v3"}
    Paths = {"stays", "goes", "comes", "other"}
    Dirs = {"apps", "site"}
    Dir <- MCDir
    Artifacts <- MCArtifacts
    Directives <- MCDirectives
    Linux = FALSE
    Nothing = Nothing
    User = User
    MaxFaults = 2
    MaxRuns = 2
INVARIANTS HonestFailure CommittedExactly NothingLost
PROPERTIES OthersKept
CHECK_DEADLOCK FALSE
