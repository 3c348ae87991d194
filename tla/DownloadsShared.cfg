SPECIFICATION FetchSpec
CONSTANTS
    Clients = {"a", "b"}
    Bodies <- MCBodies
    Size = 2
    Requests <- Pair
    Unchecked = "unchecked"
    Inodes = {1, 2, 3}
    NoInode = 0
    MaxAttempts = 2
    MaxRuns = 2
    MaxFaults = 0
    MaxCleanups = 0
INVARIANTS UsedVerified
CHECK_DEADLOCK FALSE
