SPECIFICATION NetworkSpec
CONSTANTS
    a = a
    b = b
    Procs <- Both
    MaxVersion = 2
    MaxClock = 2
    Ttl = 1
    Hosts <- Mirrored
    MaxLoads = 2
    MaxKinds = 1
    Clients = {"a"}
    Bodies <- TwoBodies
    Size = 2
    Requests <- Checksummed
    Unchecked = "unchecked"
    Inodes = {1, 2, 3}
    NoInode = 0
    MaxAttempts = 2
    MaxRuns = 1
    MaxFaults = 1
    MaxCleanups = 1
SYMMETRY Interchangeable
INVARIANTS UsedVerified FinalKept HealthySucceeds KeepsVerified WorksOffline ForceIsCurrent
CHECK_DEADLOCK FALSE
