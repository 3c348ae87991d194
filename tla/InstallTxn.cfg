SPECIFICATION FairMCSpec
CONSTANTS
    Versions <- MCVersions
    New = "v2"
    Files <- MCFiles
    Ships <- MCShips
    Configs = {"etc"}
    NoVersion = NoVersion
    Neighbours = TRUE
    MaxFaults = 2
    MaxRuns = 2
INVARIANTS CommittedComplete CleanFailure KegSurvives
PROPERTIES AtomicOnRack Terminates
CHECK_DEADLOCK FALSE
