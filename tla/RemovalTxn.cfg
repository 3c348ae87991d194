SPECIFICATION FairSpec
CONSTANTS
    Order <- MCOrder
    Kegs <- MCKegs
    Racks <- MCRacks
    Files <- MCFiles
    Ships <- MCShips
    NoKeg = NoKeg
    Neighbours = TRUE
    MaxFaults = 1
INVARIANTS KegsWhole CleanFailure RemovedCompletely
PROPERTIES AtomicInBulk Terminates
CHECK_DEADLOCK FALSE
