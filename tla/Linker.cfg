SPECIFICATION LinkSpec
CONSTANTS
    Formulae <- MCFormulae
    Kegs = {"app1", "app2", "alt1", "lib1"}
    VersionsOf <- MCVersionsOf
    Tree <- MCTree
    Order <- MCOrder
    Stems = {}
    KegOnly = {"alt"}
    ByVersion = {"alt"}
    ByMacos = {}
    Family <- MCFamily
    AliasNames = {}
    AliasesOf <- MCAliasesOf
    UserTrees <- MCUserTrees
    RecordDirs = {}
    NoKegHere = "none"
    MaxLinkFaults = 1
    MaxPoured = 2
INVARIANTS RecordsTrue UserFilesKept
PROPERTIES RefusalChangesNothing
CHECK_DEADLOCK FALSE
