SPECIFICATION ToolsSpec
CONSTANTS
    ServiceNames = {"a"}
    Platforms = {"linux", "macos"}
    MaxServiceFaults = 2
    WordMax = 60
    Instants <- MCInstants
    NewAlign = 4
    DefaultAlign = 2
    MaxAlign = 8
    UpperB = 0
    TapProcs = {"p", "q"}
    Users = {"alice"}
    Repositories = {"one", "two"}
    TapCommands <- MCTapCommands
    AllowedTaps = {}
    ForbiddenTaps <- MCForbidden
    MaxTapFaults = 2
    KegVersions = {1, 2}
    PrefixRoots <- MCRoots
    PrefixDirs <- MCDirs
    LinkPaths <- MCPaths
    MaxAge = 5
    CleanupStates <- MCStates
    MaxCleanupFaults = 1
    Formulae = {"a", "b", "c", "d"}
    Queries <- MCQueries
    Symbols <- MCSymbols
    Majors <- MCMajors
    Arches = {"x86_64", "arm64"}
    Programs <- MCPrograms
    Trees <- MCTrees
    MaxFaults = 1
INVARIANTS
    VersionsOrdered
    ManagersAgree
    ImagesLoad
    CatalogRead
    CleanupSound
    ExpansionSound
    StepsUndone
    ArchivesUnpack
PROPERTIES
    ServicesKept
    TapsKept
CHECK_DEADLOCK FALSE
