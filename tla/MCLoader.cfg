SPECIFICATION FairSpec
CONSTANTS
    Paths <- MCPaths
    Names <- MCNames
    Values <- MCValues
    Versions <- MCVersions
    NoVersion = "-"
    Assets <- MCAssets
    FileSets <- MCFileSets
    OlderCRDs <- MCOlderCRDs
    MaxRefusals = 2
    MaxFaults = 1
    MaxResets = 1
    Nil = Nil
INVARIANTS
    TypeOK
    AssetsInstalled
    BestEffort
PROPERTIES
    InstallsEventually
    ImplementsBootstrap
