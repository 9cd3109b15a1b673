\* Every fault of a subprocess, one crash and one upgrade of the file.
SPECIFICATION FairSpec
CONSTANTS
    LanguageOrder <- MCLanguageOrder
    Library <- MCLibrary
    Configs <- MCConfigs
    Tolerance = 5
    MaxRuns = 2
    MaxUpgrades = 1
    MaxCrashes = 1
INVARIANTS
    TypeOK
    CancelKills
    NoStrayTemp
    Settled
PROPERTIES
    ImplementsPromise
    CancelEnds
CHECK_DEADLOCK FALSE
