\* Two restore requests, two builds, four points in time; up to five things
\* that happen from outside, a restore counted twice, one of them a fault.
SPECIFICATION FairSpec
CONSTANTS
    r1 = r1
    r2 = r2
    Requests = {r1, r2}
    Uploads <- MCUploads
    Heads = {1, 2}
    Interval = 2
    Retention = 1
    MaxClock = 3
    MaxWrites = 1
    MaxBackups = 2
    MaxStaged = 2
    MaxFaults = 1
    MCEffort = 5
CONSTRAINT Scope
INVARIANTS
    GatedSwap
    Reversible
    PreMigrationKept
    JournalIsItsOwn
PROPERTIES
    RecoveryPoint
    RestoreSettles
CHECK_DEADLOCK FALSE
