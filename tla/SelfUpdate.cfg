\* Two requests, in one after the other or at once, each with its flow; one
\* death of the server or of the helper.
SPECIFICATION FairSpec
CONSTANTS
    r1 = r1
    r2 = r2
    j1 = j1
    Requests = {r1, r2}
    Jobs = {j1}
    Methods = {"pipx", "native"}
    MaxApplies = 3
    MaxCrashes = 1
INVARIANTS
    DrainHolds
    Recoverable
    RolledBackIsOld
    PauseSettled
PROPERTIES
    GuardReleased
CHECK_DEADLOCK FALSE
