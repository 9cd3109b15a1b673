\* Two of four threads (two callers, the hooks of two jobs) at a time, two files.
SPECIFICATION Spec
CONSTANTS
    f1 = f1
    f2 = f2
    File = {f1, f2}
    Walk <- WalkBoth
    Job = {j1, j2}
    Caller = {c1, c2}
    Limit = 1
    MaxCalls = 2
    NoFile = NoFile
    NoJob = NoJob
    NoThread = NoThread
SYMMETRY Symmetric
INVARIANTS
    OneActivePerFile
    AutoBudget
    ProcessNowHonest
