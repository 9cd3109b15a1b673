\* One file, one caller and the hooks of two jobs, all scheduled fairly.
SPECIFICATION FairSpec
CONSTANTS
    f1 = f1
    f2 = f2
    File = {f1}
    Walk <- WalkOne
    Job = {j1, j2}
    Caller = {c1}
    Limit = 1
    MaxCalls = 2
    NoFile = NoFile
    NoJob = NoJob
    NoThread = NoThread
PROPERTIES
    CallsReturn
    ImplementsLease
    ImplementsLife
