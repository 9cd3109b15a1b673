CONSTANTS
    j1 = j1
    j2 = j2
    w1 = w1
    w2 = w2
    Forced = Forced
    Job <- TwoJobs
    DefaultAudioJob <- TwoJobs
    Worker <- OneWorker
    BumpFloor = 0
    MaxRestarts = 1
    MaxFaults = 1
SPECIFICATION Spec
SYMMETRY Symmetry
CONSTRAINT RestartScope
INVARIANTS
    AtMostOneRun NewJobsLast NoOrphanedRow
PROPERTIES
    ImplementsLife
