CONSTANTS
    j1 = j1
    j2 = j2
    w1 = w1
    w2 = w2
    Forced = Forced
    Job <- TwoJobs
    DefaultAudioJob <- NoJobs
    Worker <- OneWorker
    BumpFloor = 0
    MaxRestarts = 0
    MaxFaults = 0
SPECIFICATION Spec
INVARIANT PoolLivesOn
