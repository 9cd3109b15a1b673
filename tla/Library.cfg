\* One series of two episodes (a season is one more link of the same kind).
SPECIFICATION FairSpec
CONSTANTS
    s = s
    e1 = e1
    e2 = e2
    Node = {s, e1, e2}
    Parent <- MCParent
    A = A
    Server = {A}
    loop = loop
    Scheduler = loop
    Scanner = {loop}
    hook = hook
    Hook = {hook}
    t1 = t1
    t2 = t2
    Toggler = {t1, t2}
    References = {{s}, {e1}}
    DefaultTracked = TRUE
    Null = Null
    MaxImports = 1
    MaxRemovals = 1
    MaxToggles = 2
    MaxSwitches = 1
    MCEffort = 4
CONSTRAINT Scope
INVARIANTS
    TrackedAsToggled
PROPERTIES
    MirrorSettles
CHECK_DEADLOCK FALSE
