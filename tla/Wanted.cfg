\* Three kinds of file and two workers; two among an upgrade, a manual trigger,
\* a failure and a toggle.
SPECIFICATION FairSpec
CONSTANTS
    Lang = {"eng", "fre"}
    Allowed = {"eng"}
    Contents <- MCContents
    Worker = {w1, w2}
    MaxUpgrades = 2
    MaxManual = 1
    MaxFailures = 1
    MaxToggles = 1
    MCEffort = 2
PROPERTIES
    RowsSettle
    WantedIsServed
CONSTRAINT Scope
CHECK_DEADLOCK FALSE
