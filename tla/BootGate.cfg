\* Two releases, two lines, two days, two stops or losses, one failing call.
SPECIFICATION FairSpec
CONSTANTS
    Retention = 1
    MaxImage = 2
    MaxLines = 2
    MaxDay = 2
    MaxCrashes = 1
    MaxLosses = 2
    MaxFaults = 1
CHECK_DEADLOCK FALSE
INVARIANTS
    GateHolds
PROPERTIES
    BackupsKept
    EveryBootSettles
