CONSTANTS
    k1 = k1
    k2 = k2
    Keys <- MCKeys
    Cost = 2
    Capacity = 4
    SweepEvery = 3
    IdleAfter = 4
    MaxTime = 12
SPECIFICATION Spec
INVARIANT TypeOK
INVARIANT WindowBound
PROPERTY IdealSpec
CHECK_DEADLOCK FALSE
