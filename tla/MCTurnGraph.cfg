CONSTANTS
    MaxIterations = 3
    Tools <- MCTools
    Enabled <- MCEnabled
    Facts <- MCFacts
SPECIFICATION FairSpec
INVARIANT TypeOK
INVARIANT BlockedNeverActs
INVARIANT SeenWasCleared
INVARIANT TransportsAgree
PROPERTY TurnEnds
CHECK_DEADLOCK FALSE
