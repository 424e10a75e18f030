CONSTANTS
    MaxIterations = 3
    Tools <- MCTools
    Enabled <- MCEnabled
    Facts <- MCFacts
SPECIFICATION Spec
INVARIANT HeldUntilCleared
CHECK_DEADLOCK FALSE
