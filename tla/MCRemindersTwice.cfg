CONSTANTS
    a1 = a1
    a2 = a2
    k1 = k1
    s1 = s1
    s2 = s2
    Nothing = Nothing
    Appts <- MCAppts
    Reachable <- MCReachable
    Rules <- MCRules
    Sweepers <- MCSweepers
    MaxAttempts = 2
SPECIFICATION Spec
INVARIANT SentOnce
CHECK_DEADLOCK FALSE
