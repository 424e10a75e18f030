CONSTANTS
    q1 = q1
    q2 = q2
    q3 = q3
    visitor = visitor
    sender = sender
    m1 = m1
    m2 = m2
    Web = Web
    None = None
    Requests <- MCRequests
    Sessions <- MCSessions
    Sids <- MCSids
    Traffic <- MCTraffic
    Budget = 1
    MaxCost = 1
SPECIFICATION Spec
SYMMETRY Symmetry
INVARIANT TypeOK
INVARIANT OneTurnPerMessage
INVARIANT TranscriptsWhole
INVARIANT UsageExact
INVARIANT OverspendBounded
INVARIANT IntakeLostOnlyByOverlap
CHECK_DEADLOCK FALSE
