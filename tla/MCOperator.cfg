SPECIFICATION AllSpec
CONSTANTS
    p1 = p1
    p2 = p2
    r1 = r1
    r2 = r2
    e1 = e1
    e2 = e2
    c3 = c3
    here = here
    None = None
    Procs <- ProcsDef
    Requests <- RequestsDef
    Edits <- EditsDef
    TTL = 1
    Slack = 1
    MaxLives = 2
    MaxOps = 3
    MaxTime = 3
    Crawls <- CrawlsDef
    Urls <- UrlsDef
    LocationOf <- LocationOfDef
    MaxRev = 2
    Pages <- PagesDef
    Home = "h"
    Sites <- SitesDef
    MaxPages = 7
    MaxDepth = 3
    Concurrency = 2
    SeenFactor = 1
    Purges <- PurgesDef
    Oldest = 5
    BatchSize = 2
    MaxBatches = 2
    MaxCases = 5
    Attempts = 2
    Percent <- PercentDef
    MaxErrors = 25
SYMMETRY Symmetry
INVARIANT AllTypes
INVARIANT StaleOnlyByReusedVersion
INVARIANT EditsLostOnlyByOverlap
INVARIANT IndexInStep
INVARIANT CoversSmallSites
INVARIANT CompleteIsTrue
INVARIANT GateHonest
PROPERTY ServedRecent
CHECK_DEADLOCK FALSE
