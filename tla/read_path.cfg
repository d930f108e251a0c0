\* Two concurrent requests of every kind over three states of the stores.
SPECIFICATION FairSpec
CONSTANTS
    None = None
    Items = {1, 2, 3}
    Weight <- MCWeight
    Bm25K = 2
    VectorK = 2
    CandidateCap = 3
    RecentN = 2
    RecencySpan = 2
    PriceSpan = 4
    Unit = 60
    RerankInputK = 2
    r1 = r1  r2 = r2
    Requests = {r1, r2}
    NoRequest = NoRequest
    Worlds <- MCWorlds
    Headroom = 2
    RerankAnswers <- MCRerankAnswers
    MaxFaults = 1
    MaxDeletions = 1
INVARIANTS TypeOK FailOpen FeatureNotRanker ModelLoadedOnce EmptyOnlyWhenCold ScoresMonotone
PROPERTIES EveryRequestAnswered
\* Every request is answered once.
CHECK_DEADLOCK FALSE
