\* A user who overflows the session window and the cap of recent_clicks; and two
\* workers whose sessions share three rows.
SPECIFICATION FairSpec
CONSTANTS
    w1 = w1  w2 = w2  u1 = u1
    Workers = {w1, w2}
    NoWorker = NoWorker
    Users = {u1}
    Items = {1, 2, 3}
    LateItems = {1}
    NoClick = NoClick
    Settings <- MCSettings
INVARIANTS TypeOK CurrentClickPaired RecentKeepsNewest NoRowDeadlock CachesBounded
PROPERTIES EveryClickEnds
\* The clicks are bounded.
CHECK_DEADLOCK FALSE
