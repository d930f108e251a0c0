\* The row changes while calls fill the cache, wait and fall back to Postgres;
\* fillers die, are slow or leave the cache cold.
SPECIFICATION FairSpec
CONSTANTS
    c1 = c1  c2 = c2  c3 = c3
    Callers = {c1, c2, c3}
    NoCaller = NoCaller
    FaultKinds = {"redis", "db", "crash", "slow_fill", "slow_wait", "expiry"}
    MaxFaults = 2
    MaxVersion = 2
INVARIANTS TypeOK FillerHoldsLock LockNotLeaked
PROPERTIES CacheNeverGoesBack EveryCallEnds LockFreed
\* Every call may have ended.
CHECK_DEADLOCK FALSE
