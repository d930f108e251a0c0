\* Two members; crashes, rebalances, stops, expiring markers and a dead-letter
\* queue that refuses records in the middle of a batch.
SPECIFICATION FairSpec
CONSTANTS
    p1 = p1  p2 = p2  w1 = w1  w2 = w2  e1 = e1  e2 = e2
    Partitions = {p1}
    Workers = {w1, w2}
    NoWorker = NoWorker
    NoPartition = NoPartition
    Events = {e1}
    Unknown = {}
    Poison = Poison
    MaxRecords = 2
    MaxRetries = 1
    FaultKinds = {"effect", "dlq", "marker", "expiry", "commit", "crash", "rebalance", "stop"}
    MaxFaults = 2
    MaxLog = 2
INVARIANTS CommittedAccounted
PROPERTIES EveryRecordAccounted
CHECK_DEADLOCK FALSE
