\* A failed publish to the dead-letter queue against the promise that the
\* record is re-fetched on the next poll.
SPECIFICATION Spec
CONSTANTS
    p1 = p1  p2 = p2  w1 = w1  w2 = w2  e1 = e1  e2 = e2
    Partitions = {p1}
    Workers = {w1}
    NoWorker = NoWorker
    NoPartition = NoPartition
    Events = {e1}
    Unknown = {}
    Poison = Poison
    MaxRecords = 2
    MaxRetries = 2
    FaultKinds = {"effect", "dlq"}
    MaxFaults = 1
    MaxLog = 2
INVARIANTS NoSilentLoss
CHECK_DEADLOCK FALSE
