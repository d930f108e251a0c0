\* Two members drain on SIGTERM and a new pool takes over.
SPECIFICATION FairSpec
CONSTANTS
    p1 = p1  p2 = p2  w1 = w1  w2 = w2  e1 = e1  e2 = e2
    Partitions = {p1, p2}
    Workers = {w1, w2}
    NoWorker = NoWorker
    NoPartition = NoPartition
    Events = {e1}
    Unknown = {}
    Poison = Poison
    MaxRecords = 2
    MaxRetries = 2
    FaultKinds = {"effect", "marker", "stop"}
    MaxFaults = 2
    MaxLog = 2
INVARIANTS GracefulDrain
PROPERTIES LagDrains
\* The log is bounded: once it is consumed the workers only poll.
CHECK_DEADLOCK FALSE

