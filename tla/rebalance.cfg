\* Two members, one partition: members crash, stop and lose the partition in
\* the middle of a batch.
SPECIFICATION Spec
CONSTANTS
    p1 = p1  p2 = p2  w1 = w1  w2 = w2  e1 = e1  e2 = e2
    Partitions = {p1}
    Workers = {w1, w2}
    NoWorker = NoWorker
    NoPartition = NoPartition
    Events = {e1, e2}
    Unknown = {e2}
    Poison = Poison
    MaxRecords = 2
    MaxRetries = 2
    FaultKinds = {"effect", "marker", "commit", "crash", "rebalance", "stop"}
    MaxFaults = 3
    MaxLog = 2
SYMMETRY WorkerSymmetry
INVARIANTS TypeOK NoSilentLoss MarkerMeansEnriched EffectOrder DriftBound
PROPERTIES DeliverySpec
\* The log is bounded: once it is consumed the workers only poll.
CHECK_DEADLOCK FALSE
