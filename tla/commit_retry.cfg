\* A failed commit against the promise that the next poll commits again.
SPECIFICATION FairSpec
CONSTANTS
    p1 = p1  p2 = p2  w1 = w1  w2 = w2  e1 = e1  e2 = e2
    Partitions = {p1}
    Workers = {w1}
    NoWorker = NoWorker
    NoPartition = NoPartition
    Events = {e1}
    Unknown = {}
    Poison = Poison
    MaxRecords = 1
    MaxRetries = 1
    FaultKinds = {"commit"}
    MaxFaults = 1
    MaxLog = 2
PROPERTIES FailedCommitRetried
CHECK_DEADLOCK FALSE
