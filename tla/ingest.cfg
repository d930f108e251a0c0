\* A batch, its retries, and everything that can fail.
SPECIFICATION Spec
CONSTANTS
    g1 = g1  g2 = g2  g3 = g3  g4 = g4  e1 = e1  e2 = e2
    Groups = {g1, g2, g3, g4}
    Events = {e1, e2}
    Batch <- MCBatch
    FaultKinds = {"impatient", "claim", "kafka", "refused", "release", "crash", "expiry"}
    MaxFaults = 3
INVARIANTS TypeOK AnsweredMeansPublished CopiesBounded AcceptedStaysClaimed
\* Every request may have been answered.
CHECK_DEADLOCK FALSE
