\* A publish that raises another exception than the two that release the claim.
SPECIFICATION Spec
CONSTANTS
    g1 = g1  g2 = g2  g3 = g3  g4 = g4  e1 = e1  e2 = e2
    Groups = {g1, g2, g3, g4}
    Events = {e1, e2}
    Batch <- MCBatch
    FaultKinds = {"refused"}
    MaxFaults = 1
INVARIANTS AnsweredIsPublished
\* Every request may have been answered.
CHECK_DEADLOCK FALSE
