\* A cold key and nothing failing, against the promise of one SELECT.
SPECIFICATION Spec
CONSTANTS
    c1 = c1  c2 = c2  c3 = c3
    Callers = {c1, c2}
    NoCaller = NoCaller
    FaultKinds = {}
    MaxFaults = 0
    MaxVersion = 0
INVARIANTS OneSelect
\* Every call may have ended.
CHECK_DEADLOCK FALSE
