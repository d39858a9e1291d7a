SPECIFICATION Spec
CONSTANTS
    Calls = {c1, c2}
    MaxDeaths = 0
    FirstCycleAlone = FALSE
CHECK_DEADLOCK FALSE
INVARIANTS AtMostOneMessage
