SPECIFICATION FairSpec
CONSTANTS
    Calls = {c1, c2, c3, c4}
    MaxDeaths = 2
    FirstCycleAlone = TRUE
CHECK_DEADLOCK FALSE
INVARIANTS AtMostOneMessage RecordIsTrue ClaimIsOwn
PROPERTIES SettledStays LockIsReleased
