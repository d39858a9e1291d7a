SPECIFICATION Spec
CONSTANTS
    MaxRun = 4
    MaxOverlap = 2
    Due = 2
    MaxFaults = 1
CHECK_DEADLOCK FALSE
INVARIANTS MessageAtMostOnce EventsAreTrue
PROPERTIES DigestIsTrue SummaryIsSettled
