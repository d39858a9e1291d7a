SPECIFICATION FairSpec
CONSTANTS
    LockWait = 1
    Pois = {"z1"}
    Opps = {"o1", "o2"}
    Sightings = {"NEAR_POI", "OPPORTUNITY", "REJECTED"}
    Confirmation <- OneConfirmation
    DayLength = 1
    MaxTime = 1
    MaxSeq = 2
    MaxFaults = 1
INVARIANTS AlertAtMostOnce LedgerIsTrue SaveIsArchived
PROPERTIES MessageIsArchived SuspensionEnds
