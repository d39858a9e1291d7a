SPECIFICATION LatchSpec
CONSTANTS
    MaxTime = 5
    DayLen = 2
    MaxRows = 4
INVARIANTS LatchIsLastWrite
PROPERTIES OnlyOwnerReleases
