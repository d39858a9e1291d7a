SPECIFICATION Spec
CONSTANTS
    Tickets = {t1}
    Callers = {c1, c2}
    MaxTime = 2
    DayLen = 2
SYMMETRY CallerSymmetry
INVARIANTS ReaderAcceptsWriter
PROPERTIES TrailOnlyExtends TornFailsClosed ImplementsChain
CHECK_DEADLOCK FALSE
