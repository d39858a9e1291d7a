SPECIFICATION Spec
CONSTANTS
    Pollers = {p1, p2, p3}
    Modes = {"REAL", "REPLAY"}
    Projected = {"SETUP_DETECTED", "ENTRY_CONFIRMED"}
    Outcomes = {"ACTIVE", "EXPIRED"}
    Raw = {"watching", "triggered"}
    MaxRevision = 2
SYMMETRY PollerSymmetry
INVARIANTS HistoryIsLinked
PROPERTIES EndedIsFinal
