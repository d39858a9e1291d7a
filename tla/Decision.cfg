SPECIFICATION FairSpec
CONSTANTS
    Tickets = {t1, t2}
    Taps = {p1}
    Commands = {c1}
    Host = host
    CommandDecisions = {"SKIPPED"}
    ValidUntil = 1
    DayLength = 2
    LookBack = 7
    MaxTime = 2
    MaxCrashes = 1
INVARIANTS OneDecision ReplyIsTrue OutcomeCarriesDecision
PROPERTIES ReadyIsDecided
