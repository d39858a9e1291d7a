SPECIFICATION FairSpec
CONSTANTS
    Calls = {c1, c2}
    Signals = {s1}
    Statuses = {"TICKET", "BLOCKED", "CANDIDATE", "WATCH"}
    NoCall = NoCall
    Lister = Lister
    MaxAttempts = 2
    MaxCrashes = 2
INVARIANTS NoUnaskedResend JournalIsTrue
PROPERTIES ImplementsCourier OneReportPerSignal PendingIsResolved
