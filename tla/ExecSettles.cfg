SPECIFICATION FairSpec
CONSTANTS
    Tickets = {t1}
    Attempts = {a1}
    NoAttempt = NoAttempt
    MaxConfirms = 2
    ConfirmRequired = TRUE
    Window = 1
    ValidUntil = 1
    UnknownTimeout = 1
    MaxTime = 2
    WritesMayFail = FALSE
    MayRevoke = FALSE
    MaxCrashes = 1
INVARIANTS TrailIsOrdered NoStrandedClaim SendIsBacked
PROPERTIES HaltIsSettled SendIsSettled
