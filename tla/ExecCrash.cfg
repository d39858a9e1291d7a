SPECIFICATION Spec
CONSTANTS
    Tickets = {t1}
    Attempts = {a1, a2}
    NoAttempt = NoAttempt
    MaxConfirms = 0
    ConfirmRequired = FALSE
    Window = 1
    ValidUntil = 1
    UnknownTimeout = 1
    MaxTime = 1
    WritesMayFail = TRUE
    MayRevoke = TRUE
    MaxCrashes = 1
SYMMETRY AttemptSymmetry
INVARIANTS AtMostOneSend ResultIsTrue ClaimIsConsistent
