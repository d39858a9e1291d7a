SPECIFICATION Spec
CONSTANTS
    Tickets = {t1, t2}
    Attempts = {a1, a2}
    NoAttempt = NoAttempt
    MaxConfirms = 0
    ConfirmRequired = FALSE
    Window = 1
    ValidUntil = 1
    UnknownTimeout = 1
    MaxTime = 0
    WritesMayFail = FALSE
    MayRevoke = FALSE
    MaxCrashes = 0
PROPERTIES NoSendWhileStopped
