-------------------------- MODULE PositionMonitor --------------------------
(***************************************************************************)
(* The reconciliation monitor (run_cycle) and restart recovery             *)
(* (recover_after_restart) of position_monitor.py.                         *)
(*                                                                         *)
(* A cycle reads every trail, then the broker's positions, then its        *)
(* history, and then works ticket by ticket from those readings while the  *)
(* dispatch threads go on.  It writes only HALT and RECONCILED rows, the   *)
(* unknown marker of a claim, and the emergency latch.                     *)
(***************************************************************************)
EXTENDS DemoWorld

VARIABLES
    mon,        \* where the cycle is
    mnow,       \* the cycle's now_utc
    seen,       \* seen[t]: the state of t's trail as the cycle read it
    positions,  \* the tickets whose position positions_get returned
    deals,      \* the tickets whose entry deal history_deals_get returned
    exits,      \* the tickets whose exit deal history_deals_get returned
    refusals,   \* the tickets whose rejected order history_orders_get returned
    todo,       \* the tickets the cycle, or recovery, has not looked at yet
    subject,    \* the unresolved ticket the cycle is working on
    sending,    \* whether the cycle saw a send claim for it: "none", "SENDING" or "UNCERTAIN"
    problem,    \* whether the cycle found a problem
    up          \* FALSE from a crash until restart recovery has finished

reading == <<mnow, seen, positions, deals, exits, refusals>>
monitor == <<mon, reading, todo, subject, sending, problem, up>>

MonitorTypeOK ==
    /\ mon \in {"idle", "positions", "history", "tickets", "mark", "resolve"}
    /\ mnow \in Time
    /\ seen \in [Tickets -> TrailStates]
    /\ positions \subseteq Tickets /\ deals \subseteq Tickets
    /\ exits \subseteq Tickets /\ refusals \subseteq Tickets
    /\ todo \subseteq Tickets
    /\ subject \in Tickets
    /\ sending \in {"none", "SENDING", "UNCERTAIN"}
    /\ problem \in BOOLEAN
    /\ up \in BOOLEAN

\* What a cycle that is not running holds.
NoReading ==
    /\ mnow' = 0
    /\ seen' = [t \in Tickets |-> "NONE"]
    /\ positions' = {} /\ deals' = {} /\ exits' = {} /\ refusals' = {}

MonitorInit ==
    /\ mon = "idle"
    /\ mnow = 0
    /\ seen = [t \in Tickets |-> "NONE"]
    /\ positions = {} /\ deals = {} /\ exits = {} /\ refusals = {}
    /\ todo = {}
    /\ subject \in Tickets
    /\ sending = "none"
    /\ problem = FALSE
    /\ up = TRUE

-----------------------------------------------------------------------------
(* run_cycle *)

\* The trails are read first.
CycleStart ==
    /\ up /\ mon = "idle"
    /\ mon' = "positions"
    /\ mnow' = clock
    /\ seen' = lc
    /\ UNCHANGED <<positions, deals, exits, refusals, todo, subject, sending, problem, up, store, world>>

\* positions_get; a terminal that cannot be read ends the cycle with nothing changed.
CyclePositions ==
    /\ mon = "positions"
    /\ \/ /\ mon' = "history"
          /\ positions' = OpenPositions
          /\ UNCHANGED <<mnow, seen, deals, exits, refusals>>
       \/ mon' = "idle" /\ NoReading
    /\ UNCHANGED <<todo, subject, sending, problem, up, store, world>>

\* history_deals_get and history_orders_get.
CycleHistory ==
    /\ mon = "history"
    /\ \/ /\ mon' = "tickets"
          /\ deals' = {t \in Tickets : order[t] \in {"filled", "closed"}}
          /\ exits' = {t \in Tickets : order[t] = "closed"}
          /\ refusals' = {t \in Tickets : order[t] = "rejected"}
          /\ todo' = {t \in Tickets : seen[t] # "NONE"}
          /\ UNCHANGED <<mnow, seen, positions>>
       \/ mon' = "idle" /\ NoReading /\ UNCHANGED todo
    /\ UNCHANGED <<subject, sending, problem, up, store, world>>

\* _tracking: acknowledged, or reconciled FILLED without a CLOSED row.
Tracking(t) ==
    \/ seen[t] \in {"BROKER_ACK", "POSITION_TRACKED"}
    \/ seen[t] = "RECONCILED" /\ ~HasRow(t, "CLOSED") /\ result[t] = "FILLED"

\* _track_open and the after-close test: what one ticket may do to the cycle's problem flag.  A
\* held position may differ from the recorded fill in quantity or price.
TrackVerdicts(t) ==
    IF Tracking(t)
      THEN IF t \in positions THEN {problem, TRUE}
           ELSE IF t \in exits THEN {problem} ELSE {TRUE}      \* POSITION_MISSING
      ELSE IF t \in positions THEN {TRUE} ELSE {problem}       \* POSITION_AFTER_CLOSE

CycleTracked(t) ==
    /\ mon = "tickets" /\ t \in todo
    /\ seen[t] \in {"BROKER_ACK", "POSITION_TRACKED", "CLOSED", "RECONCILED"}
    /\ todo' = todo \ {t}
    /\ problem' \in TrackVerdicts(t)
    /\ UNCHANGED <<mon, reading, subject, sending, up, store, world>>

\* Mutant: a SENT trail is always taken for in flight.
CyclePendingAlways(t) ==
    /\ mon = "tickets" /\ t \in todo
    /\ seen[t] \in {"AUTHORIZED", "CHECKED", "SENT"}
    /\ todo' = todo \ {t}
    /\ UNCHANGED <<mon, reading, subject, sending, problem, up, store, world>>

\* Still before the send, or inside the send's own window: PENDING.
CyclePending(t) ==
    /\ mon = "tickets" /\ t \in todo
    /\ \/ seen[t] \in {"AUTHORIZED", "CHECKED"}
       \/ seen[t] = "SENT" /\ mnow < at[t]["SENT"] + Window
    /\ todo' = todo \ {t}
    /\ UNCHANGED <<mon, reading, subject, sending, problem, up, store, world>>

\* claim.prior_state as inspect reports it; an unreadable ledger reports none.
ClaimSeen(t) ==
    {"none"} \cup {s \in {"SENDING", "UNCERTAIN"} :
                   \/ s = "UNCERTAIN" /\ Inspect(t) = "HALT_UNKNOWN_RESULT"
                   \/ s = "SENDING" /\ Inspect(t) = "HALT_UNCERTAIN_SEND"}

\* _resolve_unknown, its first part: the claim is inspected, and a SENT trail whose window has
\* passed is halted, whatever state it has reached since it was read.
CycleHalt(t) ==
    /\ mon = "tickets" /\ t \in todo
    /\ \/ seen[t] = "HALT" /\ UNCHANGED <<lc, at, haltedFrom>>
       \/ /\ seen[t] = "SENT" /\ mnow >= at[t]["SENT"] + Window
          /\ HaltRecorded(t, mnow, "SENT") \/ HaltNotRecorded(t, mnow)
    /\ todo' = todo \ {t}
    /\ subject' = t
    /\ sending' \in ClaimSeen(t)
    /\ mon' = IF seen[t] = "SENT" /\ sending' = "SENDING" THEN "mark" ELSE "resolve"
    /\ UNCHANGED <<reading, problem, up, author, result, claim, confirmedAt, used, stop, world>>

CycleMark ==
    /\ mon = "mark"
    /\ UnknownRecorded(subject)
    /\ mon' = "resolve"
    /\ UNCHANGED <<reading, todo, subject, sending, problem, up>>
    /\ UNCHANGED <<lc, at, author, haltedFrom, result, confirmedAt, used, stop, world>>

\* halted_from as the cycle holds it: of the HALT row it read, or SENT for a trail it halted.
HaltedFrom(t) == IF seen[t] = "SENT" THEN "SENT" ELSE haltedFrom[t]

\* Mutant: the absence of a claim alone is taken for a ticket that was not sent.
ResolutionByClaim(t) ==
    IF t \in deals THEN "FILLED"
    ELSE IF t \in refusals THEN "REJECTED"
    ELSE IF sending = "none" THEN "NOT_SENT"
    ELSE "UNKNOWN"

\* The terminal result broker history, or the absence of any claim, establishes for t.
Resolution(t) ==
    IF t \in deals THEN "FILLED"
    ELSE IF t \in refusals THEN "REJECTED"
    ELSE IF sending = "none" /\ HaltedFrom(t) \in {"AUTHORIZED", "CHECKED"} THEN "NOT_SENT"
    ELSE "UNKNOWN"

\* Mutant: the unknown time is counted from the cycle itself.
TimedOutSinceNow(t) == mnow - mnow >= UnknownTimeout

\* SEND_UNKNOWN_TIMEOUT: unknown for the timeout since the HALT row, or since now without one.
TimedOut(t) ==
    mnow - (IF HasRow(t, "HALT") THEN at[t]["HALT"] ELSE mnow) >= UnknownTimeout

\* _resolve_unknown, its second part: RECONCILED with the result found, or still UNKNOWN and
\* after the timeout a problem.
CycleResolve ==
    LET t == subject
        res == Resolution(t)
        orderId == res \in {"FILLED", "REJECTED"} IN
    /\ mon = "resolve"
    /\ IF res # "UNKNOWN"
         THEN /\ ReconcileRecorded(t, mnow, res, orderId) \/ ReconcileNotRecorded(t, mnow, orderId)
              /\ UNCHANGED problem
         ELSE /\ problem' = (problem \/ TimedOut(t))
              /\ UNCHANGED <<lc, at, result>>
    /\ mon' = "tickets"
    /\ sending' = "none"
    /\ UNCHANGED <<reading, todo, subject, up>>
    /\ UNCHANGED <<author, haltedFrom, claim, confirmedAt, used, stop, world>>

\* Positions of ours with no ticket among the trails read.
Orphans == {t \in positions : seen[t] = "NONE"}

\* Any problem engages the latch, once.
CycleEnd ==
    /\ mon = "tickets" /\ todo = {}
    /\ \/ /\ problem \/ Orphans # {}
          /\ stop' = TRUE
       \/ /\ WritesMayFail \/ (~problem /\ Orphans = {})
          /\ UNCHANGED stop
    /\ mon' = "idle"
    /\ problem' = FALSE
    /\ NoReading
    /\ UNCHANGED <<todo, subject, sending, up>>
    /\ UNCHANGED <<lc, at, author, haltedFrom, result, claim, confirmedAt, used, world>>

-----------------------------------------------------------------------------
(* Restart *)

\* The monitor's part of a crash: the cycle is gone, recovery has every ticket to look at.
MonitorCrash ==
    /\ mon' = "idle"
    /\ NoReading
    /\ todo' = Tickets
    /\ sending' = "none"
    /\ problem' = FALSE
    /\ up' = FALSE
    /\ UNCHANGED subject

\* Mutant: recovery halts only the trails that have a SENT row.
RecoverSentOnly(t) ==
    /\ ~up /\ t \in todo
    /\ \/ /\ lc[t] = "SENT"
          /\ HaltRecorded(t, clock, lc[t]) \/ HaltNotRecorded(t, clock)
          /\ UnknownRecorded(t)
       \/ /\ lc[t] # "SENT"
          /\ UNCHANGED <<lc, at, haltedFrom, claim>>
    /\ todo' = todo \ {t}
    /\ UNCHANGED <<mon, reading, subject, sending, problem, up>>
    /\ UNCHANGED <<author, result, confirmedAt, used, stop, world>>

\* recover_after_restart for one ticket: a trail left before the acknowledgement is halted and a
\* bare send claim marked; either write may fail, or be cut off by the next crash.
Recover(t) ==
    /\ ~up /\ t \in todo
    /\ \/ /\ lc[t] \in {"AUTHORIZED", "CHECKED", "SENT"}
          /\ HaltRecorded(t, clock, lc[t]) \/ HaltNotRecorded(t, clock)
          /\ UnknownRecorded(t)
       \/ /\ lc[t] \notin {"AUTHORIZED", "CHECKED", "SENT"}
          /\ UNCHANGED <<lc, at, haltedFrom, claim>>
    /\ todo' = todo \ {t}
    /\ UNCHANGED <<mon, reading, subject, sending, problem, up>>
    /\ UNCHANGED <<author, result, confirmedAt, used, stop, world>>

RecoveryDone ==
    /\ ~up /\ todo = {}
    /\ up' = TRUE
    /\ UNCHANGED <<mon, reading, todo, subject, sending, problem, store, world>>

MonitorStep ==
    \/ CycleStart \/ CyclePositions \/ CycleHistory \/ CycleMark \/ CycleResolve \/ CycleEnd
    \/ \E t \in Tickets : CycleTracked(t) \/ CyclePending(t) \/ CycleHalt(t)

RecoveryStep == RecoveryDone \/ \E t \in Tickets : Recover(t)
=============================================================================
