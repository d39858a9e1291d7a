--------------------------- MODULE ManualDecision ---------------------------
(***************************************************************************)
(* Manual trade tickets: the host's FX run expires what the owner left     *)
(* undecided and resolves outcomes (run_manual_jobs), then archives        *)
(* versions of a ticket and sends the ready one with buttons (run_fx); the *)
(* owner decides with a tap (telegram_confirm.handle_callback) or on the   *)
(* command line (scripts/manual_ticket_decision.py).  All of them go       *)
(* through owner_decision.record_decision.                                 *)
(*                                                                         *)
(* There is one host run at a time (single_instance).  Taps and commands   *)
(* are processes of their own; only the decision lock, an operating-system *)
(* lock that ends with its holder, is between them and the host.           *)
(***************************************************************************)
EXTENDS Integers, Sequences

CONSTANTS
    Tickets,        \* manual tickets, all of trading day 0
    Taps, Commands, \* owner's taps and command-line calls
    Host,
    CommandDecisions, \* the decisions its commands record; the code offers all of DECISIONS
    ValidUntil,     \* valid_until of a ticket, within day 0
    DayLength,      \* moments of a day
    LookBack,       \* MANUAL_LOOKBACK_DAYS
    MaxTime,        \* bound on the clock
    MaxCrashes      \* bound on the host runs that die

TapDecisions == {"REJECTED", "REFUSED"}
DECISIONS == TapDecisions \cup {"TAKEN", "SKIPPED", "MISSED", "EXPIRED", "ACCEPTED"}

ASSUME DecisionAssumption ==
    /\ Tickets # {} /\ CommandDecisions \subseteq DECISIONS
    /\ Taps \cap Commands = {} /\ Host \notin Taps \cup Commands /\ "none" \notin Taps \cup Commands \cup {Host}
    /\ DayLength \in Nat \ {0} /\ ValidUntil \in Nat /\ ValidUntil <= DayLength
    /\ LookBack \in Nat /\ MaxTime \in Nat /\ MaxCrashes \in Nat

VARIABLES
    clock,
    version,    \* version[t]: what _decision_version picks: a ready row if there ever was one
    shown,      \* the tickets whose buttons are in the chat
    decisions,  \* decisions[t]: its lines of owner_decisions.jsonl, in order
    lock,       \* holder of the decision lock, "none" when free
    pc,         \* pc[p]: where process p is
    ticket,     \* ticket[p]: the ticket it is about
    want,       \* want[p]: the decision it means to record
    reply,      \* reply[p]: what a tap was answered
    now, todo,  \* the time the host run took, and the tickets left for its loop
    known,      \* known[t]: the decision it read before resolving, "none" without one
    outcomes,   \* outcomes[t]: its lines of the outcome journal: the decision each one carries
    mirrored,   \* the tickets whose outcome is in the ticket store
    resolved,   \* the days whose resolver is marked done
    crashes

vars == <<clock, version, shown, decisions, lock, pc, ticket, want, reply,
          now, todo, known, outcomes, mirrored, resolved, crashes>>

\* What taps and commands leave alone.
host == <<version, shown, now, todo, known, outcomes, mirrored, resolved>>

Procs == Taps \cup Commands \cup {Host}
Versions == {"absent", "nosignal", "blocked", "ready"}

Day(t) == t \div DayLength

OnTicketDay(t) == t < DayLength

\* The days a host run of time t looks back on include day 0.
InLookBack(t) == Day(t) <= LookBack

PCs == {"idle", "look", "lock", "check", "append", "reread", "scan", "expire", "next", "resolve",
        "outcome", "mirror", "done"}

TypeOK ==
    /\ clock \in 0..MaxTime
    /\ version \in [Tickets -> Versions]
    /\ shown \subseteq Tickets
    /\ decisions \in [Tickets -> Seq(DECISIONS)]
    /\ lock \in Procs \cup {"none"}
    /\ pc \in [Procs -> PCs]
    /\ ticket \in [Procs -> Tickets] /\ want \in [Procs -> DECISIONS]
    /\ reply \in [Taps -> {"none", "recorded", "already", "different"}]
    /\ now \in 0..MaxTime /\ todo \subseteq Tickets
    /\ known \in [Tickets -> DECISIONS \cup {"none"}]
    /\ outcomes \in [Tickets -> Seq(DECISIONS \cup {"none"})]
    /\ mirrored \subseteq Tickets
    /\ resolved \subseteq Int
    /\ crashes \in 0..MaxCrashes

Init ==
    /\ clock = 0
    /\ version = [t \in Tickets |-> "absent"] /\ shown = {}
    /\ decisions = [t \in Tickets |-> <<>>]
    /\ lock = "none"
    /\ pc = [p \in Procs |-> "idle"]
    /\ ticket = [p \in Procs |-> CHOOSE t \in Tickets : TRUE]
    /\ want = [p \in Procs |-> "EXPIRED"]
    /\ reply = [p \in Taps |-> "none"]
    /\ now = 0 /\ todo = {} /\ known = [t \in Tickets |-> "none"]
    /\ outcomes = [t \in Tickets |-> <<>>] /\ mirrored = {} /\ resolved = {} /\ crashes = 0

Goto(p, label) == pc' = [pc EXCEPT ![p] = label]

Tick ==
    /\ clock < MaxTime
    /\ clock' = clock + 1
    /\ UNCHANGED <<decisions, lock, pc, ticket, want, reply, crashes, host>>

-----------------------------------------------------------------------------
(* record_decision, by process p *)

\* The checks of a line besides being the first: there is an order to decide on, and for some decisions
\* the version read is the ready one and not expired.  A TAKEN line carries a fill before valid_until.
Eligible(t, d) ==
    CASE d \in TapDecisions \cup {"ACCEPTED"} -> version[t] = "ready" /\ clock < ValidUntil
      [] d = "TAKEN" -> version[t] = "ready"
      [] OTHER -> version[t] \in {"blocked", "ready"}

\* Mutant: the check and the append are not under one lock.
RecordLockNone(p) ==
    /\ pc[p] = "lock"
    /\ Goto(p, "check")
    /\ UNCHANGED <<clock, decisions, lock, ticket, want, reply, crashes, host>>

\* _decision_lock
RecordLock(p) ==
    /\ pc[p] = "lock" /\ lock = "none"
    /\ lock' = p
    /\ Goto(p, "check")
    /\ UNCHANGED <<clock, decisions, ticket, want, reply, crashes, host>>

\* The host run is over, and its locals with it.
HostEnd ==
    /\ Goto(Host, "idle") /\ now' = 0 /\ todo' = {}
    /\ known' = [t \in Tickets |-> "none"]

\* Where DecisionError leads: a tap reads again, a command and the host run are over.
Refused(p) ==
    IF p = Host THEN HostEnd
    ELSE Goto(p, IF p \in Taps THEN "reread" ELSE "done") /\ UNCHANGED <<now, todo, known>>

\* load_decisions under the lock
RecordCheck(p) ==
    /\ pc[p] = "check"
    /\ \/ decisions[ticket[p]] = <<>> /\ Goto(p, "append") /\ UNCHANGED <<lock, now, todo, known>>
       \/ decisions[ticket[p]] # <<>> /\ Refused(p) /\ lock' = "none"
    /\ UNCHANGED <<clock, decisions, ticket, want, reply, crashes,
                   version, shown, outcomes, mirrored, resolved>>

\* The line is appended and the lock given back; the host goes on with its loop.
RecordAppend(p) ==
    /\ pc[p] = "append"
    /\ decisions' = [decisions EXCEPT ![ticket[p]] = Append(@, want[p])]
    /\ lock' = "none"
    /\ Goto(p, IF p = Host THEN "next" ELSE "done")
    /\ reply' = IF p \in Taps THEN [reply EXCEPT ![p] = "recorded"] ELSE reply
    /\ UNCHANGED <<clock, ticket, want, crashes, host>>

-----------------------------------------------------------------------------
(* The owner: telegram_confirm.handle_callback, manual_ticket_decision.main *)

\* A tap that is authorized, genuine and in time.  execution_handoff never lets an Accept through,
\* so an Accept is recorded as REFUSED.
TapBegin(p) ==
    /\ pc[p] = "idle"
    /\ clock < ValidUntil
    /\ \E t \in shown, d \in TapDecisions :
         /\ ticket' = [ticket EXCEPT ![p] = t]
         /\ want' = [want EXCEPT ![p] = d]
    /\ Goto(p, "look")
    /\ UNCHANGED <<clock, decisions, lock, reply, crashes, host>>

\* _already_recorded
Already(p) ==
    LET d == Head(decisions[ticket[p]]) IN
    IF d = want[p] \/ (want[p] = "REFUSED" /\ d = "ACCEPTED") THEN "already" ELSE "different"

\* load_decisions before the append.
TapLook(p) ==
    /\ pc[p] = "look"
    /\ IF decisions[ticket[p]] = <<>>
       THEN Goto(p, "lock") /\ UNCHANGED reply
       ELSE Goto(p, "done") /\ reply' = [reply EXCEPT ![p] = Already(p)]
    /\ UNCHANGED <<clock, decisions, lock, ticket, want, crashes, host>>

\* Mutant: a tap that lost the race is told its decision stands.
TapRereadHopeful(p) ==
    /\ pc[p] = "reread"
    /\ Goto(p, "done") /\ reply' = [reply EXCEPT ![p] = "already"]
    /\ UNCHANGED <<clock, decisions, lock, ticket, want, crashes, host>>

\* load_decisions after a refusal.
TapReread(p) ==
    /\ pc[p] = "reread"
    /\ Goto(p, "done")
    /\ reply' = IF decisions[ticket[p]] = <<>> THEN reply ELSE [reply EXCEPT ![p] = Already(p)]
    /\ UNCHANGED <<clock, decisions, lock, ticket, want, crashes, host>>

\* A command reads the ticket and asks for its decision; one that is not eligible has no effect.  With
\* --expire it asks for EXPIRED for a ready ticket past its end that it reads no decision of; a command for
\* several tickets is one after another here, up to the first refusal, which ends it.
CommandBegin(p) ==
    /\ pc[p] = "idle"
    /\ \E t \in Tickets, d \in CommandDecisions \cup {"EXPIRED"} :
         /\ \/ d \in CommandDecisions /\ Eligible(t, d)
            \/ d = "EXPIRED" /\ version[t] = "ready" /\ decisions[t] = <<>> /\ clock >= ValidUntil
         /\ ticket' = [ticket EXCEPT ![p] = t]
         /\ want' = [want EXCEPT ![p] = d]
    /\ Goto(p, "lock")
    /\ UNCHANGED <<clock, decisions, lock, reply, crashes, host>>

-----------------------------------------------------------------------------
(* The host: run_fx, expire_undecided, resolve_day *)

HostStart ==
    /\ pc[Host] = "idle"
    /\ now' = clock
    /\ Goto(Host, "expire")
    /\ UNCHANGED <<clock, decisions, lock, ticket, want, reply, crashes,
                   version, shown, todo, known, outcomes, mirrored, resolved>>

\* Mutant: only the file of the run's own day is looked at.
ExpirableToday(t) ==
    version[t] = "ready" /\ decisions[t] = <<>> /\ now >= ValidUntil /\ OnTicketDay(now)

\* A ready ticket without a decision, at or past its expiry.
Expirable(t) ==
    version[t] = "ready" /\ decisions[t] = <<>> /\ now >= ValidUntil /\ InLookBack(now)

\* expire_undecided reads the decisions once.
HostExpire ==
    /\ pc[Host] = "expire"
    /\ todo' = {t \in Tickets : Expirable(t)}
    /\ Goto(Host, "next")
    /\ UNCHANGED <<clock, decisions, lock, now, ticket, want, reply, crashes,
                   version, shown, known, outcomes, mirrored, resolved>>

\* The next ticket to expire; after the last, the resolver, once a day.
HostNext ==
    /\ pc[Host] = "next"
    /\ \/ \E t \in todo :
            /\ ticket' = [ticket EXCEPT ![Host] = t]
            /\ want' = [want EXCEPT ![Host] = "EXPIRED"]
            /\ todo' = todo \ {t}
            /\ Goto(Host, "lock")
       \/ /\ todo = {}
          /\ Goto(Host, IF Day(now) \in resolved THEN "scan" ELSE "resolve")
          /\ UNCHANGED <<ticket, want, todo>>
    /\ UNCHANGED <<clock, decisions, lock, now, reply, crashes,
                   version, shown, known, outcomes, mirrored, resolved>>

\* Mutant: the outcomes already journalled are not skipped.
HostResolveAgain ==
    /\ pc[Host] = "resolve"
    /\ todo' = {t \in Tickets : /\ version[t] \in {"blocked", "ready"}
                                /\ ~OnTicketDay(now) /\ InLookBack(now)}
    /\ known' = [t \in Tickets |-> IF decisions[t] = <<>> THEN "none" ELSE Head(decisions[t])]
    /\ Goto(Host, "outcome")
    /\ UNCHANGED <<clock, decisions, lock, now, ticket, want, reply, crashes,
                   version, shown, outcomes, mirrored, resolved>>

\* resolve_day reads the outcomes and the decisions once.  Day 0 is looked at from the next day on.
HostResolve ==
    /\ pc[Host] = "resolve"
    /\ todo' = {t \in Tickets : /\ version[t] \in {"blocked", "ready"} /\ outcomes[t] = <<>>
                                /\ ~OnTicketDay(now) /\ InLookBack(now)}
    /\ known' = [t \in Tickets |-> IF decisions[t] = <<>> THEN "none" ELSE Head(decisions[t])]
    /\ Goto(Host, "outcome")
    /\ UNCHANGED <<clock, decisions, lock, now, ticket, want, reply, crashes,
                   version, shown, outcomes, mirrored, resolved>>

\* One ticket is resolved and journalled, or its bars are not there yet; a failed fetch ends the
\* loop.  At its end the day is marked, also after a failure.
HostOutcome ==
    /\ pc[Host] = "outcome"
    /\ \/ \E t \in todo :
            /\ todo' = todo \ {t}
            /\ \/ /\ outcomes' = [outcomes EXCEPT ![t] = Append(@, known[t])]
                  /\ ticket' = [ticket EXCEPT ![Host] = t]
                  /\ Goto(Host, "mirror")
               \/ UNCHANGED <<outcomes, ticket, pc>>
            /\ UNCHANGED resolved
       \/ /\ resolved' = resolved \cup {Day(now)}
          /\ Goto(Host, "scan") /\ todo' = {}
          /\ UNCHANGED <<outcomes, ticket>>
    /\ UNCHANGED <<clock, decisions, lock, now, want, reply, crashes,
                   version, shown, known, mirrored>>

\* TicketStore.append_outcome; when it fails, the day's other tickets are left for the next day and
\* this one's outcome stays out of the store.
HostMirror ==
    /\ pc[Host] = "mirror"
    /\ \/ mirrored' = mirrored \cup {ticket[Host]} /\ UNCHANGED todo
       \/ todo' = {} /\ UNCHANGED mirrored
    /\ Goto(Host, "outcome")
    /\ UNCHANGED <<clock, decisions, lock, now, ticket, want, reply, crashes,
                   version, shown, known, outcomes, resolved>>

\* build_manual_ticket and archive_if_changed, on the ticket's day: a ticket past its expiry is
\* blocked.  The ready one is sent with its buttons, if the message arrives.
HostScan ==
    /\ pc[Host] = "scan" /\ OnTicketDay(now)
    /\ \E t \in Tickets, v \in {"nosignal", "blocked", "ready"} :
         /\ v = "ready" => now < ValidUntil
         /\ version' = [version EXCEPT ![t] = IF @ = "ready" THEN "ready" ELSE v]
         /\ shown' \in {shown} \cup (IF v = "ready" THEN {shown \cup {t}} ELSE {})
    /\ UNCHANGED <<clock, decisions, lock, pc, now, ticket, want, reply, crashes,
                   todo, known, outcomes, mirrored, resolved>>

\* run_fx returns, and the host run is over.
HostDone ==
    /\ pc[Host] = "scan"
    /\ HostEnd
    /\ UNCHANGED <<clock, decisions, lock, ticket, want, reply, crashes,
                   version, shown, outcomes, mirrored, resolved>>

\* The host run dies; the operating system drops its lock.
HostCrash ==
    /\ crashes < MaxCrashes
    /\ pc[Host] # "idle"
    /\ crashes' = crashes + 1
    /\ lock' = IF lock = Host THEN "none" ELSE lock
    /\ HostEnd
    /\ UNCHANGED <<clock, decisions, ticket, want, reply,
                   version, shown, outcomes, mirrored, resolved>>

-----------------------------------------------------------------------------

Record(p) == RecordLock(p) \/ RecordCheck(p) \/ RecordAppend(p)

HostStep == Record(Host) \/ HostExpire \/ HostNext \/ HostResolve \/ HostOutcome \/ HostMirror
            \/ HostDone

TapStep(p) == Record(p) \/ TapLook(p) \/ TapReread(p)

Next ==
    \/ Tick \/ HostStart \/ HostScan \/ HostStep \/ HostCrash
    \/ \E p \in Taps : TapBegin(p) \/ TapStep(p)
    \/ \E p \in Commands : CommandBegin(p) \/ Record(p)

Spec == Init /\ [][Next]_vars

\* The clock goes on, host runs are started and go on, and so does a tap or a command once begun.
Fairness ==
    /\ WF_vars(Tick) /\ WF_vars(HostStart) /\ SF_vars(HostStep)
    /\ \A p \in Taps : WF_vars(TapStep(p))
    /\ \A p \in Commands : WF_vars(Record(p))

FairSpec == Spec /\ Fairness

-----------------------------------------------------------------------------
\* A ticket has at most one decision, and once written it stands: taps, commands and the expiry job
\* race for the same line (record_decision, _decision_lock).
OneDecision == \A t \in Tickets : Len(decisions[t]) <= 1

\* A tap that is told its decision is recorded, now or before, reads what the file says
\* (handle_callback, _already_recorded).
ReplyIsTrue ==
    \A p \in Taps : reply[p] \in {"recorded", "already"} =>
        \/ decisions[ticket[p]] = <<want[p]>>
        \/ want[p] = "REFUSED" /\ decisions[ticket[p]] = <<"ACCEPTED">>

\* The outcome of a ticket the owner was asked about carries the decision that stands in the file:
\* none is resolved while it is undecided, none is resolved twice (run_manual_jobs, resolve_day).
OutcomeCarriesDecision ==
    \A t \in Tickets : /\ Len(outcomes[t]) <= 1
                       /\ version[t] = "ready" /\ outcomes[t] # <<>> => outcomes[t] = decisions[t]

\* A ticket that was ready is decided in the end, by the owner or by the expiry job, whatever race or
\* crash ends a host run early (expire_undecided).
ReadyIsDecided == \A t \in Tickets : version[t] = "ready" ~> decisions[t] # <<>>

-----------------------------------------------------------------------------
(* The inductive invariant *)

LockIsHeld == \A p \in Procs : pc[p] \in {"check", "append"} <=> lock = p

AppendIsFirst == \A p \in Procs : pc[p] = "append" => decisions[ticket[p]] = <<>>

ReplyIsLast == \A p \in Taps : reply[p] # "none" => pc[p] = "done"

\* A ticket this host run has to expire is decided, left for the loop, or the one it is at.
Due(t) == version[t] = "ready" /\ now >= ValidUntil /\ InLookBack(now)

ExpiryIsUnderWay ==
    /\ pc[Host] \in {"next", "lock", "check", "append"} =>
           \A t \in Tickets : Due(t) =>
               \/ decisions[t] # <<>> \/ t \in todo
               \/ pc[Host] # "next" /\ ticket[Host] = t
    /\ pc[Host] = "resolve" => \A t \in Tickets : Due(t) => decisions[t] # <<>>

ResolverIsCurrent ==
    pc[Host] \in {"outcome", "mirror"} =>
        \A t \in todo : /\ outcomes[t] = <<>> /\ ~OnTicketDay(now)
                        /\ version[t] = "ready" => decisions[t] = <<known[t]>>

\* The ticket's day is over when its outcome is written, also for every later host run.
OutcomeIsLate ==
    \A t \in Tickets : outcomes[t] # <<>> =>
        ~OnTicketDay(clock) /\ (pc[Host] # "idle" => ~OnTicketDay(now))

HostIsLate == now <= clock /\ (pc[Host] = "mirror" => ~OnTicketDay(now))

DecisionInv ==
    /\ TypeOK /\ LockIsHeld /\ AppendIsFirst /\ ReplyIsLast /\ ExpiryIsUnderWay
    /\ ResolverIsCurrent /\ OutcomeIsLate /\ HostIsLate
    /\ OneDecision /\ ReplyIsTrue /\ OutcomeCarriesDecision

=============================================================================
