--------------------------- MODULE TicketDelivery ---------------------------
(***************************************************************************)
(* ticket_delivery: process_pair_result over TicketDeliveryStore, for one  *)
(* logical ticket (strategy, symbol, cycle and date).  Tickets share a     *)
(* JSON file but not a record, and a put rereads the file under the        *)
(* path's lock, so one ticket shows every interleaving that matters.       *)
(*                                                                         *)
(* Each call is a thread of the scheduler's process; every get and every   *)
(* put of the record is atomic, and nothing joins two of them.  The claim  *)
(* lock is a file: it outlives the thread that made it.                    *)
(***************************************************************************)
EXTENDS Integers, FiniteSets

CONSTANTS
    Calls,              \* calls of process_pair_result for the ticket
    MaxDeaths,          \* bound on the calls that die
    FirstCycleAlone     \* whether calls overlap only once the ticket has a record

ASSUME DeliveryAssumption == MaxDeaths \in Nat /\ FirstCycleAlone \in BOOLEAN

VARIABLES
    state,      \* the state of the ticket's record, "absent" without one
    attempt,    \* its attempt_number
    lock,       \* the claim's lock file, "present" or "missing"
    pc,         \* pc[c]: where call c is
    cycle,      \* cycle[c]: the decision it was handed, "READY" or another
    seen,       \* seen[c]: the attempt number of the record it read last
    outcome,    \* outcome[c]: the state its delivery ended in
    owner,      \* where resolve_ambiguous_outcome is
    ownerSeen,  \* the attempt number it read
    deaths,     \* how many calls died
    chat        \* how many messages of the ticket appeared in the chat

vars == <<state, attempt, lock, pc, cycle, seen, outcome, owner, ownerSeen, deaths, chat>>

RETRYABLE_STATES == {"DELIVERY_FAILED_RETRYABLE"}
AUTOMATIC_TERMINAL_STATES == {"DELIVERED", "DELIVERY_FAILED_TERMINAL"}
Claimable == {"READY_TO_DELIVER"} \cup RETRYABLE_STATES
Outcomes == AUTOMATIC_TERMINAL_STATES \cup RETRYABLE_STATES \cup {"DELIVERY_AMBIGUOUS"}
ALL_STATES == Claimable \cup Outcomes \cup {"NOT_APPLICABLE", "DELIVERY_CLAIMED"}

PCs == {"idle", "skip", "skipPut", "register", "registerPut", "claim", "lock", "recheck",
        "claimPut", "send", "mark", "markPut", "unlock", "done"}

TypeOK ==
    /\ state \in ALL_STATES \cup {"absent"}
    /\ attempt \in Nat
    /\ lock \in {"present", "missing"}
    /\ pc \in [Calls -> PCs]
    /\ cycle \in [Calls -> {"READY", "OTHER"}]
    /\ seen \in [Calls -> Nat]
    /\ outcome \in [Calls -> Outcomes]
    /\ owner \in {"idle", "unlock"} \cup AUTOMATIC_TERMINAL_STATES
    /\ ownerSeen \in Nat
    /\ deaths \in 0..MaxDeaths
    /\ chat \in Nat

Init ==
    /\ state = "absent" /\ attempt = 0 /\ lock = "missing"
    /\ pc = [c \in Calls |-> "idle"]
    /\ cycle \in [Calls -> {"READY", "OTHER"}]
    /\ seen = [c \in Calls |-> 0]
    /\ outcome = [c \in Calls |-> "DELIVERY_AMBIGUOUS"]
    /\ owner = "idle" /\ ownerSeen = 0 /\ deaths = 0 /\ chat = 0

Running(c) == pc[c] \notin {"idle", "done"}

Goto(c, label) == pc' = [pc EXCEPT ![c] = label]

Put(newState, number) == state' = newState /\ attempt' = number

-----------------------------------------------------------------------------
(* process_pair_result up to the claim *)

\* The archive comes first; its failure, a rejected catch-up or a blocked render ends the call.
Begin(c) ==
    /\ pc[c] = "idle"
    /\ FirstCycleAlone => state # "absent" \/ \A d \in Calls : ~Running(d)
    /\ \/ Goto(c, IF cycle[c] = "READY" THEN "register" ELSE "skip")
       \/ Goto(c, "done")
    /\ UNCHANGED <<state, attempt, lock, cycle, seen, outcome, owner, ownerSeen, deaths, chat>>

\* Mutant: the record is written whether or not there is one.
SkipGetBlind(c) ==
    /\ pc[c] = "skip"
    /\ Goto(c, "skipPut")
    /\ UNCHANGED <<state, attempt, lock, cycle, seen, outcome, owner, ownerSeen, deaths, chat>>

\* record_not_applicable: get
SkipGet(c) ==
    /\ pc[c] = "skip"
    /\ Goto(c, IF state = "absent" THEN "skipPut" ELSE "done")
    /\ UNCHANGED <<state, attempt, lock, cycle, seen, outcome, owner, ownerSeen, deaths, chat>>

\* record_not_applicable: put
SkipPut(c) ==
    /\ pc[c] = "skipPut"
    /\ Put("NOT_APPLICABLE", 0)
    /\ Goto(c, "done")
    /\ UNCHANGED <<lock, cycle, seen, outcome, owner, ownerSeen, deaths, chat>>

\* ensure_ready_to_deliver: get.  Without a transport the call ends once the record is there.
RegisterGet(c) ==
    /\ pc[c] = "register"
    /\ \/ state = "absent" /\ Goto(c, "registerPut")
       \/ state # "absent" /\ \E label \in {"claim", "done"} : Goto(c, label)
    /\ UNCHANGED <<state, attempt, lock, cycle, seen, outcome, owner, ownerSeen, deaths, chat>>

\* ensure_ready_to_deliver: put
RegisterPut(c) ==
    /\ pc[c] = "registerPut"
    /\ Put("READY_TO_DELIVER", 0)
    /\ \E label \in {"claim", "done"} : Goto(c, label)
    /\ UNCHANGED <<lock, cycle, seen, outcome, owner, ownerSeen, deaths, chat>>

-----------------------------------------------------------------------------
(* claim_for_delivery *)

\* The unlocked read.
ClaimGet(c) ==
    /\ pc[c] = "claim"
    /\ Goto(c, IF state \in Claimable THEN "lock" ELSE "done")
    /\ UNCHANGED <<state, attempt, lock, cycle, seen, outcome, owner, ownerSeen, deaths, chat>>

\* Mutant: the lock file is opened without O_EXCL.
ClaimLockShared(c) ==
    /\ pc[c] = "lock"
    /\ lock' = "present"
    /\ Goto(c, "recheck")
    /\ UNCHANGED <<state, attempt, cycle, seen, outcome, owner, ownerSeen, deaths, chat>>

\* _try_acquire_lock: exclusive creation of the lock file.
ClaimLock(c) ==
    /\ pc[c] = "lock"
    /\ lock' = "present"
    /\ Goto(c, IF lock = "present" THEN "done" ELSE "recheck")
    /\ UNCHANGED <<state, attempt, cycle, seen, outcome, owner, ownerSeen, deaths, chat>>

\* Mutant: the record is not read again under the lock.
ClaimRecheckBlind(c) ==
    /\ pc[c] = "recheck"
    /\ seen' = [seen EXCEPT ![c] = attempt]
    /\ Goto(c, "claimPut")
    /\ UNCHANGED <<state, attempt, lock, cycle, outcome, owner, ownerSeen, deaths, chat>>

\* Mutant: the call returns without giving the lock back.
ClaimRecheckLeaks(c) ==
    /\ pc[c] = "recheck"
    /\ seen' = [seen EXCEPT ![c] = attempt]
    /\ Goto(c, IF state \in Claimable THEN "claimPut" ELSE "done")
    /\ UNCHANGED <<state, attempt, lock, cycle, outcome, owner, ownerSeen, deaths, chat>>

\* The read under the lock: another attempt may have completed since the first one.
ClaimRecheck(c) ==
    /\ pc[c] = "recheck"
    /\ seen' = [seen EXCEPT ![c] = attempt]
    /\ Goto(c, IF state \in Claimable THEN "claimPut" ELSE "unlock")
    /\ UNCHANGED <<state, attempt, lock, cycle, outcome, owner, ownerSeen, deaths, chat>>

ClaimPut(c) ==
    /\ pc[c] = "claimPut"
    /\ Put("DELIVERY_CLAIMED", seen[c] + 1)
    /\ Goto(c, "send")
    /\ UNCHANGED <<lock, cycle, seen, outcome, owner, ownerSeen, deaths, chat>>

-----------------------------------------------------------------------------
(* The provider, and the record of what it did *)

\* What the injected deliver may bring back: how often the message appeared, and the mark for it.
\* A rejection is definite, a timeout is not.
Answers ==
    {<<1, "DELIVERED">>, <<0, "DELIVERY_FAILED_RETRYABLE">>, <<0, "DELIVERY_FAILED_TERMINAL">>,
     <<0, "DELIVERY_AMBIGUOUS">>, <<1, "DELIVERY_AMBIGUOUS">>}

Send(c) ==
    /\ pc[c] = "send"
    /\ \E answer \in Answers :
         /\ chat' = chat + answer[1]
         /\ outcome' = [outcome EXCEPT ![c] = answer[2]]
    /\ Goto(c, "mark")
    /\ UNCHANGED <<state, attempt, lock, cycle, seen, owner, ownerSeen, deaths>>

\* mark_*: only a claimed record is marked; for any other the mark is dropped.
MarkGet(c) ==
    /\ pc[c] = "mark"
    /\ seen' = [seen EXCEPT ![c] = attempt]
    /\ Goto(c, IF state = "DELIVERY_CLAIMED" THEN "markPut" ELSE "done")
    /\ UNCHANGED <<state, attempt, lock, cycle, outcome, owner, ownerSeen, deaths, chat>>

\* mark_ambiguous keeps the claim lock, the others release it.
KeepsLock(o) == o = "DELIVERY_AMBIGUOUS"

\* Mutant: a timeout is marked as a failure to try again.
MarkPutHopeful(c) ==
    /\ pc[c] = "markPut"
    /\ Put(IF outcome[c] = "DELIVERY_AMBIGUOUS" THEN "DELIVERY_FAILED_RETRYABLE" ELSE outcome[c], seen[c])
    /\ Goto(c, "unlock")
    /\ UNCHANGED <<lock, cycle, seen, outcome, owner, ownerSeen, deaths, chat>>

\* mark_delivered, mark_failed_retryable, mark_failed_terminal, mark_ambiguous: put
MarkPut(c) ==
    /\ pc[c] = "markPut"
    /\ Put(outcome[c], seen[c])
    /\ Goto(c, IF KeepsLock(outcome[c]) THEN "done" ELSE "unlock")
    /\ UNCHANGED <<lock, cycle, seen, outcome, owner, ownerSeen, deaths, chat>>

\* _release_lock
Unlock(c) ==
    /\ pc[c] = "unlock"
    /\ lock' = "missing"
    /\ Goto(c, "done")
    /\ UNCHANGED <<state, attempt, cycle, seen, outcome, owner, ownerSeen, deaths, chat>>

\* The call dies: its process ends, or a read or write of the store raises.
Die(c) ==
    /\ deaths < MaxDeaths
    /\ Running(c)
    /\ deaths' = deaths + 1
    /\ Goto(c, "done")
    /\ UNCHANGED <<state, attempt, lock, cycle, seen, outcome, owner, ownerSeen, chat>>

-----------------------------------------------------------------------------
(* resolve_ambiguous_outcome, by hand, from what the chat shows *)

ResolveGet ==
    /\ owner = "idle" /\ state = "DELIVERY_AMBIGUOUS"
    /\ owner' = IF chat > 0 THEN "DELIVERED" ELSE "DELIVERY_FAILED_TERMINAL"
    /\ ownerSeen' = attempt
    /\ UNCHANGED <<state, attempt, lock, pc, cycle, seen, outcome, deaths, chat>>

ResolvePut ==
    /\ owner \in AUTOMATIC_TERMINAL_STATES
    /\ Put(owner, ownerSeen)
    /\ owner' = "unlock"
    /\ UNCHANGED <<lock, pc, cycle, seen, outcome, ownerSeen, deaths, chat>>

\* _release_lock
ResolveUnlock ==
    /\ owner = "unlock"
    /\ lock' = "missing"
    /\ owner' = "idle"
    /\ UNCHANGED <<state, attempt, pc, cycle, seen, outcome, ownerSeen, deaths, chat>>

Resolve == ResolveGet \/ ResolvePut \/ ResolveUnlock

CallStep(c) ==
    \/ SkipGet(c) \/ SkipPut(c) \/ RegisterGet(c) \/ RegisterPut(c)
    \/ ClaimGet(c) \/ ClaimLock(c) \/ ClaimRecheck(c) \/ ClaimPut(c)
    \/ Send(c) \/ MarkGet(c) \/ MarkPut(c) \/ Unlock(c)

Next ==
    \/ \E c \in Calls : Begin(c) \/ CallStep(c) \/ Die(c)
    \/ Resolve

Spec == Init /\ [][Next]_vars

\* A running thread goes on, and so does a resolution once it is begun.
Fairness == /\ \A c \in Calls : WF_vars(CallStep(c))
            /\ WF_vars(ResolvePut \/ ResolveUnlock)

FairSpec == Spec /\ Fairness

-----------------------------------------------------------------------------
\* The ticket's message appears in the chat at most once, over all calls, retries, ambiguous
\* outcomes and deaths (claim_for_delivery, mark_ambiguous).
AtMostOneMessage == chat <= 1

\* A final state of the record tells whether the message is in the chat (mark_*,
\* resolve_ambiguous_outcome).
RecordIsTrue ==
    /\ state = "DELIVERED" => chat > 0
    /\ state \in {"DELIVERY_FAILED_TERMINAL", "NOT_APPLICABLE", "READY_TO_DELIVER",
                  "DELIVERY_FAILED_RETRYABLE"} => chat = 0

RecordOf ==
    [absent |-> "open", READY_TO_DELIVER |-> "open", DELIVERY_FAILED_RETRYABLE |-> "open",
     DELIVERY_CLAIMED |-> "claimed", DELIVERED |-> "delivered", NOT_APPLICABLE |-> "dropped",
     DELIVERY_FAILED_TERMINAL |-> "dropped", DELIVERY_AMBIGUOUS |-> "doubtful"]
Promise == INSTANCE Courier WITH
    Messages <- {"ticket"},
    record <- [m \in {"ticket"} |-> RecordOf[state]],
    shown <- [m \in {"ticket"} |-> chat]

\* The delivery store implements the courier for its one ticket, the owner's resolution of an
\* ambiguous outcome included (claim_for_delivery, mark_*, resolve_ambiguous_outcome).
ImplementsCourier == Promise!CourierSpec

\* A call between its claim and its mark has the record to itself: it finds there the attempt it
\* claimed (claim_for_delivery: exactly one concurrent caller succeeds).
ClaimIsOwn ==
    \A c \in Calls : pc[c] \in {"send", "mark", "markPut"} =>
        state = "DELIVERY_CLAIMED" /\ attempt = IF pc[c] = "markPut" THEN seen[c] ELSE seen[c] + 1

\* A settled record never changes again, and the attempt number never falls (AUTOMATIC_TERMINAL_STATES).
SettledStays ==
    [][/\ state \in AUTOMATIC_TERMINAL_STATES \cup {"NOT_APPLICABLE"} => state' = state
       /\ attempt' >= attempt]_vars

\* A claim lock is given back, or is kept for an ambiguous record, unless a call dies
\* (_release_lock, mark_ambiguous).
LockIsReleased ==
    lock = "present" /\ deaths = 0 ~>
        lock = "missing" \/ state = "DELIVERY_AMBIGUOUS" \/ deaths > 0

-----------------------------------------------------------------------------
(* The inductive invariant *)

\* The calls that hold the claim lock.
Inside == {"recheck", "claimPut", "send", "mark", "markPut", "unlock"}

LockIsHeld ==
    /\ \A c \in Calls : pc[c] \in Inside => lock = "present" /\ owner = "idle"
    /\ \A c, d \in Calls : pc[c] \in Inside /\ pc[d] \in Inside => c = d
    /\ owner # "idle" => lock = "present"

\* Only the first call of a ticket without a record creates one.
FirstIsAlone ==
    /\ \A c \in Calls : pc[c] \in {"skipPut", "registerPut"} => state = "absent"
    /\ \A c \in Calls : pc[c] \in Inside \cup {"claim", "lock"} => state # "absent"
    /\ \A c, d \in Calls : state = "absent" /\ Running(c) /\ Running(d) => c = d

InsideIsCurrent ==
    /\ \A c \in Calls : pc[c] \in Inside => state # "DELIVERY_AMBIGUOUS"
    /\ \A c \in Calls : pc[c] = "claimPut" => state \in Claimable /\ attempt = seen[c]
    /\ \A c \in Calls : pc[c] = "send" => chat = 0
    /\ \A c \in Calls : pc[c] \in {"mark", "markPut"} =>
           /\ outcome[c] = "DELIVERED" => chat = 1
           /\ outcome[c] \in {"DELIVERY_FAILED_RETRYABLE", "DELIVERY_FAILED_TERMINAL"} => chat = 0

OwnerIsCurrent ==
    /\ owner \in AUTOMATIC_TERMINAL_STATES =>
           /\ state = "DELIVERY_AMBIGUOUS" /\ attempt = ownerSeen
           /\ owner = "DELIVERED" => chat > 0
           /\ owner = "DELIVERY_FAILED_TERMINAL" => chat = 0
    /\ owner = "unlock" => state \in AUTOMATIC_TERMINAL_STATES

AmbiguousIsLocked == state = "DELIVERY_AMBIGUOUS" => lock = "present"

AbsentIsFresh == state = "absent" => chat = 0 /\ attempt = 0

\* Under FirstCycleAlone the call inside the claim lock works on the current record, and a record
\* that may be claimed has no message (claim_for_delivery).
DeliveryInv ==
    /\ LockIsHeld /\ FirstIsAlone /\ InsideIsCurrent /\ OwnerIsCurrent /\ AmbiguousIsLocked
    /\ AbsentIsFresh /\ ClaimIsOwn /\ RecordIsTrue /\ AtMostOneMessage

=============================================================================
