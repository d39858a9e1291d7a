--------------------------- MODULE ExecutionStore ---------------------------
(***************************************************************************)
(* The durable state of DEMO execution: what the TicketStore holds about a *)
(* ticket, and the operations that read and write it, each atomic under    *)
(* the lock the code takes.                                                *)
(*                                                                         *)
(* A trail is kept as its current state and the timestamp of each row; the *)
(* Lifecycle module shows that the day files behind it read back as such a *)
(* chain.  The claim ledger is the set of claim rows of a ticket, an owner *)
(* confirmation the time it was given, and the emergency latch one bit.    *)
(***************************************************************************)
EXTENDS Integers, FiniteSets, LifecycleStates

CONSTANTS
    Tickets,            \* ticket ids, all of one instrument
    Attempts,           \* calls of dispatch_demo_order, each made once
    NoAttempt,          \* stands for an absent authority
    MaxConfirms,        \* owner confirmations per ticket
    ConfirmRequired,    \* the scope's per_order_confirm_required
    Window,             \* signal_expiry_minutes: authority, authorization and signal window
    ValidUntil,         \* the tickets' valid_until
    UnknownTimeout,     \* the monitor's unknown_timeout
    MaxTime,            \* bound on the clock
    WritesMayFail,      \* whether a store append may raise
    MayRevoke           \* whether the owner may revoke the standing authorization

ASSUME StoreAssumption ==
    /\ NoAttempt \notin Attempts
    /\ MaxConfirms \in Nat
    /\ Window \in Nat /\ ValidUntil \in Nat /\ UnknownTimeout \in Nat /\ MaxTime \in Nat
    /\ ConfirmRequired \in BOOLEAN /\ WritesMayFail \in BOOLEAN /\ MayRevoke \in BOOLEAN

VARIABLES
    lc,             \* lc[t]: the current lifecycle state of t
    at,             \* at[t][s]: when the row of state s was recorded, NoTime if there is none
    author,         \* author[t]: the attempt whose authority the latest guarded row carries
    haltedFrom,     \* haltedFrom[t]: the halted_from evidence of t's HALT row
    result,         \* result[t]: the terminal_result of t's RECONCILED row
    claim,          \* claim[t]: the claim ledger's rows for t
    confirmedAt,    \* confirmedAt[t][k]: when the owner gave confirmation k, NoTime if not given
    used,           \* used[t]: the confirmations of t recorded as consumed
    stop            \* the emergency latch

store == <<lc, at, author, haltedFrom, result, claim, confirmedAt, used, stop>>

Time == 0..MaxTime
NoTime == -1
ConfirmIds == 1..MaxConfirms
ClaimKinds == {"SENDING", "UNCERTAIN", "RECONCILED"}
Results == {"NONE", "FILLED", "REJECTED", "NOT_SENT"}

StoreTypeOK ==
    /\ lc \in [Tickets -> TrailStates]
    /\ at \in [Tickets -> [RowStates -> Time \cup {NoTime}]]
    /\ author \in [Tickets -> Attempts \cup {NoAttempt}]
    /\ haltedFrom \in [Tickets -> TrailStates]
    /\ result \in [Tickets -> Results]
    /\ claim \in [Tickets -> SUBSET ClaimKinds]
    /\ confirmedAt \in [Tickets -> [ConfirmIds -> Time \cup {NoTime}]]
    /\ used \in [Tickets -> SUBSET ConfirmIds]
    /\ stop \in BOOLEAN

StoreInit ==
    /\ lc = [t \in Tickets |-> "NONE"]
    /\ at = [t \in Tickets |-> [s \in RowStates |-> NoTime]]
    /\ author = [t \in Tickets |-> NoAttempt]
    /\ haltedFrom = [t \in Tickets |-> "NONE"]
    /\ result = [t \in Tickets |-> "NONE"]
    /\ claim = [t \in Tickets |-> {}]
    /\ confirmedAt = [t \in Tickets |-> [k \in ConfirmIds |-> NoTime]]
    /\ used = [t \in Tickets |-> {}]
    /\ stop = FALSE

-----------------------------------------------------------------------------
(* ExecutionLifecycle.append *)

HasRow(t, s) == at[t][s] # NoTime

\* Mutant: append does not compare the new row's time with the last row's.
CanAppendAnyTime(t, s, n) == s \in ALLOWED_NEXT[lc[t]]

\* append admits state s at time n: the immediate next state, not before the last row.
CanAppend(t, s, n) ==
    /\ s \in ALLOWED_NEXT[lc[t]]
    /\ lc[t] # "NONE" => n >= at[t][lc[t]]

\* The row is durable.
Recorded(t, s, n) ==
    /\ lc' = [lc EXCEPT ![t] = s]
    /\ at' = [at EXCEPT ![t] = [@ EXCEPT ![s] = n]]

\* A HALT row with its halted_from evidence.
HaltRecorded(t, n, from) ==
    /\ CanAppend(t, "HALT", n)
    /\ Recorded(t, "HALT", n)
    /\ haltedFrom' = [haltedFrom EXCEPT ![t] = from]

\* append of HALT was refused, or its write raised.
HaltNotRecorded(t, n) ==
    /\ WritesMayFail \/ ~CanAppend(t, "HALT", n)
    /\ UNCHANGED <<lc, at, haltedFrom>>

\* A RECONCILED row; a trail with an acknowledgement needs the broker order id.
CanReconcile(t, n, orderId) ==
    /\ CanAppend(t, "RECONCILED", n)
    /\ HasRow(t, "BROKER_ACK") => orderId

ReconcileRecorded(t, n, res, orderId) ==
    /\ CanReconcile(t, n, orderId)
    /\ Recorded(t, "RECONCILED", n)
    /\ result' = [result EXCEPT ![t] = res]

ReconcileNotRecorded(t, n, orderId) ==
    /\ WritesMayFail \/ ~CanReconcile(t, n, orderId)
    /\ UNCHANGED <<lc, at, result>>

-----------------------------------------------------------------------------
(* ExecutionLedger *)

\* inspect's verdict, in the order the code tests the rows.
Inspect(t) ==
    IF "UNCERTAIN" \in claim[t] THEN "HALT_UNKNOWN_RESULT"
    ELSE IF "RECONCILED" \in claim[t]
      THEN IF "SENDING" \in claim[t] THEN "DUPLICATE_TICKET_ID" ELSE "EXECUTION_LEDGER_CONFLICT"
    ELSE IF "SENDING" \in claim[t] THEN "HALT_UNCERTAIN_SEND"
    ELSE "IDEMPOTENCY_KEY_AVAILABLE"

\* reserve_before_send: inspect and write under the ledger's ticket lock.
Reserved(t) ==
    /\ Inspect(t) = "IDEMPOTENCY_KEY_AVAILABLE"
    /\ claim' = [claim EXCEPT ![t] = @ \cup {"SENDING"}]

\* record_unknown: only a bare SENDING claim gets the unknown marker.
UnknownRecorded(t) ==
    IF claim[t] = {"SENDING"}
      THEN \/ claim' = [claim EXCEPT ![t] = @ \cup {"UNCERTAIN"}]
           \/ WritesMayFail /\ UNCHANGED claim
      ELSE UNCHANGED claim

\* Mutant: record_reconciled settles a claim already marked unknown.
ClaimReconciledAlways(t) ==
    IF "SENDING" \in claim[t]
      THEN \/ claim' = [claim EXCEPT ![t] = @ \cup {"RECONCILED"}]
           \/ WritesMayFail /\ UNCHANGED claim
      ELSE UNCHANGED claim

\* record_reconciled: only a bare SENDING claim is settled.
ClaimReconciled(t) ==
    IF claim[t] = {"SENDING"}
      THEN \/ claim' = [claim EXCEPT ![t] = @ \cup {"RECONCILED"}]
           \/ WritesMayFail /\ UNCHANGED claim
      ELSE UNCHANGED claim

-----------------------------------------------------------------------------
(* Owner confirmations *)

\* The confirmations of t inside its validity window as seen at time n.
Eligible(t, n) ==
    {k \in ConfirmIds : confirmedAt[t][k] # NoTime /\ confirmedAt[t][k] <= n /\ n < ValidUntil}

Unconsumed(t, n) == Eligible(t, n) \ used[t]

\* The most recent of a set of confirmations of t.
Latest(t, K) == {k \in K : \A j \in K : confirmedAt[t][j] <= confirmedAt[t][k]}

\* Mutant: any confirmation of the ticket counts, whichever id the authority names.
ConfirmationValidAnyId(t, k, n, requireConsumed) ==
    \/ ~ConfirmRequired
    \/ Unconsumed(t, n) # {} /\ ~requireConsumed
    \/ Unconsumed(t, n) = {} /\ Eligible(t, n) # {}

\* validate_confirmation_evidence for the confirmation id k an authority names.
ConfirmationValid(t, k, n, requireConsumed) ==
    \/ ~ConfirmRequired
    \/ /\ Unconsumed(t, n) # {}
       /\ k \in Latest(t, Unconsumed(t, n))
       /\ ~requireConsumed
    \/ /\ Unconsumed(t, n) = {}
       /\ Eligible(t, n) # {}
       /\ k \in used[t]

\* check_and_consume_owner_confirmation with consume=True, under the store lock: the latest
\* unconsumed confirmation is consumed, whichever id the authority names.
Consumed(t, n) ==
    /\ ConfirmRequired
    /\ \E k \in Latest(t, Unconsumed(t, n)) : used' = [used EXCEPT ![t] = @ \cup {k}]
=============================================================================
