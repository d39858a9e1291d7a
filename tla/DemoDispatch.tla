---------------------------- MODULE DemoDispatch ----------------------------
(***************************************************************************)
(* dispatch_demo_order: one guarded attempt to send one DEMO order.  Each  *)
(* action is the part of the attempt between two accesses to shared state: *)
(* the guard (guarded_adapter.py) re-validates from the store, then writes *)
(* it; the canonical adapter (mt5_canonical_adapter.py) re-validates, then *)
(* calls the broker.  Attempts run as threads of one process, so anything  *)
(* can happen between a validation and the write or call that relies on    *)
(* it.                                                                     *)
(*                                                                         *)
(* Checks on data the model does not hold (scope files, account identity,  *)
(* notification, evidence digests, market data) may refuse at any point:   *)
(* they are the choice `refused' of the step they belong to.               *)
(***************************************************************************)
EXTENDS DemoWorld

VARIABLES
    pc,     \* pc[a]: where attempt a is
    tkt,    \* tkt[a]: the ticket it dispatches
    cid,    \* cid[a]: the owner confirmation id it names
    when    \* when[a]: the `now' its current guarded call was given

dispatch == <<pc, tkt, cid, when>>

PCs == {"idle",
        "check_identity", "check_pretrade", "gates", "gates_refused", "append_authorized",
        "broker_check", "order_checked", "append_checked",
        "send_identity", "send_pretrade", "reserve", "append_sent",
        "adapter", "order_send",
        "ack", "ack_bad", "append_ack",
        "halt_in_ack", "mark_in_ack", "halt", "mark",
        "done"}

DispatchTypeOK ==
    /\ pc \in [Attempts -> PCs]
    /\ tkt \in [Attempts -> Tickets]
    /\ cid \in [Attempts -> ConfirmIds \cup {0}]
    /\ when \in [Attempts -> Time]

DispatchInit ==
    /\ pc = [a \in Attempts |-> "idle"]
    /\ tkt \in [Attempts -> Tickets]
    /\ cid \in [Attempts -> ConfirmIds \cup {0}]
    /\ when = [a \in Attempts |-> 0]

Goto(a, label) == pc' = [pc EXCEPT ![a] = label]

\* A step that touches nothing but the attempt's own control.
Local == UNCHANGED <<tkt, cid, store, world>>

\* The call's clock reading.
AtNow(a) == when' = [when EXCEPT ![a] = clock]

\* _revalidate_identity without allow_halted: the trail is neither halted nor reconciled.
IdentityValid(t) == lc[t] \notin {"HALT", "RECONCILED"}

\* _expired: more than one window since the row of state s.
Expired(t, s, n) == n - at[t][s] > Window

\* check_signal_freshness_at_send; the signal closed at time 0.
FreshAtSend(n) == n < ValidUntil /\ n <= Window

-----------------------------------------------------------------------------
(* authorize_order_check *)

\* The scope and the standing authorization are read, the authority is built.
Start(a) ==
    /\ pc[a] = "idle"
    /\ AtNow(a)
    /\ \/ standing /\ Goto(a, "check_identity")
       \/ Goto(a, "done")
    /\ Local

\* Identity, empty trail, emergency latch, claim ledger: a refusal here reads nothing further.
AuthorizeCheck(a) ==
    /\ pc[a] = "check_identity"
    /\ LET t == tkt[a] IN
         \/ /\ lc[t] = "NONE" /\ ~stop /\ Inspect(t) = "IDEMPOTENCY_KEY_AVAILABLE"
            /\ Goto(a, "check_pretrade")
         \/ Goto(a, "done")
    /\ UNCHANGED when
    /\ Local

\* _revalidate_pre_trade up to the gates: a refused account read is remembered, but only a
\* refused confirmation or a missing risk snapshot keeps the gates from running.
PreTradeCheck(a) ==
    /\ pc[a] = "check_pretrade"
    /\ \/ /\ ConfirmationValid(tkt[a], cid[a], when[a], FALSE)
          /\ \E label \in {"gates", "gates_refused"} : Goto(a, label)
       \/ Goto(a, "done")
    /\ UNCHANGED when
    /\ Local

\* evaluate_pre_send_gates: scope, READY, standing authorization and notification decide whether
\* the confirmation is consumed; risk, cost, freshness, geometry and idempotency come after.
Gates(a) ==
    /\ pc[a] \in {"gates", "gates_refused"}
    /\ LET t == tkt[a] IN
         \/ /\ standing
            /\ Consumed(t, when[a]) \/ (~ConfirmRequired /\ UNCHANGED used)
            /\ \/ /\ pc[a] = "gates"
                  /\ RiskCapsAllow /\ FreshAtSend(when[a])
                  /\ Inspect(t) = "IDEMPOTENCY_KEY_AVAILABLE"
                  /\ Goto(a, "append_authorized")
               \/ Goto(a, "done")
         \/ Goto(a, "done") /\ UNCHANGED used
    /\ UNCHANGED <<tkt, cid, when, lc, at, author, haltedFrom, result, claim, confirmedAt, stop, world>>

\* A guarded append by attempt a: the row carries its authority; a refused or failed append
\* sends the attempt to `otherwise'.  A write that raised may have left its row in the file.
GuardedAppend(a, s, label, otherwise) ==
    LET t == tkt[a] IN
      \/ /\ CanAppend(t, s, when[a])
         /\ Recorded(t, s, when[a])
         /\ author' = [author EXCEPT ![t] = a]
         /\ Goto(a, label) \/ (WritesMayFail /\ Goto(a, otherwise))
      \/ /\ WritesMayFail \/ ~CanAppend(t, s, when[a])
         /\ Goto(a, otherwise)
         /\ UNCHANGED <<lc, at, author>>

AppendAuthorized(a) ==
    /\ pc[a] = "append_authorized"
    /\ GuardedAppend(a, "AUTHORIZED", "broker_check", "done")
    /\ UNCHANGED <<tkt, cid, when, haltedFrom, result, claim, confirmedAt, used, stop, world>>

\* The adapter's _step: the latest row is the authorized state, written under this authority,
\* and its window has not passed.
StepAuthorized(a, s) ==
    LET t == tkt[a] IN
      lc[t] = s /\ author[t] = a /\ clock < at[t][s] + Window

\* order_check: nothing is sent; a refusal, a raise or a bad retcode ends the attempt.
BrokerCheck(a) ==
    /\ pc[a] = "broker_check"
    /\ \/ StepAuthorized(a, "AUTHORIZED") /\ Goto(a, "order_checked")
       \/ Goto(a, "done")
    /\ UNCHANGED when
    /\ Local

-----------------------------------------------------------------------------
(* record_order_checked *)

OrderChecked(a) ==
    /\ pc[a] = "order_checked"
    /\ AtNow(a)
    /\ LET t == tkt[a] IN
         \/ /\ IdentityValid(t)
            /\ HasRow(t, "AUTHORIZED") /\ author[t] = a
            /\ ~Expired(t, "AUTHORIZED", clock)
            /\ ConfirmationValid(t, cid[a], clock, FALSE)
            /\ standing
            /\ Goto(a, "append_checked")
         \/ Goto(a, "done")
    /\ Local

AppendChecked(a) ==
    /\ pc[a] = "append_checked"
    /\ GuardedAppend(a, "CHECKED", "send_identity", "done")
    /\ UNCHANGED <<tkt, cid, when, haltedFrom, result, claim, confirmedAt, used, stop, world>>

-----------------------------------------------------------------------------
(* authorize_order_send *)

\* Identity, checked row, expiry, claim, emergency latch and signal freshness.
AuthorizeSend(a) ==
    /\ pc[a] = "send_identity"
    /\ AtNow(a)
    /\ LET t == tkt[a] IN
         \/ /\ IdentityValid(t)
            /\ HasRow(t, "CHECKED") /\ author[t] = a
            /\ ~Expired(t, "CHECKED", clock)
            /\ Inspect(t) = "IDEMPOTENCY_KEY_AVAILABLE"
            /\ ~stop
            /\ FreshAtSend(clock)
            /\ Goto(a, "send_pretrade")
         \/ Goto(a, "done")
    /\ Local

\* The account, the consumed confirmation, the standing authorization and the risk caps on a
\* snapshot built now.
SendPreTrade(a) ==
    /\ pc[a] = "send_pretrade"
    /\ \/ /\ ConfirmationValid(tkt[a], cid[a], when[a], TRUE)
          /\ standing
          /\ RiskCapsAllow
          /\ Goto(a, "reserve")
       \/ Goto(a, "done")
    /\ UNCHANGED when
    /\ Local

\* The durable claim comes before the SENT row.  A claim write that raised may be durable.
Reserve(a) ==
    /\ pc[a] = "reserve"
    /\ LET t == tkt[a] IN
         \/ /\ Reserved(t)
            /\ Goto(a, "append_sent") \/ (WritesMayFail /\ Goto(a, "done"))
         \/ /\ WritesMayFail \/ Inspect(t) # "IDEMPOTENCY_KEY_AVAILABLE"
            /\ Goto(a, "done")
            /\ UNCHANGED claim
    /\ UNCHANGED <<tkt, cid, when, lc, at, author, haltedFrom, result, confirmedAt, used, stop, world>>

\* A SENT row that cannot be written leaves the claim behind and the attempt returns refused.
AppendSent(a) ==
    /\ pc[a] = "append_sent"
    /\ GuardedAppend(a, "SENT", "adapter", "done")
    /\ UNCHANGED <<tkt, cid, when, haltedFrom, result, claim, confirmedAt, used, stop, world>>

-----------------------------------------------------------------------------
(* The canonical adapter's order_send *)

\* Everything is re-read once more; a refusal here follows a durable claim, so it halts.
AdapterPreflight(a) ==
    /\ pc[a] = "adapter"
    /\ \/ /\ StepAuthorized(a, "SENT")
          /\ Inspect(tkt[a]) = "HALT_UNCERTAIN_SEND"
          /\ ConfirmationValid(tkt[a], cid[a], clock, TRUE)
          /\ Goto(a, "order_send")
       \/ Goto(a, "halt")
    /\ UNCHANGED when
    /\ Local

\* What mt5.order_send may answer about a request that ended as o: accepted with an order id,
\* answered without one or with another retcode, or no answer (a raise or None).
Answers(o) ==
    {"ack_bad", "halt"} \cup (IF o \in {"live", "filled"} THEN {"ack"} ELSE {})

\* Mutant: a call without an answer is repeated.
OrderSendRetried(a) ==
    /\ pc[a] = "order_send"
    /\ LET t == tkt[a] IN
         /\ sends' = [sends EXCEPT ![t] = @ + 1]
         /\ \E o \in {"lost", "live", "filled", "rejected"} :
              /\ order' = [order EXCEPT ![t] = o]
              /\ \E label \in (Answers(o) \ {"halt"}) \cup {"order_send"} : Goto(a, label)
    /\ UNCHANGED <<tkt, cid, when, clock, standing, store>>

\* The one call that can create an order.
OrderSend(a) ==
    /\ pc[a] = "order_send"
    /\ LET t == tkt[a] IN
         /\ sends' = [sends EXCEPT ![t] = @ + 1]
         /\ \E o \in {"lost", "live", "filled", "rejected"} :
              /\ order' = [order EXCEPT ![t] = o]
              /\ \E label \in Answers(o) : Goto(a, label)
    /\ UNCHANGED <<tkt, cid, when, clock, standing, store>>

-----------------------------------------------------------------------------
(* record_broker_ack and halt *)

\* A trail already halted is reported as it is; any other refusal is halted by the caller; a
\* passed window, a missing order id or a bad retcode halts inside the call.
BrokerAck(a) ==
    /\ pc[a] \in {"ack", "ack_bad"}
    /\ AtNow(a)
    /\ LET t == tkt[a] IN
         \/ lc[t] = "HALT" /\ Goto(a, "done")
         \/ lc[t] # "HALT" /\ Goto(a, "halt")
         \/ /\ IdentityValid(t) /\ HasRow(t, "SENT") /\ author[t] = a
            /\ IF Expired(t, "SENT", clock) \/ pc[a] = "ack_bad"
                 THEN Goto(a, "halt_in_ack")
                 ELSE Goto(a, "append_ack")
    /\ Local

AppendAck(a) ==
    /\ pc[a] = "append_ack"
    /\ GuardedAppend(a, "BROKER_ACK", "done", "halt")
    /\ UNCHANGED <<tkt, cid, when, haltedFrom, result, claim, confirmedAt, used, stop, world>>

\* guard.halt, its HALT row.  A refused identity writes nothing and marks nothing; a refused
\* append still marks the claim.  A halt that fails inside record_broker_ack, even if its row is
\* durable, is tried once more by the dispatcher.
Halt(a) ==
    /\ pc[a] \in {"halt", "halt_in_ack"}
    /\ IF pc[a] = "halt" THEN AtNow(a) ELSE UNCHANGED when
    /\ LET t == tkt[a] IN
         \/ /\ HaltRecorded(t, when'[a], lc[t])
            /\ Goto(a, "mark") \/ (WritesMayFail /\ pc[a] = "halt_in_ack" /\ Goto(a, "mark_in_ack"))
         \/ /\ HaltNotRecorded(t, when'[a])
            /\ Goto(a, IF pc[a] = "halt" THEN "mark" ELSE "mark_in_ack")
         \/ /\ Goto(a, IF pc[a] = "halt" THEN "done" ELSE "halt")
            /\ UNCHANGED <<lc, at, haltedFrom>>
    /\ UNCHANGED <<tkt, cid, author, result, claim, confirmedAt, used, stop, world>>

\* guard.halt, the unknown marker of the claim.
MarkUnknown(a) ==
    /\ pc[a] \in {"mark", "mark_in_ack"}
    /\ UnknownRecorded(tkt[a])
    /\ Goto(a, IF pc[a] = "mark" THEN "done" ELSE "halt")
    /\ UNCHANGED <<tkt, cid, when, lc, at, author, haltedFrom, result, confirmedAt, used, stop, world>>

-----------------------------------------------------------------------------
(* Post-trade evidence recorded by the host through the guard *)

\* record_position_tracked with the position the broker shows.
PositionTracked(t) ==
    /\ IdentityValid(t)
    /\ order[t] = "filled"
    /\ CanAppend(t, "POSITION_TRACKED", clock)
    /\ Recorded(t, "POSITION_TRACKED", clock)
    /\ UNCHANGED <<author, haltedFrom, result, claim, confirmedAt, used, stop, world, dispatch>>

\* record_position_closed with the exit deal the broker shows.
PositionClosed(t) ==
    /\ IdentityValid(t)
    /\ order[t] = "closed"
    /\ CanAppend(t, "CLOSED", clock)
    /\ Recorded(t, "CLOSED", clock)
    /\ UNCHANGED <<author, haltedFrom, result, claim, confirmedAt, used, stop, world, dispatch>>

\* guard.reconcile with the deal the adapter's reconcile found; the claim is settled after the
\* row, if nothing marked it unknown.
HostReconcile(t) ==
    /\ order[t] \in {"filled", "closed"}
    /\ ReconcileRecorded(t, clock, "FILLED", TRUE)
    /\ ClaimReconciled(t)
    /\ UNCHANGED <<author, haltedFrom, confirmedAt, used, stop, world, dispatch>>

AttemptStep(a) ==
    \/ AuthorizeCheck(a) \/ PreTradeCheck(a) \/ Gates(a) \/ AppendAuthorized(a)
    \/ BrokerCheck(a) \/ OrderChecked(a) \/ AppendChecked(a)
    \/ AuthorizeSend(a) \/ SendPreTrade(a) \/ Reserve(a) \/ AppendSent(a)
    \/ AdapterPreflight(a) \/ OrderSend(a)
    \/ BrokerAck(a) \/ AppendAck(a) \/ Halt(a) \/ MarkUnknown(a)

HostStep(t) == PositionTracked(t) \/ PositionClosed(t) \/ HostReconcile(t)
=============================================================================
