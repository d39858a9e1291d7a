----------------------------- MODULE DemoWorld -----------------------------
(***************************************************************************)
(* What is outside the executing process: the clock, the owner, and the    *)
(* MetaTrader 5 account the adapter and the monitor talk to.               *)
(*                                                                         *)
(* The broker is modelled from how the code uses it: an order request may  *)
(* be lost, wait, fill or be rejected; a filled order shows as a position  *)
(* with an entry deal until it is closed by an exit deal; a rejected order *)
(* shows in the order history; a lost request shows nowhere.               *)
(***************************************************************************)
EXTENDS ExecutionStore

VARIABLES
    clock,      \* wall clock
    standing,   \* the owner's standing authorization is in force
    order,      \* order[t]: what became of the request tagged with ticket t
    sends       \* sends[t]: how many times mt5.order_send was called for t

world == <<clock, standing, order, sends>>

OrderStates == {"none", "lost", "live", "filled", "closed", "rejected"}

WorldTypeOK ==
    /\ clock \in Time
    /\ standing \in BOOLEAN
    /\ order \in [Tickets -> OrderStates]
    /\ sends \in [Tickets -> Nat]

WorldInit ==
    /\ clock = 0
    /\ standing = TRUE
    /\ order = [t \in Tickets |-> "none"]
    /\ sends = [t \in Tickets |-> 0]

OpenPositions == {t \in Tickets : order[t] = "filled"}

\* The instrument cap every fresh risk snapshot is held against.
MAX_OPEN_POSITIONS_PER_INSTRUMENT == 1
RiskCapsAllow == Cardinality(OpenPositions) < MAX_OPEN_POSITIONS_PER_INSTRUMENT

-----------------------------------------------------------------------------
Tick ==
    /\ clock < MaxTime
    /\ clock' = clock + 1
    /\ UNCHANGED <<standing, order, sends, store>>

\* A waiting order is executed or rejected by the broker.
BrokerExecute(t) ==
    /\ order[t] = "live"
    /\ \E o \in {"filled", "rejected"} : order' = [order EXCEPT ![t] = o]
    /\ UNCHANGED <<clock, standing, sends, store>>

\* Stop loss, take profit or the owner closes the position.
BrokerClose(t) ==
    /\ order[t] = "filled"
    /\ order' = [order EXCEPT ![t] = "closed"]
    /\ UNCHANGED <<clock, standing, sends, store>>

\* append_owner_confirmation: a fresh confirmation inside the ticket's window; they are numbered as
\* they are given.
OwnerConfirm(t, k) ==
    /\ ConfirmRequired
    /\ clock < ValidUntil
    /\ \A j \in 1..(k - 1) : confirmedAt[t][j] # NoTime
    /\ confirmedAt[t][k] = NoTime
    /\ confirmedAt' = [confirmedAt EXCEPT ![t] = [@ EXCEPT ![k] = clock]]
    /\ UNCHANGED <<lc, at, author, haltedFrom, result, claim, used, stop, world>>

\* emergency.clear: only the owner releases the latch.
OwnerClear ==
    /\ stop
    /\ stop' = FALSE
    /\ UNCHANGED <<lc, at, author, haltedFrom, result, claim, confirmedAt, used, world>>

\* The standing authorization is revoked, or its emergency_stop flag set.
OwnerRevoke ==
    /\ MayRevoke /\ standing
    /\ standing' = FALSE
    /\ UNCHANGED <<clock, order, sends, store>>

WorldNext ==
    \/ Tick
    \/ OwnerClear
    \/ OwnerRevoke
    \/ \E t \in Tickets : BrokerExecute(t) \/ BrokerClose(t)
    \/ \E t \in Tickets, k \in ConfirmIds : OwnerConfirm(t, k)
=============================================================================
