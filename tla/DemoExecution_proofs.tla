------------------------ MODULE DemoExecution_proofs ------------------------
(***************************************************************************)
(* Proofs about DEMO execution for every number of tickets, attempts,      *)
(* confirmations and crashes, every window and timeout, and every pattern  *)
(* of failing writes.                                                      *)
(***************************************************************************)
EXTENDS DemoExecution, TLAPS

-----------------------------------------------------------------------------
(* Type correctness *)

\* The states a row may have are states a trail may be in (lifecycle.py's two vocabularies).
LEMMA RowsAreTrailStates == RowStates \subseteq TrailStates
  BY DEF TrailStates

\* append keeps the trail well typed when the state is a row state and its time a clock reading.
LEMMA RecordedType ==
    ASSUME StoreTypeOK, NEW t \in Tickets, NEW s \in RowStates, NEW n \in Time, Recorded(t, s, n)
    PROVE  /\ lc' \in [Tickets -> TrailStates]
           /\ at' \in [Tickets -> [RowStates -> Time \cup {NoTime}]]
  <1>1. lc' \in [Tickets -> TrailStates]
    BY RowsAreTrailStates DEF Recorded, StoreTypeOK
  <1>2. at' \in [Tickets -> [RowStates -> Time \cup {NoTime}]]
    <2>1. at[t] \in [RowStates -> Time \cup {NoTime}]
      BY DEF StoreTypeOK
    <2>2. [at[t] EXCEPT ![s] = n] \in [RowStates -> Time \cup {NoTime}]
      BY <2>1
    <2>3. QED
      BY <2>2 DEF Recorded, StoreTypeOK
  <1>3. QED
    BY <1>1, <1>2

\* Whatever a ledger operation adds to the claim of a ticket is a claim row.
LEMMA ClaimTyped ==
    ASSUME StoreTypeOK, NEW t \in Tickets,
           Reserved(t) \/ UnknownRecorded(t) \/ ClaimReconciled(t) \/ UNCHANGED claim
    PROVE  claim' \in [Tickets -> SUBSET ClaimKinds]
  <1>1. CASE UNCHANGED claim
    BY <1>1 DEF StoreTypeOK
  <1>2. ASSUME NEW kind \in ClaimKinds, claim' = [claim EXCEPT ![t] = @ \cup {kind}]
        PROVE  claim' \in [Tickets -> SUBSET ClaimKinds]
    <2>1. claim[t] \cup {kind} \in SUBSET ClaimKinds
      BY DEF StoreTypeOK
    <2>2. QED
      BY <1>2, <2>1 DEF StoreTypeOK
  <1>3. \/ UNCHANGED claim
        \/ \E kind \in ClaimKinds : claim' = [claim EXCEPT ![t] = @ \cup {kind}]
    BY DEF Reserved, UnknownRecorded, ClaimReconciled, ClaimKinds
  <1>4. QED
    BY <1>1, <1>2, <1>3

\* The world's steps are well typed.
LEMMA WorldTyped == TypeOK /\ WorldNext => StoreTypeOK' /\ WorldTypeOK'
  <1> SUFFICES ASSUME TypeOK, WorldNext
               PROVE  StoreTypeOK' /\ WorldTypeOK'
    OBVIOUS
  <1> USE DEF TypeOK
  <1>1. CASE Tick
    BY <1>1, StoreAssumption DEF Tick, store, StoreTypeOK, WorldTypeOK, Time
  <1>2. CASE OwnerClear
    BY <1>2 DEF OwnerClear, world, StoreTypeOK, WorldTypeOK
  <1>3. CASE OwnerRevoke
    BY <1>3 DEF OwnerRevoke, store, StoreTypeOK, WorldTypeOK
  <1>4. ASSUME NEW t \in Tickets, BrokerExecute(t)
        PROVE  StoreTypeOK' /\ WorldTypeOK'
    BY <1>4 DEF BrokerExecute, store, StoreTypeOK, WorldTypeOK, OrderStates
  <1>5. ASSUME NEW t \in Tickets, BrokerClose(t)
        PROVE  StoreTypeOK' /\ WorldTypeOK'
    BY <1>5 DEF BrokerClose, store, StoreTypeOK, WorldTypeOK, OrderStates
  <1>6. ASSUME NEW t \in Tickets, NEW k \in ConfirmIds, OwnerConfirm(t, k)
        PROVE  StoreTypeOK' /\ WorldTypeOK'
    <2>1. confirmedAt[t] \in [ConfirmIds -> Time \cup {NoTime}]
      BY DEF StoreTypeOK
    <2>2. [confirmedAt[t] EXCEPT ![k] = clock] \in [ConfirmIds -> Time \cup {NoTime}]
      BY <2>1 DEF WorldTypeOK
    <2>3. confirmedAt' \in [Tickets -> [ConfirmIds -> Time \cup {NoTime}]]
      BY <2>2, <1>6 DEF OwnerConfirm, StoreTypeOK
    <2>4. QED
      BY <2>3, <1>6 DEF OwnerConfirm, world, StoreTypeOK, WorldTypeOK
  <1>7. QED
    BY <1>1, <1>2, <1>3, <1>4, <1>5, <1>6 DEF WorldNext

\* A guarded append keeps store and attempt well typed.
LEMMA GuardedAppendTyped ==
    ASSUME TypeOK, NEW a \in Attempts, NEW s \in RowStates,
           NEW label \in PCs, NEW otherwise \in PCs,
           GuardedAppend(a, s, label, otherwise)
    PROVE  /\ lc' \in [Tickets -> TrailStates]
           /\ at' \in [Tickets -> [RowStates -> Time \cup {NoTime}]]
           /\ author' \in [Tickets -> Attempts \cup {NoAttempt}]
           /\ pc' \in [Attempts -> PCs]
  <1> USE DEF TypeOK
  <1>1. tkt[a] \in Tickets /\ when[a] \in Time
    BY DEF DispatchTypeOK
  <1>2. CASE /\ Recorded(tkt[a], s, when[a]) /\ author' = [author EXCEPT ![tkt[a]] = a]
             /\ Goto(a, label) \/ Goto(a, otherwise)
    BY <1>1, <1>2, RecordedType DEF StoreTypeOK, DispatchTypeOK, Goto
  <1>3. CASE UNCHANGED <<lc, at, author>> /\ Goto(a, otherwise)
    BY <1>3 DEF StoreTypeOK, DispatchTypeOK, Goto
  <1>4. QED
    BY <1>2, <1>3 DEF GuardedAppend

\* The steps of an attempt are well typed.
LEMMA AttemptTyped ==
    ASSUME TypeOK, NEW a \in Attempts, Start(a) \/ AttemptStep(a)
    PROVE  StoreTypeOK' /\ WorldTypeOK' /\ DispatchTypeOK'
  <1> USE DEF TypeOK
  <1>t. tkt[a] \in Tickets /\ when[a] \in Time /\ clock \in Time
    BY DEF DispatchTypeOK, WorldTypeOK
  <1>1. CASE \/ Start(a) \/ AuthorizeCheck(a) \/ PreTradeCheck(a) \/ BrokerCheck(a) \/ OrderChecked(a)
             \/ AuthorizeSend(a) \/ SendPreTrade(a) \/ AdapterPreflight(a) \/ BrokerAck(a)
    <2>1. UNCHANGED <<tkt, cid, store, world>>
      BY <1>1 DEF Start, AuthorizeCheck, PreTradeCheck, BrokerCheck, OrderChecked,
                  AuthorizeSend, SendPreTrade, AdapterPreflight, BrokerAck, Local
    <2>2. \E label \in PCs : Goto(a, label)
      BY <1>1 DEF Start, AuthorizeCheck, PreTradeCheck, BrokerCheck, OrderChecked,
                  AuthorizeSend, SendPreTrade, AdapterPreflight, BrokerAck, PCs
    <2>3. UNCHANGED when \/ AtNow(a)
      BY <1>1 DEF Start, AuthorizeCheck, PreTradeCheck, BrokerCheck, OrderChecked,
                  AuthorizeSend, SendPreTrade, AdapterPreflight, BrokerAck
    <2>4. DispatchTypeOK'
      BY <2>1, <2>2, <2>3, <1>t DEF DispatchTypeOK, Goto, AtNow
    <2>5. QED
      BY <2>1, <2>4 DEF store, world, StoreTypeOK, WorldTypeOK
  <1>2. CASE Gates(a)
    <2>1. used' \in [Tickets -> SUBSET ConfirmIds]
      BY <1>2, <1>t DEF Gates, Consumed, Latest, Unconsumed, Eligible, StoreTypeOK
    <2>2. \E label \in PCs : Goto(a, label)
      BY <1>2 DEF Gates, PCs
    <2>3. DispatchTypeOK'
      BY <1>2, <2>2 DEF Gates, DispatchTypeOK, Goto
    <2>4. QED
      BY <1>2, <2>1, <2>3 DEF Gates, world, StoreTypeOK, WorldTypeOK
  <1>3. CASE AppendAuthorized(a)
    BY <1>3, GuardedAppendTyped
    DEF AppendAuthorized, RowStates, LIFECYCLE_STATES, PCs, world, StoreTypeOK, WorldTypeOK, DispatchTypeOK
  <1>4. CASE AppendChecked(a)
    BY <1>4, GuardedAppendTyped
    DEF AppendChecked, RowStates, LIFECYCLE_STATES, PCs, world, StoreTypeOK, WorldTypeOK, DispatchTypeOK
  <1>5. CASE AppendSent(a)
    BY <1>5, GuardedAppendTyped
    DEF AppendSent, RowStates, LIFECYCLE_STATES, PCs, world, StoreTypeOK, WorldTypeOK, DispatchTypeOK
  <1>6. CASE AppendAck(a)
    BY <1>6, GuardedAppendTyped
    DEF AppendAck, RowStates, LIFECYCLE_STATES, PCs, world, StoreTypeOK, WorldTypeOK, DispatchTypeOK
  <1>7. CASE Reserve(a)
    <2>1. claim' \in [Tickets -> SUBSET ClaimKinds]
      BY <1>7, <1>t, ClaimTyped DEF Reserve
    <2>2. \E label \in PCs : Goto(a, label)
      BY <1>7 DEF Reserve, PCs
    <2>3. QED
      BY <1>7, <2>1, <2>2 DEF Reserve, Goto, world, StoreTypeOK, WorldTypeOK, DispatchTypeOK
  <1>8. CASE OrderSend(a)
    <2>1. \E label \in PCs : Goto(a, label)
      BY <1>8 DEF OrderSend, Answers, PCs
    <2>2. order' \in [Tickets -> OrderStates] /\ sends' \in [Tickets -> Nat]
      BY <1>8, <1>t DEF OrderSend, OrderStates, WorldTypeOK
    <2>3. QED
      BY <1>8, <2>1, <2>2 DEF OrderSend, Goto, store, StoreTypeOK, WorldTypeOK, DispatchTypeOK
  <1>9. CASE Halt(a)
    <2>1. when' \in [Attempts -> Time]
      BY <1>9, <1>t DEF Halt, AtNow, DispatchTypeOK
    <2>2. \E label \in PCs : Goto(a, label)
      BY <1>9 DEF Halt, PCs
    <2>3. /\ lc' \in [Tickets -> TrailStates]
          /\ at' \in [Tickets -> [RowStates -> Time \cup {NoTime}]]
          /\ haltedFrom' \in [Tickets -> TrailStates]
      <3>1. CASE HaltRecorded(tkt[a], when'[a], lc[tkt[a]])
        <4>1. Recorded(tkt[a], "HALT", when'[a]) /\ when'[a] \in Time /\ "HALT" \in RowStates
          BY <3>1, <2>1 DEF HaltRecorded, RowStates
        <4>2. QED
          BY <3>1, <4>1, <1>t, RecordedType DEF HaltRecorded, StoreTypeOK
      <3>2. CASE UNCHANGED <<lc, at, haltedFrom>>
        BY <3>2 DEF StoreTypeOK
      <3>3. QED
        BY <1>9, <3>1, <3>2 DEF Halt, HaltNotRecorded
    <2>4. QED
      BY <1>9, <2>1, <2>2, <2>3 DEF Halt, Goto, world, StoreTypeOK, WorldTypeOK, DispatchTypeOK
  <1>10. CASE MarkUnknown(a)
    <2>1. claim' \in [Tickets -> SUBSET ClaimKinds]
      BY <1>10, <1>t, ClaimTyped DEF MarkUnknown
    <2>2. \E label \in PCs : Goto(a, label)
      BY <1>10 DEF MarkUnknown, PCs
    <2>3. QED
      BY <1>10, <2>1, <2>2 DEF MarkUnknown, Goto, world, StoreTypeOK, WorldTypeOK, DispatchTypeOK
  <1>11. QED
    BY <1>1, <1>2, <1>3, <1>4, <1>5, <1>6, <1>7, <1>8, <1>9, <1>10 DEF AttemptStep

\* The host's post-trade steps are well typed.
LEMMA HostTyped ==
    ASSUME TypeOK, NEW t \in Tickets, HostStep(t)
    PROVE  StoreTypeOK' /\ WorldTypeOK' /\ DispatchTypeOK'
  <1> USE DEF TypeOK
  <1>t. clock \in Time /\ {"POSITION_TRACKED", "CLOSED", "RECONCILED"} \subseteq RowStates
    BY DEF WorldTypeOK, RowStates, LIFECYCLE_STATES
  <1>1. CASE PositionTracked(t)
    BY <1>1, <1>t, RecordedType
    DEF PositionTracked, world, dispatch, StoreTypeOK, WorldTypeOK, DispatchTypeOK
  <1>2. CASE PositionClosed(t)
    BY <1>2, <1>t, RecordedType
    DEF PositionClosed, world, dispatch, StoreTypeOK, WorldTypeOK, DispatchTypeOK
  <1>3. CASE HostReconcile(t)
    <2>1. claim' \in [Tickets -> SUBSET ClaimKinds]
      BY <1>3, ClaimTyped DEF HostReconcile
    <2>2. result' \in [Tickets -> Results]
      BY <1>3 DEF HostReconcile, ReconcileRecorded, StoreTypeOK, Results
    <2>3. /\ lc' \in [Tickets -> TrailStates]
          /\ at' \in [Tickets -> [RowStates -> Time \cup {NoTime}]]
      <3>1. Recorded(t, "RECONCILED", clock)
        BY <1>3 DEF HostReconcile, ReconcileRecorded
      <3>2. QED
        BY <3>1, <1>t, RecordedType
    <2>4. QED
      BY <1>3, <2>1, <2>2, <2>3
      DEF HostReconcile, world, dispatch, StoreTypeOK, WorldTypeOK, DispatchTypeOK
  <1>4. QED
    BY <1>1, <1>2, <1>3 DEF HostStep

\* A HALT row, or none, keeps the trail well typed.
LEMMA HaltTyped ==
    ASSUME StoreTypeOK, NEW t \in Tickets, NEW n \in Time, NEW from \in TrailStates,
           HaltRecorded(t, n, from) \/ UNCHANGED <<lc, at, haltedFrom>>
    PROVE  /\ lc' \in [Tickets -> TrailStates]
           /\ at' \in [Tickets -> [RowStates -> Time \cup {NoTime}]]
           /\ haltedFrom' \in [Tickets -> TrailStates]
  <1>1. CASE HaltRecorded(t, n, from)
    <2>1. Recorded(t, "HALT", n) /\ "HALT" \in RowStates
      BY <1>1 DEF HaltRecorded, RowStates
    <2>2. QED
      BY <1>1, <2>1, RecordedType DEF HaltRecorded, StoreTypeOK
  <1>2. CASE UNCHANGED <<lc, at, haltedFrom>>
    BY <1>2 DEF StoreTypeOK
  <1>3. QED
    BY <1>1, <1>2

\* The steps of a monitor cycle are well typed.
LEMMA MonitorTyped == TypeOK /\ MonitorStep => StoreTypeOK' /\ WorldTypeOK' /\ MonitorTypeOK'
  <1> SUFFICES ASSUME TypeOK, MonitorStep
               PROVE  StoreTypeOK' /\ WorldTypeOK' /\ MonitorTypeOK'
    OBVIOUS
  <1> USE DEF TypeOK
  <1>t. mnow \in Time /\ clock \in Time /\ 0 \in Time
    BY StoreAssumption DEF WorldTypeOK, MonitorTypeOK, Time
  <1>1. CASE CycleStart
    BY <1>1, <1>t DEF CycleStart, store, world, StoreTypeOK, WorldTypeOK, MonitorTypeOK
  <1>2. CASE CyclePositions
    BY <1>2, <1>t DEF CyclePositions, OpenPositions, NoReading, TrailStates, store, world,
                      StoreTypeOK, WorldTypeOK, MonitorTypeOK
  <1>3. CASE CycleHistory
    BY <1>3, <1>t DEF CycleHistory, NoReading, TrailStates, store, world,
                      StoreTypeOK, WorldTypeOK, MonitorTypeOK
  <1>4. CASE CycleMark
    <2>1. claim' \in [Tickets -> SUBSET ClaimKinds]
      BY <1>4, ClaimTyped DEF CycleMark, MonitorTypeOK
    <2>2. QED
      BY <1>4, <2>1 DEF CycleMark, reading, world, StoreTypeOK, WorldTypeOK, MonitorTypeOK
  <1>5. CASE CycleResolve
    <2>1. subject \in Tickets
      BY DEF MonitorTypeOK
    <2>2. /\ lc' \in [Tickets -> TrailStates]
          /\ at' \in [Tickets -> [RowStates -> Time \cup {NoTime}]]
          /\ result' \in [Tickets -> Results]
      <3>1. CASE UNCHANGED <<lc, at, result>>
        BY <3>1 DEF StoreTypeOK
      <3>2. ASSUME NEW res \in Results, NEW orderId, ReconcileRecorded(subject, mnow, res, orderId)
            PROVE  /\ lc' \in [Tickets -> TrailStates]
                   /\ at' \in [Tickets -> [RowStates -> Time \cup {NoTime}]]
                   /\ result' \in [Tickets -> Results]
        <4>1. Recorded(subject, "RECONCILED", mnow) /\ "RECONCILED" \in RowStates
          BY <3>2 DEF ReconcileRecorded, RowStates, LIFECYCLE_STATES
        <4>2. QED
          BY <3>2, <4>1, <2>1, <1>t, RecordedType DEF ReconcileRecorded, StoreTypeOK
      <3>3. Resolution(subject) # "UNKNOWN" => Resolution(subject) \in Results
        BY DEF Resolution, Results
      <3>4. QED
        BY <1>5, <3>1, <3>2, <3>3 DEF CycleResolve, ReconcileNotRecorded
    <2>3. problem' \in BOOLEAN
      BY <1>5 DEF CycleResolve, MonitorTypeOK
    <2>4. QED
      BY <1>5, <2>2, <2>3 DEF CycleResolve, reading, world, StoreTypeOK, WorldTypeOK, MonitorTypeOK
  <1>6. CASE CycleEnd
    BY <1>6, <1>t DEF CycleEnd, NoReading, TrailStates, world, StoreTypeOK, WorldTypeOK, MonitorTypeOK
  <1>7. ASSUME NEW t \in Tickets, CycleTracked(t)
        PROVE  StoreTypeOK' /\ WorldTypeOK' /\ MonitorTypeOK'
    BY <1>7 DEF CycleTracked, TrackVerdicts, reading, store, world, StoreTypeOK, WorldTypeOK, MonitorTypeOK
  <1>8. ASSUME NEW t \in Tickets, CyclePending(t)
        PROVE  StoreTypeOK' /\ WorldTypeOK' /\ MonitorTypeOK'
    BY <1>8 DEF CyclePending, reading, store, world, StoreTypeOK, WorldTypeOK, MonitorTypeOK
  <1>9. ASSUME NEW t \in Tickets, CycleHalt(t)
        PROVE  StoreTypeOK' /\ WorldTypeOK' /\ MonitorTypeOK'
    <2>1. HaltRecorded(t, mnow, "SENT") \/ UNCHANGED <<lc, at, haltedFrom>>
      BY <1>9 DEF CycleHalt, HaltNotRecorded
    <2>2. "SENT" \in TrailStates
      BY DEF TrailStates, RowStates, LIFECYCLE_STATES
    <2>3. /\ lc' \in [Tickets -> TrailStates]
          /\ at' \in [Tickets -> [RowStates -> Time \cup {NoTime}]]
          /\ haltedFrom' \in [Tickets -> TrailStates]
      BY <2>1, <2>2, <1>t, HaltTyped
    <2>4. sending' \in {"none", "SENDING", "UNCERTAIN"}
      BY <1>9 DEF CycleHalt, ClaimSeen
    <2>5. QED
      BY <1>9, <2>3, <2>4 DEF CycleHalt, reading, world, StoreTypeOK, WorldTypeOK, MonitorTypeOK
  <1>10. QED
    BY <1>1, <1>2, <1>3, <1>4, <1>5, <1>6, <1>7, <1>8, <1>9 DEF MonitorStep

\* Restart recovery is well typed.
LEMMA RecoveryTyped == TypeOK /\ RecoveryStep => StoreTypeOK' /\ WorldTypeOK' /\ MonitorTypeOK'
  <1> SUFFICES ASSUME TypeOK, RecoveryStep
               PROVE  StoreTypeOK' /\ WorldTypeOK' /\ MonitorTypeOK'
    OBVIOUS
  <1> USE DEF TypeOK
  <1>1. CASE RecoveryDone
    BY <1>1 DEF RecoveryDone, reading, store, world, StoreTypeOK, WorldTypeOK, MonitorTypeOK
  <1>2. ASSUME NEW t \in Tickets, Recover(t)
        PROVE  StoreTypeOK' /\ WorldTypeOK' /\ MonitorTypeOK'
    <2>1. HaltRecorded(t, clock, lc[t]) \/ UNCHANGED <<lc, at, haltedFrom>>
      BY <1>2 DEF Recover, HaltNotRecorded
    <2>2. /\ lc' \in [Tickets -> TrailStates]
          /\ at' \in [Tickets -> [RowStates -> Time \cup {NoTime}]]
          /\ haltedFrom' \in [Tickets -> TrailStates]
      BY <2>1, HaltTyped DEF StoreTypeOK, WorldTypeOK
    <2>3. claim' \in [Tickets -> SUBSET ClaimKinds]
      BY <1>2, ClaimTyped DEF Recover
    <2>4. QED
      BY <1>2, <2>2, <2>3 DEF Recover, reading, world, StoreTypeOK, WorldTypeOK, MonitorTypeOK
  <1>3. QED
    BY <1>1, <1>2 DEF RecoveryStep

\* Every step of the system is well typed.
LEMMA NextTyped == TypeOK /\ [Next]_vars => TypeOK'
  <1> SUFFICES ASSUME TypeOK, [Next]_vars
               PROVE  TypeOK'
    OBVIOUS
  <1>1. CASE WorldNext /\ UNCHANGED <<dispatch, monitor, crashes>>
    BY <1>1, WorldTyped DEF TypeOK, dispatch, monitor, reading, DispatchTypeOK, MonitorTypeOK
  <1>2. ASSUME NEW a \in Attempts, Start(a) \/ AttemptStep(a), UNCHANGED <<monitor, crashes>>
        PROVE  TypeOK'
    BY <1>2, AttemptTyped DEF TypeOK, monitor, reading, MonitorTypeOK
  <1>3. ASSUME NEW t \in Tickets, HostStep(t), UNCHANGED <<monitor, crashes>>
        PROVE  TypeOK'
    BY <1>3, HostTyped DEF TypeOK, monitor, reading, MonitorTypeOK
  <1>4. CASE (MonitorStep \/ RecoveryStep) /\ UNCHANGED <<dispatch, crashes>>
    BY <1>4, MonitorTyped, RecoveryTyped DEF TypeOK, dispatch, DispatchTypeOK
  <1>5. CASE Crash
    <2>1. StoreTypeOK' /\ WorldTypeOK'
      BY <1>5 DEF Crash, TypeOK, store, world, StoreTypeOK, WorldTypeOK
    <2>2. DispatchTypeOK'
      BY <1>5 DEF Crash, TypeOK, DispatchTypeOK, PCs
    <2>3. MonitorTypeOK'
      <3>1. mnow' \in Time /\ seen' \in [Tickets -> TrailStates]
        BY <1>5, StoreAssumption DEF Crash, MonitorCrash, NoReading, TrailStates, Time
      <3>2. QED
        BY <1>5, <3>1 DEF Crash, MonitorCrash, NoReading, TypeOK, MonitorTypeOK
    <2>4. crashes' \in 0..MaxCrashes
      BY <1>5, CrashAssumption DEF Crash, TypeOK
    <2>5. QED
      BY <2>1, <2>2, <2>3, <2>4 DEF TypeOK
  <1>6. CASE UNCHANGED vars
    BY <1>6 DEF vars, store, world, dispatch, monitor, reading, TypeOK,
                StoreTypeOK, WorldTypeOK, DispatchTypeOK, MonitorTypeOK
  <1>7. QED
    BY <1>1, <1>2, <1>3, <1>4, <1>5, <1>6 DEF Next

\* The initial state is well typed.
LEMMA InitTyped == Init => TypeOK
  <1> SUFFICES ASSUME Init PROVE TypeOK
    OBVIOUS
  <1> USE DEF Init
  <1>1. 0 \in Time /\ "NONE" \in TrailStates
    BY StoreAssumption DEF Time, TrailStates
  <1>2. StoreTypeOK
    BY <1>1 DEF StoreInit, StoreTypeOK, Results
  <1>3. WorldTypeOK
    BY <1>1 DEF WorldInit, WorldTypeOK, OrderStates
  <1>4. DispatchTypeOK
    BY <1>1 DEF DispatchInit, DispatchTypeOK, PCs
  <1>5. MonitorTypeOK
    BY <1>1 DEF MonitorInit, MonitorTypeOK
  <1>6. QED
    BY <1>2, <1>3, <1>4, <1>5, CrashAssumption DEF TypeOK

\* Type correctness of the whole system: store, broker, attempts, monitor and recovery.
THEOREM TypeCorrect == Spec => []TypeOK
  BY InitTyped, NextTyped, PTL DEF Spec

-----------------------------------------------------------------------------
(* The inductive invariant *)

\* The table of legal successors, row by row (ALLOWED_NEXT in lifecycle.py).
LEMMA Successors ==
    /\ ALLOWED_NEXT["NONE"] = {"AUTHORIZED"}
    /\ ALLOWED_NEXT["AUTHORIZED"] = {"CHECKED", "HALT"}
    /\ ALLOWED_NEXT["CHECKED"] = {"SENT", "HALT"}
    /\ ALLOWED_NEXT["SENT"] = {"BROKER_ACK", "HALT"}
    /\ ALLOWED_NEXT["BROKER_ACK"] = {"POSITION_TRACKED", "HALT"}
    /\ ALLOWED_NEXT["POSITION_TRACKED"] = {"CLOSED", "HALT"}
    /\ ALLOWED_NEXT["CLOSED"] = {"RECONCILED", "HALT"}
    /\ ALLOWED_NEXT["HALT"] = {"RECONCILED"}
    /\ ALLOWED_NEXT["RECONCILED"] = {}
  BY DEF ALLOWED_NEXT, TrailStates, RowStates, LIFECYCLE_STATES

\* The same table read backwards: where each row can follow from.
LEMMA Predecessors ==
    ASSUME NEW s \in TrailStates
    PROVE  /\ "AUTHORIZED" \in ALLOWED_NEXT[s] => s = "NONE"
           /\ "CHECKED" \in ALLOWED_NEXT[s] => s = "AUTHORIZED"
           /\ "SENT" \in ALLOWED_NEXT[s] => s = "CHECKED"
           /\ "BROKER_ACK" \in ALLOWED_NEXT[s] => s = "SENT"
           /\ "POSITION_TRACKED" \in ALLOWED_NEXT[s] => s = "BROKER_ACK"
           /\ "CLOSED" \in ALLOWED_NEXT[s] => s = "POSITION_TRACKED"
           /\ "RECONCILED" \in ALLOWED_NEXT[s] => s \in {"HALT", "CLOSED"}
           /\ "HALT" \in ALLOWED_NEXT[s] => s \notin {"NONE", "HALT", "RECONCILED"}
  <1>1. \/ s = "NONE" \/ s = "AUTHORIZED" \/ s = "CHECKED" \/ s = "SENT" \/ s = "BROKER_ACK"
        \/ s = "POSITION_TRACKED" \/ s = "CLOSED" \/ s = "HALT" \/ s = "RECONCILED"
    BY DEF TrailStates, RowStates, LIFECYCLE_STATES
  <1>2. QED
    BY <1>1, Successors

\* A row that append admits and writes: what it does to every trail.
LEMMA RowAdded ==
    ASSUME TypeOK, NEW t \in Tickets, NEW s \in RowStates, NEW n \in Time,
           CanAppend(t, s, n), Recorded(t, s, n)
    PROVE  /\ lc'[t] = s
           /\ HasRow(t, s)'
           /\ \A r \in RowStates : r # s => (HasRow(t, r)' <=> HasRow(t, r))
           /\ \A u \in Tickets : u # t => lc'[u] = lc[u] /\ at'[u] = at[u]
           /\ s \in ALLOWED_NEXT[lc[t]]
  <1>1. n # NoTime
    BY StoreAssumption DEF Time, NoTime
  <1>2. at[t] \in [RowStates -> Time \cup {NoTime}]
    BY DEF TypeOK, StoreTypeOK
  <1>3. /\ lc'[t] = s
        /\ \A u \in Tickets : u # t => lc'[u] = lc[u] /\ at'[u] = at[u]
        /\ at'[t] = [at[t] EXCEPT ![s] = n]
    BY DEF Recorded, TypeOK, StoreTypeOK
  <1>4. at'[t][s] = n /\ \A r \in RowStates : r # s => at'[t][r] = at[t][r]
    BY <1>2, <1>3
  <1>5. QED
    BY <1>1, <1>3, <1>4 DEF HasRow, CanAppend

\* The clock readings a row can carry.
Readings == {clock, mnow} \cup {when[a] : a \in Attempts}

\* Every step leaves the trails alone or adds one row to one of them.
Extends ==
    \/ UNCHANGED <<lc, at>>
    \/ \E t \in Tickets, s \in RowStates, n \in Time :
         n \in Readings /\ CanAppend(t, s, n) /\ Recorded(t, s, n)

\* What is durable stays: rows, claim rows, consumed confirmations; a started trail is never empty.
Grows ==
    /\ UNCHANGED <<tkt, cid>>
    /\ \A t \in Tickets :
         /\ claim[t] \subseteq claim'[t]
         /\ used[t] \subseteq used'[t]
         /\ HasRow(t, "SENT") => HasRow(t, "SENT")'
         /\ lc[t] # "NONE" => lc'[t] # "NONE"

\* A row added to some trail takes no row away and empties no trail (append is append-only).
LEMMA ExtendingGrows ==
    ASSUME TypeOK, Extends, NEW t \in Tickets
    PROVE  /\ HasRow(t, "SENT") => HasRow(t, "SENT")'
           /\ lc[t] # "NONE" => lc'[t] # "NONE"
  <1>1. CASE UNCHANGED <<lc, at>>
    BY <1>1 DEF HasRow
  <1>2. ASSUME NEW u \in Tickets, NEW s \in RowStates, NEW n \in Time,
               CanAppend(u, s, n), Recorded(u, s, n)
        PROVE  /\ HasRow(t, "SENT") => HasRow(t, "SENT")'
               /\ lc[t] # "NONE" => lc'[t] # "NONE"
    BY <1>2, RowAdded DEF HasRow, RowStates, LIFECYCLE_STATES
  <1>3. QED
    BY <1>1, <1>2 DEF Extends

\* No ledger operation removes a claim row.
LEMMA LedgerGrows ==
    ASSUME TypeOK, NEW t \in Tickets,
           Reserved(t) \/ UnknownRecorded(t) \/ ClaimReconciled(t) \/ UNCHANGED claim
    PROVE  \A u \in Tickets : claim[u] \subseteq claim'[u]
  <1>1. \/ UNCHANGED claim
        \/ \E kind \in ClaimKinds : claim' = [claim EXCEPT ![t] = claim[t] \cup {kind}]
    BY DEF Reserved, UnknownRecorded, ClaimReconciled, ClaimKinds
  <1>2. QED
    BY <1>1 DEF TypeOK, StoreTypeOK

\* The steps of an attempt only add to the store.
LEMMA AttemptGrows ==
    ASSUME TypeOK, NEW a \in Attempts, Start(a) \/ AttemptStep(a)
    PROVE  Extends /\ Grows
  <1>t. tkt[a] \in Tickets /\ when[a] \in Time /\ clock \in Time
    BY DEF TypeOK, DispatchTypeOK, WorldTypeOK
  <1>r. {"AUTHORIZED", "CHECKED", "SENT", "BROKER_ACK", "HALT"} \subseteq RowStates
    BY DEF RowStates, LIFECYCLE_STATES
  <1>1. CASE \/ Start(a) \/ AuthorizeCheck(a) \/ PreTradeCheck(a) \/ BrokerCheck(a) \/ OrderChecked(a)
             \/ AuthorizeSend(a) \/ SendPreTrade(a) \/ AdapterPreflight(a) \/ BrokerAck(a)
    <2>1. UNCHANGED <<tkt, cid, store>>
      BY <1>1 DEF Start, AuthorizeCheck, PreTradeCheck, BrokerCheck, OrderChecked,
                  AuthorizeSend, SendPreTrade, AdapterPreflight, BrokerAck, Local
    <2>2. QED
      BY <2>1 DEF store, Extends, Grows, HasRow
  <1>2. CASE Gates(a)
    <2>1. \A t \in Tickets : used[t] \subseteq used'[t]
      BY <1>2, <1>t DEF Gates, Consumed, TypeOK, StoreTypeOK
    <2>2. QED
      BY <1>2, <2>1 DEF Gates, Extends, Grows, HasRow
  <1>3. ASSUME NEW s \in RowStates, NEW label, NEW otherwise, GuardedAppend(a, s, label, otherwise)
        PROVE  Extends
    BY <1>3, <1>t DEF GuardedAppend, Extends, Readings
  <1>4. CASE AppendAuthorized(a) \/ AppendChecked(a) \/ AppendSent(a) \/ AppendAck(a)
    <2>1. Extends /\ UNCHANGED <<tkt, cid, claim, used>>
      BY <1>3, <1>4, <1>r DEF AppendAuthorized, AppendChecked, AppendSent, AppendAck
    <2>2. QED
      BY <2>1, ExtendingGrows DEF Grows
  <1>5. CASE Reserve(a) \/ MarkUnknown(a)
    <2>1. \A t \in Tickets : claim[t] \subseteq claim'[t]
      BY <1>5, <1>t, LedgerGrows DEF Reserve, MarkUnknown
    <2>2. UNCHANGED <<tkt, cid, lc, at, used>>
      BY <1>5 DEF Reserve, MarkUnknown
    <2>3. QED
      BY <2>1, <2>2 DEF Extends, Grows, HasRow
  <1>6. CASE OrderSend(a)
    BY <1>6 DEF OrderSend, store, Extends, Grows, HasRow
  <1>7. CASE Halt(a)
    <2>1. when'[a] \in Time /\ when'[a] \in Readings
      BY <1>7, <1>t DEF Halt, AtNow, TypeOK, DispatchTypeOK, Readings
    <2>2. Extends
      BY <1>7, <2>1, <1>t, <1>r DEF Halt, HaltRecorded, HaltNotRecorded, Extends
    <2>3. UNCHANGED <<tkt, cid, claim, used>>
      BY <1>7 DEF Halt
    <2>4. QED
      BY <2>2, <2>3, ExtendingGrows DEF Grows
  <1>8. QED
    BY <1>1, <1>2, <1>4, <1>5, <1>6, <1>7 DEF AttemptStep

\* The host, the monitor and recovery only add to the store, and touch no attempt.
LEMMA OthersGrow ==
    ASSUME TypeOK,
           \/ \E t \in Tickets : HostStep(t)
           \/ (MonitorStep \/ RecoveryStep) /\ UNCHANGED dispatch
    PROVE  Extends /\ Grows /\ UNCHANGED <<dispatch, author, world>>
  <1>t. clock \in Time /\ mnow \in Time /\ subject \in Tickets
    BY DEF TypeOK, WorldTypeOK, MonitorTypeOK
  <1>r. {"POSITION_TRACKED", "CLOSED", "RECONCILED", "HALT"} \subseteq RowStates
    BY DEF RowStates, LIFECYCLE_STATES
  <1>e. ASSUME Extends, UNCHANGED <<dispatch, author, world, used>>,
               \A t \in Tickets : claim[t] \subseteq claim'[t]
        PROVE  Extends /\ Grows /\ UNCHANGED <<dispatch, author, world>>
    BY <1>e, ExtendingGrows DEF Grows, dispatch
  <1>1. ASSUME NEW t \in Tickets, HostStep(t)
        PROVE  Extends /\ Grows /\ UNCHANGED <<dispatch, author, world>>
    <2>1. Extends
      BY <1>1, <1>t, <1>r DEF HostStep, PositionTracked, PositionClosed, HostReconcile,
                              ReconcileRecorded, CanReconcile, Extends, Readings
    <2>2. \A u \in Tickets : claim[u] \subseteq claim'[u]
      BY <1>1, LedgerGrows DEF HostStep, PositionTracked, PositionClosed, HostReconcile
    <2>3. QED
      BY <1>1, <1>e, <2>1, <2>2 DEF HostStep, PositionTracked, PositionClosed, HostReconcile
  <1>2. ASSUME MonitorStep, UNCHANGED dispatch
        PROVE  Extends /\ Grows /\ UNCHANGED <<dispatch, author, world>>
    <2>1. CASE \/ CycleStart \/ CyclePositions \/ CycleHistory \/ CycleEnd
               \/ \E t \in Tickets : CycleTracked(t) \/ CyclePending(t)
      <3>1. UNCHANGED <<lc, at, author, claim, used, world>>
        BY <2>1 DEF CycleStart, CyclePositions, CycleHistory, CycleEnd, CycleTracked, CyclePending, store
      <3>2. QED
        BY <1>2, <3>1, <1>e DEF Extends
    <2>2. CASE CycleMark
      <3>1. \A u \in Tickets : claim[u] \subseteq claim'[u]
        BY <2>2, <1>t, LedgerGrows DEF CycleMark
      <3>2. QED
        BY <1>2, <2>2, <3>1, <1>e DEF CycleMark, Extends
    <2>3. CASE CycleResolve
      <3>1. Extends
        BY <2>3, <1>t, <1>r
        DEF CycleResolve, ReconcileRecorded, ReconcileNotRecorded, CanReconcile, Extends, Readings
      <3>2. QED
        BY <1>2, <2>3, <3>1, <1>e DEF CycleResolve
    <2>4. ASSUME NEW t \in Tickets, CycleHalt(t)
          PROVE  Extends /\ Grows /\ UNCHANGED <<dispatch, author, world>>
      <3>1. Extends
        BY <2>4, <1>t, <1>r DEF CycleHalt, HaltRecorded, HaltNotRecorded, Extends, Readings
      <3>2. QED
        BY <1>2, <2>4, <3>1, <1>e DEF CycleHalt
    <2>5. QED
      BY <1>2, <2>1, <2>2, <2>3, <2>4 DEF MonitorStep
  <1>3. ASSUME RecoveryStep, UNCHANGED dispatch
        PROVE  Extends /\ Grows /\ UNCHANGED <<dispatch, author, world>>
    <2>1. CASE RecoveryDone
      BY <1>3, <2>1, <1>e DEF RecoveryDone, store, Extends
    <2>2. ASSUME NEW t \in Tickets, Recover(t)
          PROVE  Extends /\ Grows /\ UNCHANGED <<dispatch, author, world>>
      <3>1. Extends
        BY <2>2, <1>t, <1>r DEF Recover, HaltRecorded, HaltNotRecorded, Extends, Readings
      <3>2. \A u \in Tickets : claim[u] \subseteq claim'[u]
        BY <2>2, LedgerGrows DEF Recover
      <3>3. QED
        BY <1>3, <2>2, <3>1, <3>2, <1>e DEF Recover
    <2>3. QED
      BY <1>3, <2>1, <2>2 DEF RecoveryStep
  <1>4. QED
    BY <1>1, <1>2, <1>3

\* An attempt that does not move, or ends, stays backed while the store grows and its trail keeps
\* its author.
LEMMA BackedKept ==
    ASSUME TypeOK, AttemptInv, Grows, NEW b \in Attempts,
           pc'[b] = pc[b] \/ pc'[b] \in {"idle", "done"},
           lc[tkt[b]] # "NONE" => author'[tkt[b]] = author[tkt[b]]
    PROVE  Backed(b)'
  <1>1. tkt[b] \in Tickets /\ tkt'[b] = tkt[b] /\ cid'[b] = cid[b]
    BY DEF TypeOK, DispatchTypeOK, Grows
  <1>2. Backed(b)
    BY DEF AttemptInv
  <1>3. CASE pc'[b] = pc[b]
    BY <1>1, <1>2, <1>3 DEF Backed, Grows, HasRow, Owning, AfterClaim, AfterSentRow, PCs
  <1>4. CASE pc'[b] \in {"idle", "done"}
    BY <1>4 DEF Backed, Owning, AfterClaim, AfterSentRow, PCs
  <1>5. QED
    BY <1>3, <1>4

\* Only the trail's first row can change who its author is: every later row is written by the
\* attempt that wrote the first.
LEMMA AuthorKept ==
    ASSUME TypeOK, AttemptInv, NEW a \in Attempts, Start(a) \/ AttemptStep(a)
    PROVE  /\ \A t \in Tickets : lc[t] # "NONE" => author'[t] = author[t]
           /\ \A b \in Attempts : b # a => pc'[b] = pc[b]
  <1>t. tkt[a] \in Tickets
    BY DEF TypeOK, DispatchTypeOK
  <1>1. CASE AppendAuthorized(a)
    <2>1. CanAppend(tkt[a], "AUTHORIZED", when[a]) => lc[tkt[a]] = "NONE"
      BY <1>t, Predecessors DEF CanAppend, TypeOK, StoreTypeOK
    <2>2. QED
      BY <1>1, <1>t, <2>1 DEF AppendAuthorized, GuardedAppend, Goto, TypeOK, StoreTypeOK, DispatchTypeOK
  <1>2. CASE AppendChecked(a) \/ AppendSent(a) \/ AppendAck(a)
    <2>1. author[tkt[a]] = a
      BY <1>2 DEF AppendChecked, AppendSent, AppendAck, AttemptInv, Backed, Owning, PCs
    <2>2. QED
      BY <1>2, <1>t, <2>1
      DEF AppendChecked, AppendSent, AppendAck, GuardedAppend, Goto, TypeOK, StoreTypeOK, DispatchTypeOK
  <1>3. CASE ~(AppendAuthorized(a) \/ AppendChecked(a) \/ AppendSent(a) \/ AppendAck(a))
    <2>1. UNCHANGED author
      BY <1>3 DEF AttemptStep, Start, AuthorizeCheck, PreTradeCheck, Gates, BrokerCheck, OrderChecked,
                  AuthorizeSend, SendPreTrade, Reserve, AdapterPreflight, OrderSend, BrokerAck, Halt,
                  MarkUnknown, Local, store
    <2>2. \E label : Goto(a, label)
      <3>1. CASE \/ Start(a) \/ AuthorizeCheck(a) \/ PreTradeCheck(a) \/ BrokerCheck(a) \/ OrderChecked(a)
                 \/ AuthorizeSend(a) \/ SendPreTrade(a) \/ AdapterPreflight(a) \/ BrokerAck(a)
        BY <3>1 DEF Start, AuthorizeCheck, PreTradeCheck, BrokerCheck, OrderChecked,
                    AuthorizeSend, SendPreTrade, AdapterPreflight, BrokerAck
      <3>2. CASE Gates(a) \/ Reserve(a)
        BY <3>2 DEF Gates, Reserve
      <3>3. CASE OrderSend(a)
        BY <3>3 DEF OrderSend
      <3>4. CASE Halt(a) \/ MarkUnknown(a)
        BY <3>4 DEF Halt, MarkUnknown
      <3>5. QED
        BY <1>3, <3>1, <3>2, <3>3, <3>4 DEF AttemptStep
    <2>3. QED
      BY <2>1, <2>2 DEF Goto, TypeOK, DispatchTypeOK
  <1>4. QED
    BY <1>1, <1>2, <1>3

\* A step of attempt a leaves a itself backed: each durable fact is there before the position that
\* relies on it is reached.
LEMMA StepBacked ==
    ASSUME TypeOK, AttemptInv, NEW a \in Attempts, Start(a) \/ AttemptStep(a)
    PROVE  Backed(a)'
  <1>t. /\ tkt[a] \in Tickets /\ tkt'[a] = tkt[a] /\ cid'[a] = cid[a]
        /\ pc \in [Attempts -> PCs] /\ when[a] \in Time
        /\ lc \in [Tickets -> TrailStates] /\ claim \in [Tickets -> SUBSET ClaimKinds]
        /\ author \in [Tickets -> Attempts \cup {NoAttempt}]
    BY AttemptGrows DEF TypeOK, DispatchTypeOK, StoreTypeOK, Grows
  <1>b. Backed(a)
    BY DEF AttemptInv
  <1>g. Grows /\ (lc[tkt[a]] # "NONE" => author'[tkt[a]] = author[tkt[a]])
    BY <1>t, AttemptGrows, AuthorKept
  <1> USE DEF Backed
  <1>1. CASE Start(a) \/ AuthorizeCheck(a) \/ PreTradeCheck(a) \/ Gates(a)
    <2>1. pc'[a] \in {"check_identity", "check_pretrade", "gates", "gates_refused", "append_authorized", "done"}
      BY <1>1, <1>t DEF Start, AuthorizeCheck, PreTradeCheck, Gates, Goto
    <2>2. QED
      BY <2>1 DEF Owning, AfterClaim, AfterSentRow, PCs
  <1>2. CASE AppendAuthorized(a)
    <2>1. \/ pc'[a] = "done"
          \/ pc'[a] = "broker_check" /\ author'[tkt[a]] = a /\ lc'[tkt[a]] = "AUTHORIZED"
      BY <1>2, <1>t DEF AppendAuthorized, GuardedAppend, Recorded, Goto
    <2>2. QED
      BY <2>1, <1>t DEF Owning, AfterClaim, AfterSentRow, PCs
  <1>3. CASE BrokerCheck(a) \/ OrderChecked(a) \/ AppendChecked(a) \/ AuthorizeSend(a)
    <2>1. /\ pc[a] \in {"broker_check", "order_checked", "append_checked", "send_identity"}
          /\ pc'[a] \in {"order_checked", "append_checked", "send_identity", "send_pretrade", "done"}
      BY <1>3, <1>t DEF BrokerCheck, OrderChecked, AppendChecked, AuthorizeSend, GuardedAppend, Goto
    <2>2. author[tkt[a]] = a /\ lc[tkt[a]] # "NONE"
      BY <2>1, <1>b DEF Owning, PCs
    <2>3. author'[tkt[a]] = a /\ lc'[tkt[a]] # "NONE"
      BY <2>2, <1>g, <1>t DEF Grows
    <2>4. QED
      BY <2>1, <2>3, <1>t DEF AfterClaim, AfterSentRow
  <1>4. CASE SendPreTrade(a)
    <2>1. /\ pc[a] = "send_pretrade" /\ pc'[a] \in {"reserve", "done"}
          /\ pc'[a] = "reserve" /\ ConfirmRequired => cid[a] \in used[tkt[a]]
      BY <1>4, <1>t DEF SendPreTrade, ConfirmationValid, Goto
    <2>2. author[tkt[a]] = a /\ lc[tkt[a]] # "NONE"
      BY <2>1, <1>b DEF Owning, PCs
    <2>3. author'[tkt[a]] = a /\ lc'[tkt[a]] # "NONE" /\ used[tkt[a]] \subseteq used'[tkt[a]]
      BY <2>2, <1>g, <1>t DEF Grows
    <2>4. QED
      BY <2>1, <2>3, <1>t DEF AfterClaim, AfterSentRow
  <1>5. CASE Reserve(a)
    <2>1. /\ pc[a] = "reserve" /\ pc'[a] \in {"append_sent", "done"}
          /\ pc'[a] = "append_sent" => "SENDING" \in claim'[tkt[a]]
      BY <1>5, <1>t DEF Reserve, Reserved, Goto
    <2>2. author[tkt[a]] = a /\ lc[tkt[a]] # "NONE" /\ (ConfirmRequired => cid[a] \in used[tkt[a]])
      BY <2>1, <1>b DEF Owning, PCs
    <2>3. author'[tkt[a]] = a /\ lc'[tkt[a]] # "NONE" /\ used[tkt[a]] \subseteq used'[tkt[a]]
      BY <2>2, <1>g, <1>t DEF Grows
    <2>4. QED
      BY <2>1, <2>2, <2>3, <1>t DEF AfterClaim, AfterSentRow
  <1>6. CASE AppendSent(a)
    <2>1. pc[a] = "append_sent" /\ pc'[a] \in {"adapter", "done"}
      BY <1>6, <1>t DEF AppendSent, GuardedAppend, Goto
    <2>2. pc'[a] = "adapter" => HasRow(tkt[a], "SENT")'
      <3>1. "SENT" \in RowStates
        BY DEF RowStates, LIFECYCLE_STATES
      <3>2. pc'[a] = "adapter" => CanAppend(tkt[a], "SENT", when[a]) /\ Recorded(tkt[a], "SENT", when[a])
        BY <1>6, <1>t DEF AppendSent, GuardedAppend, Goto
      <3>3. QED
        BY <3>1, <3>2, <1>t, RowAdded
    <2>3. /\ author[tkt[a]] = a /\ lc[tkt[a]] # "NONE" /\ "SENDING" \in claim[tkt[a]]
          /\ ConfirmRequired => cid[a] \in used[tkt[a]]
      BY <2>1, <1>b DEF Owning, AfterClaim, PCs
    <2>4. /\ author'[tkt[a]] = a /\ lc'[tkt[a]] # "NONE" /\ used[tkt[a]] \subseteq used'[tkt[a]]
          /\ "SENDING" \in claim'[tkt[a]]
      BY <2>3, <1>g, <1>t DEF Grows
    <2>5. QED
      BY <2>1, <2>2, <2>3, <2>4, <1>t DEF AfterClaim, AfterSentRow
  <1>7. CASE \/ AdapterPreflight(a) \/ OrderSend(a) \/ BrokerAck(a) \/ AppendAck(a) \/ Halt(a)
             \/ MarkUnknown(a)
    <2>1. pc[a] \in {"adapter", "order_send", "ack", "ack_bad", "append_ack", "halt", "halt_in_ack",
                    "mark", "mark_in_ack"}
      BY <1>7 DEF AdapterPreflight, OrderSend, BrokerAck, AppendAck, Halt, MarkUnknown
    <2>2. /\ author[tkt[a]] = a /\ lc[tkt[a]] # "NONE" /\ "SENDING" \in claim[tkt[a]]
          /\ HasRow(tkt[a], "SENT")
          /\ ConfirmRequired => cid[a] \in used[tkt[a]]
      BY <2>1, <1>b DEF Owning, AfterClaim, AfterSentRow, PCs
    <2>3. /\ author'[tkt[a]] = a /\ lc'[tkt[a]] # "NONE" /\ "SENDING" \in claim'[tkt[a]]
          /\ HasRow(tkt[a], "SENT")'
          /\ ConfirmRequired => cid[a] \in used'[tkt[a]]
      BY <2>2, <1>g, <1>t DEF Grows
    <2>4. QED
      BY <2>3, <1>t DEF HasRow
  <1>8. QED
    BY <1>1, <1>2, <1>3, <1>4, <1>5, <1>6, <1>7 DEF AttemptStep

\* Every step of the system keeps every attempt backed.
LEMMA AttemptInvKept ==
    ASSUME TypeOK, AttemptInv, Next
    PROVE  AttemptInv'
  <1>1. CASE WorldNext /\ UNCHANGED <<dispatch, monitor, crashes>>
    <2>1. UNCHANGED <<pc, tkt, cid, lc, at, author, claim, used>>
      BY <1>1 DEF WorldNext, Tick, OwnerClear, OwnerRevoke, BrokerExecute, BrokerClose, OwnerConfirm,
                  store, dispatch
    <2>2. QED
      BY <2>1 DEF AttemptInv, Backed, HasRow
  <1>2. ASSUME NEW a \in Attempts, Start(a) \/ AttemptStep(a)
        PROVE  AttemptInv'
    <2>1. ASSUME NEW b \in Attempts, b # a
          PROVE  Backed(b)'
      <3>1. tkt[b] \in Tickets
        BY DEF TypeOK, DispatchTypeOK
      <3>2. QED
        BY <1>2, <2>1, <3>1, AttemptGrows, AuthorKept, BackedKept
    <2>2. Backed(a)'
      BY <1>2, StepBacked
    <2>3. QED
      BY <2>1, <2>2 DEF AttemptInv
  <1>3. CASE \/ \E t \in Tickets : HostStep(t)
             \/ (MonitorStep \/ RecoveryStep) /\ UNCHANGED dispatch
    <2>1. Grows /\ UNCHANGED <<pc, author>>
      BY <1>3, OthersGrow DEF dispatch
    <2>2. QED
      BY <2>1, BackedKept DEF AttemptInv
  <1>4. CASE Crash
    <2>1. Grows /\ UNCHANGED author /\ \A b \in Attempts : pc'[b] \in {"idle", "done"}
      BY <1>4 DEF Crash, Grows, store, HasRow
    <2>2. QED
      BY <2>1, BackedKept DEF AttemptInv
  <1>5. QED
    BY <1>1, <1>2, <1>3, <1>4 DEF Next

\* What is known of a sent ticket stays known while the store grows, its trail keeps its author and
\* the author does not go back before the send.
LEMMA SendKept ==
    ASSUME TypeOK, SendInv, Grows, UNCHANGED sends,
           \A t \in Tickets : order[t] = "none" => order'[t] = "none",
           \A t \in Tickets : sends[t] = 1 => author'[t] = author[t] /\ pc'[author[t]] \notin Unsent
    PROVE  SendInv'
  <1> SUFFICES ASSUME NEW t \in Tickets
               PROVE  /\ sends'[t] \in {0, 1}
                      /\ sends'[t] = 0 => order'[t] = "none"
                      /\ sends'[t] = 1 =>
                           /\ "SENDING" \in claim'[t]
                           /\ HasRow(t, "SENT")'
                           /\ author'[t] \in Attempts
                           /\ pc'[author'[t]] \notin Unsent
                           /\ ConfirmRequired => cid'[author'[t]] \in used'[t]
    BY DEF SendInv
  <1>1. sends[t] = 1 => /\ "SENDING" \in claim[t] /\ HasRow(t, "SENT") /\ author[t] \in Attempts
                        /\ ConfirmRequired => cid[author[t]] \in used[t]
    BY DEF SendInv
  <1>2. QED
    BY <1>1 DEF SendInv, Grows

\* A ticket that was sent has a started trail: its SENT row is there.
LEMMA SentIsStarted ==
    ASSUME SendInv, TrailInv, NEW t \in Tickets, sends[t] = 1
    PROVE  lc[t] # "NONE"
  BY DEF SendInv, TrailInv

\* A step of an attempt keeps what is known of sent tickets; the call of order_send itself is
\* made by the one attempt that owns the trail and has not sent yet.
LEMMA AttemptKeepsSend ==
    ASSUME TypeOK, AttemptInv, SendInv, TrailInv, NEW a \in Attempts, Start(a) \/ AttemptStep(a)
    PROVE  SendInv'
  <1>t. tkt[a] \in Tickets /\ pc \in [Attempts -> PCs]
    BY DEF TypeOK, DispatchTypeOK
  <1>g. /\ Grows
        /\ \A t \in Tickets : lc[t] # "NONE" => author'[t] = author[t]
        /\ \A b \in Attempts : b # a => pc'[b] = pc[b]
    BY AttemptGrows, AuthorKept
  <1>1. CASE OrderSend(a)
    <2>1. pc[a] = "order_send"
      BY <1>1 DEF OrderSend
    <2>2. /\ author[tkt[a]] = a /\ "SENDING" \in claim[tkt[a]] /\ HasRow(tkt[a], "SENT")
          /\ ConfirmRequired => cid[a] \in used[tkt[a]]
      BY <2>1 DEF AttemptInv, Backed, Owning, AfterClaim, AfterSentRow, PCs
    <2>3. sends[tkt[a]] = 0
      BY <2>1, <2>2, <1>t DEF SendInv, Unsent
    <2>4. /\ UNCHANGED <<tkt, cid, author, claim, at, used>>
          /\ sends'[tkt[a]] = 1
          /\ \A u \in Tickets : u # tkt[a] => sends'[u] = sends[u] /\ order'[u] = order[u]
      BY <1>1, <1>t, <2>3 DEF OrderSend, store, TypeOK, WorldTypeOK
    <2>5. pc'[a] \in {"ack", "ack_bad", "halt"}
      BY <1>1, <1>t DEF OrderSend, Answers, Goto
    <2>6. ASSUME NEW u \in Tickets, u # tkt[a], sends[u] = 1
          PROVE  pc'[author[u]] \notin Unsent
      BY <1>g, <2>5, <2>6 DEF SendInv, Unsent
    <2>7. QED
      BY <2>2, <2>4, <2>5, <2>6, <1>t DEF SendInv, HasRow, Unsent
  <1>2. CASE ~OrderSend(a)
    <2>1. UNCHANGED <<sends, order>>
      BY <1>2 DEF AttemptStep, Start, AuthorizeCheck, PreTradeCheck, Gates, AppendAuthorized, BrokerCheck,
                  OrderChecked, AppendChecked, AuthorizeSend, SendPreTrade, Reserve, AppendSent,
                  AdapterPreflight, BrokerAck, AppendAck, Halt, MarkUnknown, Local, world
    <2>2. ASSUME NEW t \in Tickets, sends[t] = 1
          PROVE  pc'[author[t]] \notin Unsent
      <3>1. author[t] \in Attempts /\ pc[author[t]] \notin Unsent /\ lc[t] # "NONE"
        BY <2>2, SentIsStarted DEF SendInv
      <3>2. CASE author[t] # a
        BY <3>1, <3>2, <1>g
      <3>3. CASE author[t] = a
        <4>1. tkt[a] = t
          BY <3>1, <3>3, StoreAssumption DEF TrailInv
        <4>2. CASE AppendAuthorized(a)
          <5>1. ~CanAppend(tkt[a], "AUTHORIZED", when[a])
            BY <3>1, <4>1, Predecessors DEF CanAppend, TypeOK, StoreTypeOK
          <5>2. pc'[a] = "done"
            BY <4>2, <5>1, <1>t DEF AppendAuthorized, GuardedAppend, Goto
          <5>3. QED
            BY <3>3, <5>2 DEF Unsent
        <4>3. CASE Start(a) \/ AuthorizeCheck(a) \/ PreTradeCheck(a) \/ Gates(a)
          BY <4>3, <3>3, <1>t DEF Start, AuthorizeCheck, PreTradeCheck, Gates, Goto, Unsent
        <4>4. CASE \/ BrokerCheck(a) \/ OrderChecked(a) \/ AppendChecked(a) \/ AuthorizeSend(a)
                   \/ SendPreTrade(a) \/ Reserve(a) \/ AppendSent(a) \/ AdapterPreflight(a)
          <5>1. pc[a] \in Unsent
            BY <4>4 DEF BrokerCheck, OrderChecked, AppendChecked, AuthorizeSend, SendPreTrade, Reserve,
                        AppendSent, AdapterPreflight, Unsent
          <5>2. QED
            BY <3>1, <3>3, <5>1
        <4>5. CASE BrokerAck(a) \/ AppendAck(a) \/ Halt(a) \/ MarkUnknown(a)
          <5>1. pc'[a] \in {"done", "halt", "halt_in_ack", "append_ack", "mark", "mark_in_ack"}
            BY <4>5, <1>t DEF BrokerAck, AppendAck, Halt, MarkUnknown, GuardedAppend, Goto
          <5>2. QED
            BY <3>3, <5>1 DEF Unsent
        <4>6. QED
          BY <1>2, <4>2, <4>3, <4>4, <4>5 DEF AttemptStep
      <3>4. QED
        BY <3>2, <3>3
    <2>3. QED
      BY <2>1, <2>2, <1>g, SentIsStarted, SendKept
  <1>3. QED
    BY <1>1, <1>2

\* Every step of the system keeps what is known of sent tickets.
LEMMA SendInvKept ==
    ASSUME TypeOK, AttemptInv, SendInv, TrailInv, Next
    PROVE  SendInv'
  <1>1. CASE WorldNext /\ UNCHANGED <<dispatch, monitor, crashes>>
    <2>1. UNCHANGED <<pc, tkt, cid, lc, at, author, claim, used, sends>>
      BY <1>1 DEF WorldNext, Tick, OwnerClear, OwnerRevoke, BrokerExecute, BrokerClose, OwnerConfirm,
                  store, dispatch, world
    <2>2. \A t \in Tickets : order[t] = "none" => order'[t] = "none"
      BY <1>1 DEF WorldNext, Tick, OwnerClear, OwnerRevoke, BrokerExecute, BrokerClose, OwnerConfirm,
                  world, TypeOK, WorldTypeOK
    <2>3. QED
      BY <2>1, <2>2 DEF SendInv, HasRow
  <1>2. ASSUME NEW a \in Attempts, Start(a) \/ AttemptStep(a)
        PROVE  SendInv'
    BY <1>2, AttemptKeepsSend
  <1>3. CASE \/ \E t \in Tickets : HostStep(t)
             \/ (MonitorStep \/ RecoveryStep) /\ UNCHANGED dispatch
    <2>1. Grows /\ UNCHANGED <<pc, author, sends, order>>
      BY <1>3, OthersGrow DEF dispatch, world
    <2>2. \A t \in Tickets : sends[t] = 1 => pc[author[t]] \notin Unsent
      BY DEF SendInv
    <2>3. QED
      BY <2>1, <2>2, SendKept
  <1>4. CASE Crash
    <2>1. Grows /\ UNCHANGED <<author, sends, order>>
      BY <1>4 DEF Crash, Grows, store, world, HasRow
    <2>2. \A b \in Attempts : pc'[b] \notin Unsent
      BY <1>4 DEF Crash, Unsent
    <2>3. \A t \in Tickets : sends[t] = 1 => author[t] \in Attempts
      BY DEF SendInv
    <2>4. QED
      BY <2>1, <2>2, <2>3, SendKept
  <1>5. QED
    BY <1>1, <1>2, <1>3, <1>4 DEF Next

\* A row of a guarded call keeps the trails truthful.
LEMMA GuardedKeepsTrail ==
    ASSUME TypeOK, TrailInv, NEW a \in Attempts,
           NEW s \in {"AUTHORIZED", "CHECKED", "SENT", "BROKER_ACK"}, NEW label, NEW otherwise,
           GuardedAppend(a, s, label, otherwise), UNCHANGED <<tkt, haltedFrom, result>>
    PROVE  TrailInv'
  <1>t. /\ tkt[a] \in Tickets /\ when[a] \in Time /\ author \in [Tickets -> Attempts \cup {NoAttempt}]
        /\ lc[tkt[a]] \in TrailStates /\ s \in RowStates /\ "SENT" \in RowStates
    BY DEF TypeOK, DispatchTypeOK, StoreTypeOK, RowStates, LIFECYCLE_STATES
  <1>1. CASE UNCHANGED <<lc, at, author>>
    BY <1>1 DEF TrailInv, HasRow
  <1>2. CASE /\ CanAppend(tkt[a], s, when[a]) /\ Recorded(tkt[a], s, when[a])
             /\ author' = [author EXCEPT ![tkt[a]] = a]
    <2>1. /\ lc'[tkt[a]] = s /\ s \in ALLOWED_NEXT[lc[tkt[a]]]
          /\ s # "SENT" => (HasRow(tkt[a], "SENT")' <=> HasRow(tkt[a], "SENT"))
          /\ \A u \in Tickets : u # tkt[a] => lc'[u] = lc[u] /\ at'[u] = at[u]
      BY <1>t, <1>2, RowAdded
    <2>2. ASSUME NEW u \in Tickets, u # tkt[a]
          PROVE  /\ author'[u] # NoAttempt => tkt'[author'[u]] = u
                 /\ lc'[u] \in {"NONE", "AUTHORIZED", "CHECKED"} => ~HasRow(u, "SENT")'
                 /\ haltedFrom'[u] \in {"AUTHORIZED", "CHECKED"} =>
                      lc'[u] \in {"HALT", "RECONCILED"} /\ ~HasRow(u, "SENT")'
                 /\ result'[u] = "NOT_SENT" => lc'[u] = "RECONCILED" /\ ~HasRow(u, "SENT")'
      BY <1>t, <1>2, <2>1, <2>2 DEF TrailInv, HasRow
    <2>3. /\ lc[tkt[a]] \in {"NONE", "AUTHORIZED", "CHECKED", "SENT"}
          /\ s \in {"AUTHORIZED", "CHECKED"} => lc[tkt[a]] \in {"NONE", "AUTHORIZED"}
      BY <1>t, <2>1, Predecessors
    <2>4. /\ s \in {"AUTHORIZED", "CHECKED"} => ~HasRow(tkt[a], "SENT")'
          /\ haltedFrom[tkt[a]] \notin {"AUTHORIZED", "CHECKED"}
          /\ result[tkt[a]] # "NOT_SENT"
      BY <1>t, <2>1, <2>3 DEF TrailInv
    <2>5. author'[tkt[a]] = a /\ tkt'[a] = tkt[a]
      BY <1>t, <1>2
    <2>6. QED
      BY <1>t, <2>1, <2>2, <2>4, <2>5 DEF TrailInv, HasRow
  <1>3. QED
    BY <1>1, <1>2 DEF GuardedAppend

\* A HALT row keeps the trails truthful: its halted_from is SENT, or the state it found.
LEMMA HaltKeepsTrail ==
    ASSUME TypeOK, TrailInv, NEW t \in Tickets, NEW n \in Time, NEW from \in {"SENT", lc[t]},
           HaltRecorded(t, n, from) \/ UNCHANGED <<lc, at, haltedFrom>>,
           UNCHANGED <<tkt, author, result>>
    PROVE  TrailInv'
  <1>t. lc[t] \in TrailStates /\ {"HALT", "SENT"} \subseteq RowStates /\ haltedFrom \in [Tickets -> TrailStates]
    BY DEF TypeOK, StoreTypeOK, RowStates, LIFECYCLE_STATES
  <1>1. CASE UNCHANGED <<lc, at, haltedFrom>>
    BY <1>1 DEF TrailInv, HasRow
  <1>2. CASE HaltRecorded(t, n, from)
    <2>1. /\ lc'[t] = "HALT" /\ "HALT" \in ALLOWED_NEXT[lc[t]]
          /\ HasRow(t, "SENT")' <=> HasRow(t, "SENT")
          /\ \A u \in Tickets : u # t => lc'[u] = lc[u] /\ at'[u] = at[u]
      BY <1>t, <1>2, RowAdded DEF HaltRecorded
    <2>2. /\ haltedFrom'[t] = from
          /\ \A u \in Tickets : u # t => haltedFrom'[u] = haltedFrom[u]
      BY <1>t, <1>2 DEF HaltRecorded
    <2>3. lc[t] \notin {"NONE", "HALT", "RECONCILED"}
      BY <1>t, <2>1, Predecessors
    <2>4. QED
      BY <2>1, <2>2, <2>3 DEF TrailInv, HasRow
  <1>3. QED
    BY <1>1, <1>2

\* A RECONCILED row keeps the trails truthful: NOT_SENT only for a trail halted before the send.
LEMMA ReconcileKeepsTrail ==
    ASSUME TypeOK, TrailInv, NEW t \in Tickets, NEW n \in Time, NEW res, NEW orderId,
           ReconcileRecorded(t, n, res, orderId) \/ UNCHANGED <<lc, at, result>>,
           res = "NOT_SENT" => haltedFrom[t] \in {"AUTHORIZED", "CHECKED"},
           UNCHANGED <<tkt, author, haltedFrom>>
    PROVE  TrailInv'
  <1>t. lc[t] \in TrailStates /\ {"RECONCILED", "SENT"} \subseteq RowStates /\ result \in [Tickets -> Results]
    BY DEF TypeOK, StoreTypeOK, RowStates, LIFECYCLE_STATES
  <1>1. CASE UNCHANGED <<lc, at, result>>
    BY <1>1 DEF TrailInv, HasRow
  <1>2. CASE ReconcileRecorded(t, n, res, orderId)
    <2>1. /\ lc'[t] = "RECONCILED" /\ "RECONCILED" \in ALLOWED_NEXT[lc[t]]
          /\ HasRow(t, "SENT")' <=> HasRow(t, "SENT")
          /\ \A u \in Tickets : u # t => lc'[u] = lc[u] /\ at'[u] = at[u]
      BY <1>t, <1>2, RowAdded DEF ReconcileRecorded, CanReconcile
    <2>2. /\ result'[t] = res
          /\ \A u \in Tickets : u # t => result'[u] = result[u]
      BY <1>t, <1>2 DEF ReconcileRecorded
    <2>3. QED
      BY <2>1, <2>2 DEF TrailInv, HasRow
  <1>3. QED
    BY <1>1, <1>2

\* Every step of the system keeps the trails truthful.
LEMMA TrailInvKept ==
    ASSUME TypeOK, AttemptInv, TrailInv, Next
    PROVE  TrailInv'
  <1>t. clock \in Time /\ mnow \in Time /\ subject \in Tickets
    BY DEF TypeOK, WorldTypeOK, MonitorTypeOK
  <1>u. ASSUME UNCHANGED <<tkt, lc, at, author, haltedFrom, result>>
        PROVE  TrailInv'
    BY <1>u DEF TrailInv, HasRow
  <1>1. CASE WorldNext /\ UNCHANGED <<dispatch, monitor, crashes>>
    <2>1. UNCHANGED <<tkt, lc, at, author, haltedFrom, result>>
      BY <1>1 DEF WorldNext, Tick, OwnerClear, OwnerRevoke, BrokerExecute, BrokerClose, OwnerConfirm,
                  store, dispatch
    <2>2. QED
      BY <2>1, <1>u
  <1>2. ASSUME NEW a \in Attempts, Start(a) \/ AttemptStep(a)
        PROVE  TrailInv'
    <2>t. tkt[a] \in Tickets
      BY DEF TypeOK, DispatchTypeOK
    <2>1. CASE AppendAuthorized(a)
      BY <2>1, GuardedKeepsTrail DEF AppendAuthorized
    <2>2. CASE AppendChecked(a)
      BY <2>2, GuardedKeepsTrail DEF AppendChecked
    <2>3. CASE AppendSent(a)
      BY <2>3, GuardedKeepsTrail DEF AppendSent
    <2>4. CASE AppendAck(a)
      BY <2>4, GuardedKeepsTrail DEF AppendAck
    <2>5. CASE Halt(a)
      <3>1. when'[a] \in Time
        BY <2>5, <1>t DEF Halt, AtNow, TypeOK, DispatchTypeOK
      <3>2. /\ HaltRecorded(tkt[a], when'[a], lc[tkt[a]]) \/ UNCHANGED <<lc, at, haltedFrom>>
            /\ UNCHANGED <<tkt, author, result>>
        BY <2>5 DEF Halt, HaltNotRecorded
      <3>3. QED
        BY <2>t, <3>1, <3>2, HaltKeepsTrail
    <2>6. CASE ~(AppendAuthorized(a) \/ AppendChecked(a) \/ AppendSent(a) \/ AppendAck(a) \/ Halt(a))
      <3>1. UNCHANGED <<tkt, lc, at, author, haltedFrom, result>>
        BY <1>2, <2>6 DEF AttemptStep, Start, AuthorizeCheck, PreTradeCheck, Gates, BrokerCheck,
                  OrderChecked, AuthorizeSend, SendPreTrade, Reserve, AdapterPreflight, OrderSend,
                  BrokerAck, MarkUnknown, Local, store
      <3>2. QED
        BY <3>1, <1>u
    <2>7. QED
      BY <2>1, <2>2, <2>3, <2>4, <2>5, <2>6
  <1>3. ASSUME NEW t \in Tickets, HostStep(t)
        PROVE  TrailInv'
    <2>1. CASE HostReconcile(t)
      <3>1. PICK orderId : ReconcileRecorded(t, clock, "FILLED", orderId) /\ UNCHANGED <<tkt, author, haltedFrom>>
        BY <2>1, Zenon DEF HostReconcile, dispatch
      <3>2. QED
        BY <3>1, <1>t, ReconcileKeepsTrail
    <2>2. CASE PositionTracked(t) \/ PositionClosed(t)
      <3>1. PICK s \in {"POSITION_TRACKED", "CLOSED"} : CanAppend(t, s, clock) /\ Recorded(t, s, clock)
        BY <2>2 DEF PositionTracked, PositionClosed
      <3>2. UNCHANGED <<tkt, author, haltedFrom, result>>
        BY <2>2 DEF PositionTracked, PositionClosed, dispatch
      <3>3. s \in RowStates /\ "SENT" \in RowStates /\ lc[t] \in TrailStates
        BY DEF RowStates, LIFECYCLE_STATES, TypeOK, StoreTypeOK
      <3>4. /\ lc'[t] = s /\ s \in ALLOWED_NEXT[lc[t]]
            /\ HasRow(t, "SENT")' <=> HasRow(t, "SENT")
            /\ \A u \in Tickets : u # t => lc'[u] = lc[u] /\ at'[u] = at[u]
        BY <1>t, <3>1, <3>3, RowAdded
      <3>5. lc[t] \in {"BROKER_ACK", "POSITION_TRACKED"}
        BY <3>3, <3>4, Predecessors
      <3>6. QED
        BY <3>2, <3>4, <3>5 DEF TrailInv, HasRow
    <2>3. QED
      BY <1>3, <2>1, <2>2 DEF HostStep
  <1>4. ASSUME MonitorStep, UNCHANGED dispatch
        PROVE  TrailInv'
    <2>1. CASE \/ CycleStart \/ CyclePositions \/ CycleHistory \/ CycleEnd \/ CycleMark
               \/ \E t \in Tickets : CycleTracked(t) \/ CyclePending(t)
      <3>1. UNCHANGED <<lc, at, author, haltedFrom, result>>
        BY <2>1 DEF CycleStart, CyclePositions, CycleHistory, CycleEnd, CycleMark, CycleTracked,
                    CyclePending, store
      <3>2. QED
        BY <1>4, <3>1, <1>u DEF dispatch
    <2>2. CASE CycleResolve
      <3>1. PICK res, orderId :
              /\ ReconcileRecorded(subject, mnow, res, orderId) \/ UNCHANGED <<lc, at, result>>
              /\ res = Resolution(subject)
        BY <2>2 DEF CycleResolve, ReconcileNotRecorded
      <3>2. res = "NOT_SENT" => haltedFrom[subject] \in {"AUTHORIZED", "CHECKED"}
        BY <3>1 DEF Resolution, HaltedFrom
      <3>3. UNCHANGED <<tkt, author, haltedFrom>>
        BY <1>4, <2>2 DEF CycleResolve, dispatch
      <3>4. QED
        BY <1>t, <3>1, <3>2, <3>3, ReconcileKeepsTrail
    <2>3. ASSUME NEW t \in Tickets, CycleHalt(t)
          PROVE  TrailInv'
      <3>1. /\ HaltRecorded(t, mnow, "SENT") \/ UNCHANGED <<lc, at, haltedFrom>>
            /\ UNCHANGED <<tkt, author, result>>
        BY <1>4, <2>3 DEF CycleHalt, HaltNotRecorded, dispatch
      <3>2. QED
        BY <3>1, <1>t, HaltKeepsTrail
    <2>4. QED
      BY <1>4, <2>1, <2>2, <2>3 DEF MonitorStep
  <1>5. ASSUME RecoveryStep, UNCHANGED dispatch
        PROVE  TrailInv'
    <2>1. CASE RecoveryDone
      BY <1>5, <2>1, <1>u DEF RecoveryDone, store, dispatch
    <2>2. ASSUME NEW t \in Tickets, Recover(t)
          PROVE  TrailInv'
      <3>1. /\ HaltRecorded(t, clock, lc[t]) \/ UNCHANGED <<lc, at, haltedFrom>>
            /\ UNCHANGED <<tkt, author, result>>
        BY <1>5, <2>2 DEF Recover, HaltNotRecorded, dispatch
      <3>2. QED
        BY <3>1, <1>t, HaltKeepsTrail
    <2>3. QED
      BY <1>5, <2>1, <2>2 DEF RecoveryStep
  <1>6. CASE Crash
    BY <1>6, <1>u DEF Crash, store
  <1>7. QED
    BY <1>1, <1>2, <1>3, <1>4, <1>5, <1>6 DEF Next

\* What the broker's history shows stays: a filled order is filled or closed, a rejected one rejected.
LEMMA OrderStays ==
    ASSUME TypeOK, AttemptInv, SendInv, Next, NEW t \in Tickets
    PROVE  /\ order[t] \in {"filled", "closed"} => order'[t] \in {"filled", "closed"}
           /\ order[t] = "rejected" => order'[t] = "rejected"
  <1>1. CASE WorldNext
    BY <1>1 DEF WorldNext, Tick, OwnerClear, OwnerRevoke, BrokerExecute, BrokerClose, OwnerConfirm,
                world, TypeOK, WorldTypeOK
  <1>2. ASSUME NEW a \in Attempts, OrderSend(a)
        PROVE  /\ order[t] \in {"filled", "closed"} => order'[t] \in {"filled", "closed"}
               /\ order[t] = "rejected" => order'[t] = "rejected"
    <2>1. tkt[a] \in Tickets /\ pc[a] = "order_send"
      BY <1>2 DEF OrderSend, TypeOK, DispatchTypeOK
    <2>2. author[tkt[a]] = a
      BY <2>1 DEF AttemptInv, Backed, Owning, PCs
    <2>3. order[tkt[a]] = "none"
      BY <2>1, <2>2 DEF SendInv, Unsent
    <2>4. t # tkt[a] => order'[t] = order[t]
      BY <1>2, <2>1 DEF OrderSend, TypeOK, WorldTypeOK
    <2>5. QED
      BY <2>3, <2>4
  <1>3. ASSUME NEW a \in Attempts, Start(a) \/ AttemptStep(a), ~OrderSend(a)
        PROVE  UNCHANGED order
    BY <1>3 DEF AttemptStep, Start, AuthorizeCheck, PreTradeCheck, Gates, AppendAuthorized, BrokerCheck,
                OrderChecked, AppendChecked, AuthorizeSend, SendPreTrade, Reserve, AppendSent,
                AdapterPreflight, BrokerAck, AppendAck, Halt, MarkUnknown, Local, world
  <1>4. CASE \/ \E u \in Tickets : HostStep(u)
             \/ (MonitorStep \/ RecoveryStep) /\ UNCHANGED dispatch
    BY <1>4, OthersGrow DEF world
  <1>5. CASE Crash
    BY <1>5 DEF Crash, world
  <1>6. QED
    BY <1>1, <1>2, <1>3, <1>4, <1>5 DEF Next

\* Every step keeps the monitor's reading and the recorded results true of the broker.
LEMMA HistoryInvKept ==
    ASSUME TypeOK, AttemptInv, SendInv, HistoryInv, Next
    PROVE  HistoryInv'
  <1>t. subject \in Tickets /\ deals \subseteq Tickets /\ refusals \subseteq Tickets
        /\ result \in [Tickets -> Results]
    BY DEF TypeOK, MonitorTypeOK, StoreTypeOK
  <1>o. \A t \in Tickets : /\ order[t] \in {"filled", "closed"} => order'[t] \in {"filled", "closed"}
                           /\ order[t] = "rejected" => order'[t] = "rejected"
    BY OrderStays
  <1>u. ASSUME UNCHANGED <<deals, refusals, result>>
        PROVE  HistoryInv'
    BY <1>u, <1>t, <1>o DEF HistoryInv
  <1>v. ASSUME UNCHANGED <<deals, refusals>>, NEW t \in Tickets, NEW res,
               result' = [result EXCEPT ![t] = res],
               res = "FILLED" => order[t] \in {"filled", "closed"},
               res = "REJECTED" => order[t] = "rejected"
        PROVE  HistoryInv'
    BY <1>v, <1>t, <1>o DEF HistoryInv
  <1>1. CASE WorldNext /\ UNCHANGED <<dispatch, monitor, crashes>>
    <2>1. UNCHANGED <<deals, refusals, result>>
      BY <1>1 DEF WorldNext, Tick, OwnerClear, OwnerRevoke, BrokerExecute, BrokerClose, OwnerConfirm,
                  store, monitor, reading
    <2>2. QED
      BY <2>1, <1>u
  <1>2. ASSUME NEW a \in Attempts, Start(a) \/ AttemptStep(a), UNCHANGED monitor
        PROVE  HistoryInv'
    <2>1. UNCHANGED <<deals, refusals, result>>
      BY <1>2 DEF AttemptStep, Start, AuthorizeCheck, PreTradeCheck, Gates, AppendAuthorized, BrokerCheck,
                OrderChecked, AppendChecked, AuthorizeSend, SendPreTrade, Reserve, AppendSent, OrderSend,
                AdapterPreflight, BrokerAck, AppendAck, Halt, MarkUnknown, Local, store, monitor, reading
    <2>2. QED
      BY <2>1, <1>u
  <1>3. ASSUME NEW t \in Tickets, HostStep(t), UNCHANGED monitor
        PROVE  HistoryInv'
    <2>1. UNCHANGED <<deals, refusals>>
      BY <1>3 DEF monitor, reading
    <2>2. CASE HostReconcile(t)
      <3>1. order[t] \in {"filled", "closed"} /\ result' = [result EXCEPT ![t] = "FILLED"]
        BY <2>2 DEF HostReconcile, ReconcileRecorded
      <3>2. QED
        BY <2>1, <3>1, <1>v
    <2>3. CASE PositionTracked(t) \/ PositionClosed(t)
      BY <2>1, <2>3, <1>u DEF PositionTracked, PositionClosed
    <2>4. QED
      BY <1>3, <2>2, <2>3 DEF HostStep
  <1>4. ASSUME MonitorStep, UNCHANGED dispatch
        PROVE  HistoryInv'
    <2>1. CASE CyclePositions \/ CycleHistory \/ CycleEnd \/ CycleStart
      <3>1. UNCHANGED <<result, order>>
        BY <2>1 DEF CyclePositions, CycleHistory, CycleEnd, CycleStart, store, world
      <3>2. /\ deals' \in {deals, {}, {t \in Tickets : order[t] \in {"filled", "closed"}}}
            /\ refusals' \in {refusals, {}, {t \in Tickets : order[t] = "rejected"}}
        BY <2>1 DEF CyclePositions, CycleHistory, CycleEnd, CycleStart, NoReading
      <3>3. QED
        BY <3>1, <3>2, <1>t DEF HistoryInv
    <2>2. CASE CycleResolve
      <3>1. UNCHANGED <<deals, refusals>>
        BY <2>2 DEF CycleResolve, reading
      <3>2. UNCHANGED result \/ result' = [result EXCEPT ![subject] = Resolution(subject)]
        BY <2>2 DEF CycleResolve, ReconcileRecorded, ReconcileNotRecorded
      <3>3. /\ Resolution(subject) = "FILLED" => order[subject] \in {"filled", "closed"}
            /\ Resolution(subject) = "REJECTED" => order[subject] = "rejected"
        BY DEF Resolution, HistoryInv
      <3>4. QED
        BY <3>1, <3>2, <3>3, <1>t, <1>u, <1>v
    <2>3. CASE CycleMark \/ \E t \in Tickets : CycleTracked(t) \/ CyclePending(t) \/ CycleHalt(t)
      <3>1. UNCHANGED <<deals, refusals, result>>
        BY <2>3 DEF CycleMark, CycleTracked, CyclePending, CycleHalt, reading, store
      <3>2. QED
        BY <3>1, <1>u
    <2>4. QED
      BY <1>4, <2>1, <2>2, <2>3 DEF MonitorStep
  <1>5. ASSUME RecoveryStep
        PROVE  HistoryInv'
    <2>1. UNCHANGED <<deals, refusals, result>>
      BY <1>5 DEF RecoveryStep, RecoveryDone, Recover, reading, store
    <2>2. QED
      BY <2>1, <1>u
  <1>6. CASE Crash
    <2>1. deals' = {} /\ refusals' = {} /\ UNCHANGED <<result, order>>
      BY <1>6 DEF Crash, MonitorCrash, NoReading, store, world
    <2>2. QED
      BY <2>1 DEF HistoryInv
  <1>7. QED
    BY <1>1, <1>2, <1>3, <1>4, <1>5, <1>6 DEF Next

\* The claim ledger's operations keep each other's rows consistent.
LEMMA LedgerConsistent ==
    ASSUME TypeOK, ClaimIsConsistent, NEW t \in Tickets,
           Reserved(t) \/ UnknownRecorded(t) \/ ClaimReconciled(t) \/ UNCHANGED claim
    PROVE  ClaimIsConsistent'
  <1>t. claim \in [Tickets -> SUBSET ClaimKinds]
    BY DEF TypeOK, StoreTypeOK
  <1>1. CASE UNCHANGED claim
    BY <1>1 DEF ClaimIsConsistent
  <1>2. CASE Reserved(t)
    <2>1. claim[t] = {}
      BY <1>2 DEF Reserved, Inspect, ClaimIsConsistent
    <2>2. claim' = [claim EXCEPT ![t] = {"SENDING"}]
      BY <1>2, <2>1 DEF Reserved
    <2>3. QED
      BY <1>t, <2>2 DEF ClaimIsConsistent
  <1>3. CASE UnknownRecorded(t) /\ ~UNCHANGED claim
    <2>1. claim' = [claim EXCEPT ![t] = {"SENDING", "UNCERTAIN"}]
      BY <1>3 DEF UnknownRecorded
    <2>2. QED
      BY <1>t, <2>1 DEF ClaimIsConsistent
  <1>4. CASE ClaimReconciled(t) /\ ~UNCHANGED claim
    <2>1. claim' = [claim EXCEPT ![t] = {"SENDING", "RECONCILED"}]
      BY <1>4 DEF ClaimReconciled
    <2>2. QED
      BY <1>t, <2>1 DEF ClaimIsConsistent
  <1>5. QED
    BY <1>1, <1>2, <1>3, <1>4

\* Every step keeps the claim ledger consistent.
LEMMA ClaimKept ==
    ASSUME TypeOK, ClaimIsConsistent, Next
    PROVE  ClaimIsConsistent'
  <1>u. ASSUME UNCHANGED claim PROVE ClaimIsConsistent'
    BY <1>u DEF ClaimIsConsistent
  <1>1. CASE WorldNext \/ Crash
    <2>1. UNCHANGED claim
      BY <1>1 DEF WorldNext, Tick, OwnerClear, OwnerRevoke, BrokerExecute, BrokerClose, OwnerConfirm,
                  store, Crash
    <2>2. QED
      BY <2>1, <1>u
  <1>2. ASSUME NEW a \in Attempts, Start(a) \/ AttemptStep(a)
        PROVE  ClaimIsConsistent'
    <2>1. Reserved(tkt[a]) \/ UnknownRecorded(tkt[a]) \/ UNCHANGED claim
      BY <1>2 DEF AttemptStep, Start, AuthorizeCheck, PreTradeCheck, Gates, AppendAuthorized, BrokerCheck,
                OrderChecked, AppendChecked, AuthorizeSend, SendPreTrade, Reserve, AppendSent, OrderSend,
                AdapterPreflight, BrokerAck, AppendAck, Halt, MarkUnknown, Local, store
    <2>2. tkt[a] \in Tickets
      BY DEF TypeOK, DispatchTypeOK
    <2>3. QED
      BY <2>1, <2>2, LedgerConsistent
  <1>3. ASSUME NEW t \in Tickets, HostStep(t)
        PROVE  ClaimIsConsistent'
    BY <1>3, <1>u, LedgerConsistent DEF HostStep, PositionTracked, PositionClosed, HostReconcile
  <1>4. CASE MonitorStep
    <2>1. CASE CycleMark
      BY <2>1, LedgerConsistent DEF CycleMark, TypeOK, MonitorTypeOK
    <2>2. CASE ~CycleMark
      <3>1. UNCHANGED claim
        BY <1>4, <2>2 DEF MonitorStep, CycleStart, CyclePositions, CycleHistory, CycleResolve, CycleEnd,
                    CycleTracked, CyclePending, CycleHalt, store
      <3>2. QED
        BY <3>1, <1>u
    <2>3. QED
      BY <2>1, <2>2
  <1>5. CASE RecoveryStep
    <2>1. CASE RecoveryDone
      BY <2>1, <1>u DEF RecoveryDone, store
    <2>2. ASSUME NEW t \in Tickets, Recover(t)
          PROVE  ClaimIsConsistent'
      BY <2>2, <1>u, LedgerConsistent DEF Recover
    <2>3. QED
      BY <1>5, <2>1, <2>2 DEF RecoveryStep
  <1>6. QED
    BY <1>1, <1>2, <1>3, <1>4, <1>5 DEF Next

-----------------------------------------------------------------------------
(* The theorems *)

\* The inductive invariant holds initially: no ticket has a trail, a claim or an order.
LEMMA InitInv == Init => IInv
  <1> SUFFICES ASSUME Init PROVE IInv
    OBVIOUS
  <1> USE DEF Init
  <1>1. AttemptInv
    BY DEF DispatchInit, AttemptInv, Backed, Owning, AfterClaim, AfterSentRow, PCs
  <1>2. SendInv
    BY DEF WorldInit, SendInv
  <1>3. TrailInv
    <2>1. "SENT" \in RowStates
      BY DEF RowStates, LIFECYCLE_STATES
    <2>2. QED
      BY <2>1 DEF StoreInit, TrailInv, HasRow
  <1>4. HistoryInv
    BY DEF MonitorInit, StoreInit, HistoryInv
  <1>5. ClaimIsConsistent
    BY DEF StoreInit, ClaimIsConsistent
  <1>6. QED
    BY <1>1, <1>2, <1>3, <1>4, <1>5 DEF IInv

\* Every step of the system preserves it.
LEMMA NextInv == TypeOK /\ IInv /\ [Next]_vars => IInv'
  <1> SUFFICES ASSUME TypeOK, IInv, [Next]_vars
               PROVE  IInv'
    OBVIOUS
  <1>1. CASE Next
    <2>1. AttemptInv /\ SendInv /\ TrailInv /\ HistoryInv /\ ClaimIsConsistent
      BY DEF IInv
    <2>2. QED
      BY <1>1, <2>1, AttemptInvKept, SendInvKept, TrailInvKept, HistoryInvKept, ClaimKept DEF IInv
  <1>2. CASE UNCHANGED vars
    BY <1>2 DEF vars, store, world, dispatch, monitor, reading, IInv, AttemptInv, Backed, SendInv,
                TrailInv, HistoryInv, ClaimIsConsistent, HasRow
  <1>3. QED
    BY <1>1, <1>2

\* The inductive invariant of the whole system: an attempt's position, the rows, the claim, the
\* consumed confirmation and the broker's history stay consistent through every thread and crash.
THEOREM Invariance == Spec => []IInv
  BY TypeCorrect, InitInv, NextInv, PTL DEF Spec

\* At most one order is ever submitted for a ticket (authorize_order_send's claim and SENT row
\* against any number of attempts, crashes and failing writes).
THEOREM SingleSend == Spec => []AtMostOneSend
  <1>1. IInv => AtMostOneSend
    BY DEF IInv, SendInv, AtMostOneSend
  <1>2. QED
    BY <1>1, Invariance, PTL

\* Every submitted order has its claim, its SENT row and its consumed confirmation on disk.
THEOREM BackedSend == Spec => []SendIsBacked
  <1>1. TypeOK /\ IInv => SendIsBacked
    BY DEF IInv, SendInv, SendIsBacked, TypeOK, WorldTypeOK
  <1>2. QED
    BY <1>1, TypeCorrect, Invariance, PTL

\* A terminal result the monitor or the host records is what happened at the broker.
THEOREM TrueResult == Spec => []ResultIsTrue
  <1>1. IInv => ResultIsTrue
    BY DEF IInv, SendInv, TrailInv, HistoryInv, ResultIsTrue
  <1>2. QED
    BY <1>1, Invariance, PTL

\* The claim ledger of a ticket never contradicts itself, whoever wrote last.
THEOREM ConsistentClaim == Spec => []ClaimIsConsistent
  <1>1. IInv => ClaimIsConsistent
    BY DEF IInv
  <1>2. QED
    BY <1>1, Invariance, PTL

-----------------------------------------------------------------------------
(* The order of a trail's timestamps *)

\* A legal successor ranks after its state.
LEMMA RankGrows ==
    ASSUME NEW r \in TrailStates, NEW s \in RowStates, s \in ALLOWED_NEXT[r]
    PROVE  Rank[r] < Rank[s] /\ Rank[r] \in Nat /\ Rank[s] \in Nat
  <1>1. /\ Rank["NONE"] = 0 /\ Rank["AUTHORIZED"] = 1 /\ Rank["CHECKED"] = 2 /\ Rank["SENT"] = 3
        /\ Rank["BROKER_ACK"] = 4 /\ Rank["POSITION_TRACKED"] = 5 /\ Rank["CLOSED"] = 6
        /\ Rank["HALT"] = 7 /\ Rank["RECONCILED"] = 8
    BY DEF Rank, TrailStates, RowStates, LIFECYCLE_STATES
  <1>2. \/ r = "NONE" \/ r = "AUTHORIZED" \/ r = "CHECKED" \/ r = "SENT" \/ r = "BROKER_ACK"
        \/ r = "POSITION_TRACKED" \/ r = "CLOSED" \/ r = "HALT" \/ r = "RECONCILED"
    BY DEF TrailStates, RowStates, LIFECYCLE_STATES
  <1>3. QED
    BY <1>1, <1>2, Successors

\* Every step of the system leaves the trails alone or adds one admitted row to one of them.
LEMMA NextExtends == TypeOK /\ Next => Extends
  <1> SUFFICES ASSUME TypeOK, Next
               PROVE  Extends
    OBVIOUS
  <1>1. CASE WorldNext \/ Crash
    BY <1>1 DEF WorldNext, Tick, OwnerClear, OwnerRevoke, BrokerExecute, BrokerClose, OwnerConfirm,
                store, Crash, Extends
  <1>2. QED
    BY <1>1, AttemptGrows, OthersGrow DEF Next

\* A row append admits keeps the trail ordered: it is ranked after every row there is and, by the
\* comparison append makes under the lock, not timed before the last.
LEMMA RowKeepsOrder ==
    ASSUME TypeOK, TimeInv, TrailIsOrdered,
           NEW t \in Tickets, NEW s \in RowStates, NEW n \in Time,
           CanAppend(t, s, n), Recorded(t, s, n)
    PROVE  TimeInv' /\ TrailIsOrdered'
  <1>t. /\ at \in [Tickets -> [RowStates -> Time \cup {NoTime}]]
        /\ at[t] \in [RowStates -> Time \cup {NoTime}] /\ lc[t] \in TrailStates
        /\ Time \subseteq Int /\ NoTime \in Int
    BY DEF TypeOK, StoreTypeOK, Time, NoTime
  <1>1. /\ lc'[t] = s /\ HasRow(t, s)'
        /\ \A r \in RowStates : r # s => (HasRow(t, r)' <=> HasRow(t, r))
        /\ \A u \in Tickets : u # t => lc'[u] = lc[u] /\ at'[u] = at[u]
        /\ s \in ALLOWED_NEXT[lc[t]]
    BY RowAdded
  <1>2. at'[t][s] = n /\ \A r \in RowStates : r # s => at'[t][r] = at[t][r]
    BY <1>t DEF Recorded
  <1>3. Rank[lc[t]] < Rank[s] /\ Rank[lc[t]] \in Nat /\ Rank[s] \in Nat
    BY <1>t, <1>1, RankGrows
  <1>4. ASSUME NEW r \in RowStates, HasRow(t, r)
        PROVE  /\ r # s /\ at[t][r] <= n /\ lc[t] # "NONE"
               /\ Rank[r] <= Rank[lc[t]]
    <2>1. lc[t] # "NONE" /\ Rank[r] <= Rank[lc[t]] /\ at[t][r] <= at[t][lc[t]]
      BY <1>4 DEF TimeInv
    <2>2. n >= at[t][lc[t]] /\ lc[t] \in RowStates
      BY <2>1, <1>t DEF CanAppend, TrailStates
    <2>3. r # s
      BY <2>1, <1>3
    <2>4. at[t][r] \in Int /\ at[t][lc[t]] \in Int /\ n \in Int
      BY <2>2, <1>t
    <2>5. at[t][r] <= n
      BY <2>1, <2>2, <2>4
    <2>6. QED
      BY <2>1, <2>3, <2>5
  <1>5. \A r \in RowStates : Rank[r] \in Nat
    BY DEF Rank, TrailStates, RowStates, LIFECYCLE_STATES
  <1>6. TimeInv'
    <2>1. ASSUME NEW u \in Tickets, u # t
          PROVE  /\ lc'[u] # "NONE" => HasRow(u, lc[u])'
                 /\ \A r \in RowStates : HasRow(u, r)' =>
                      lc'[u] # "NONE" /\ Rank[r] <= Rank[lc'[u]] /\ at'[u][r] <= at'[u][lc'[u]]
      BY <1>1, <2>1 DEF TimeInv, HasRow
    <2>2. ASSUME NEW r \in RowStates, HasRow(t, r)'
          PROVE  lc'[t] # "NONE" /\ Rank[r] <= Rank[lc'[t]] /\ at'[t][r] <= at'[t][lc'[t]]
      <3>1. s # "NONE"
        BY DEF RowStates, LIFECYCLE_STATES
      <3>2. CASE r = s
        BY <3>1, <3>2, <1>1, <1>2, <1>3, <1>t
      <3>3. CASE r # s
        BY <3>1, <3>3, <2>2, <1>1, <1>2, <1>3, <1>4, <1>5
      <3>4. QED
        BY <3>2, <3>3
    <2>3. QED
      BY <2>1, <2>2, <1>1 DEF TimeInv, HasRow
  <1>7. TrailIsOrdered'
    <2>1. ASSUME NEW p \in RowStates, NEW q \in RowStates, HasRow(t, p)', HasRow(t, q)',
                 q \in ALLOWED_NEXT[p]
          PROVE  at'[t][p] <= at'[t][q]
      <3>1. Rank[p] < Rank[q]
        BY <2>1, RankGrows DEF TrailStates
      <3>2. p # s
        BY <2>1, <3>1, <1>1, <1>3, <1>4, <1>5
      <3>3. CASE q = s
        BY <2>1, <3>2, <3>3, <1>1, <1>2, <1>4
      <3>4. CASE q # s
        BY <2>1, <3>2, <3>4, <1>1, <1>2 DEF TrailIsOrdered
      <3>5. QED
        BY <3>3, <3>4
    <2>2. ASSUME NEW u \in Tickets, u # t, NEW p \in RowStates, NEW q \in RowStates,
                 HasRow(u, p)', HasRow(u, q)', q \in ALLOWED_NEXT[p]
          PROVE  at'[u][p] <= at'[u][q]
      BY <2>2, <1>1 DEF TrailIsOrdered, HasRow
    <2>3. QED
      BY <2>1, <2>2 DEF TrailIsOrdered
  <1>8. QED
    BY <1>6, <1>7

\* The last row of a trail is its highest and its latest, in every behaviour.
THEOREM TrailTimes == Spec => [](TimeInv /\ TrailIsOrdered)
  <1>1. Init => TimeInv /\ TrailIsOrdered
    BY DEF Init, StoreInit, TimeInv, TrailIsOrdered, HasRow
  <1>2. TypeOK /\ TimeInv /\ TrailIsOrdered /\ [Next]_vars => TimeInv' /\ TrailIsOrdered'
    <2> SUFFICES ASSUME TypeOK, TimeInv, TrailIsOrdered, [Next]_vars
                 PROVE  TimeInv' /\ TrailIsOrdered'
      OBVIOUS
    <2>1. Extends
      BY NextExtends DEF vars, store, Extends
    <2>2. CASE UNCHANGED <<lc, at>>
      BY <2>2 DEF TimeInv, TrailIsOrdered, HasRow
    <2>3. QED
      BY <2>1, <2>2, RowKeepsOrder DEF Extends
  <1>3. QED
    BY <1>1, <1>2, TypeCorrect, PTL DEF Spec

\* The rows of every trail stay in the order of their timestamps, although each writer appends
\* with a clock reading taken before (append's comparison in lifecycle.py).
THEOREM OrderedTrail == Spec => []TrailIsOrdered
  BY TrailTimes, PTL

-----------------------------------------------------------------------------
(* No claim is stranded *)

\* The types of what a row's time is compared with.
LEMMA TimesTyped ==
    ASSUME TypeOK
    PROVE  /\ clock \in Int /\ mnow \in Int /\ \A a \in Attempts : when[a] \in Int /\ tkt[a] \in Tickets
           /\ \A t \in Tickets, s \in RowStates : at[t][s] \in Int
           /\ \A n \in Time : n \in Int
           /\ "CHECKED" \in RowStates /\ "HALT" \in RowStates /\ "SENT" \in RowStates
  <1>1. Time \subseteq Int /\ NoTime \in Int
    BY DEF Time, NoTime
  <1>2. clock \in Int /\ mnow \in Int /\ \A a \in Attempts : when[a] \in Int /\ tkt[a] \in Tickets
    BY <1>1 DEF TypeOK, WorldTypeOK, DispatchTypeOK, MonitorTypeOK
  <1>3. ASSUME NEW t \in Tickets, NEW s \in RowStates PROVE at[t][s] \in Int
    <2>1. at[t] \in [RowStates -> Time \cup {NoTime}]
      BY DEF TypeOK, StoreTypeOK
    <2>2. at[t][s] \in Time \cup {NoTime}
      BY <2>1
    <2>3. QED
      BY <1>1, <2>2
  <1>4. QED
    BY <1>1, <1>2, <1>3 DEF RowStates, LIFECYCLE_STATES

\* What a step of the whole system does to trails, claims and authors.
LEMMA NextGrows ==
    ASSUME TypeOK, AttemptInv, [Next]_vars
    PROVE  /\ Extends /\ Grows
           /\ \A t \in Tickets : lc[t] # "NONE" => author'[t] = author[t]
  <1>1. CASE UNCHANGED vars
    BY <1>1 DEF vars, store, dispatch, Extends, Grows, HasRow
  <1>2. CASE WorldNext /\ UNCHANGED <<dispatch, monitor, crashes>>
    BY <1>2 DEF WorldNext, Tick, OwnerClear, OwnerRevoke, BrokerExecute, BrokerClose, OwnerConfirm,
                store, dispatch, Extends, Grows, HasRow
  <1>3. CASE Crash
    BY <1>3 DEF Crash, store, Extends, Grows, HasRow
  <1>4. ASSUME NEW a \in Attempts, Start(a) \/ AttemptStep(a)
        PROVE  Extends /\ Grows /\ \A t \in Tickets : lc[t] # "NONE" => author'[t] = author[t]
    BY <1>4, AttemptGrows, AuthorKept
  <1>5. QED
    BY <1>1, <1>2, <1>3, <1>4, OthersGrow DEF Next

\* No row and no clock reading is of the future.
LEMMA PastKept ==
    ASSUME TypeOK, PastInv, [Next]_vars
    PROVE  PastInv'
  <1>1. clock' \in Int /\ clock <= clock'
    <2>1. clock' = clock \/ clock' = clock + 1
      BY DEF Next, vars, world, WorldNext, Tick, OwnerClear, OwnerRevoke, BrokerExecute, BrokerClose,
             OwnerConfirm, Crash, Start, Local, AttemptStep, AuthorizeCheck, PreTradeCheck, Gates,
             AppendAuthorized, BrokerCheck, OrderChecked, AppendChecked, AuthorizeSend, SendPreTrade,
             Reserve, AppendSent, AdapterPreflight, OrderSend, BrokerAck, AppendAck, Halt, MarkUnknown,
             HostStep, PositionTracked, PositionClosed, HostReconcile, MonitorStep, CycleStart,
             CyclePositions, CycleHistory, CycleMark, CycleResolve, CycleEnd, CycleTracked, CyclePending,
             CycleHalt, RecoveryStep, RecoveryDone, Recover
    <2>2. QED
      BY <2>1, TimesTyped
  <1>2. \A t \in Tickets, s \in RowStates : at'[t][s] <= clock'
    <2>1. Extends
      BY NextExtends DEF vars, store, Extends
    <2>2. CASE UNCHANGED <<lc, at>>
      BY <1>1, <2>2, TimesTyped DEF PastInv
    <2>3. ASSUME NEW t \in Tickets, NEW s \in RowStates, NEW n \in Time, n \in Readings,
                 CanAppend(t, s, n), Recorded(t, s, n)
          PROVE  \A u \in Tickets, r \in RowStates : at'[u][r] <= clock'
      <3>1. n <= clock /\ n \in Int
        BY <2>3, TimesTyped DEF PastInv, Readings
      <3>2. \A u \in Tickets, r \in RowStates : at'[u][r] \in {at[u][r], n}
        BY <2>3 DEF Recorded, TypeOK, StoreTypeOK
      <3>3. QED
        BY <1>1, <3>1, <3>2, TimesTyped DEF PastInv
    <2>4. QED
      BY <2>1, <2>2, <2>3 DEF Extends
  <1>3. \A a \in Attempts : when'[a] <= clock'
    <2>1. \A a \in Attempts : when'[a] \in {when[a], clock}
      <3>1. ASSUME NEW b \in Attempts, Start(b) \/ AttemptStep(b)
            PROVE  \A a \in Attempts : when'[a] \in {when[a], clock}
        BY <3>1 DEF Start, AtNow, AttemptStep, AuthorizeCheck, PreTradeCheck, Gates,
             AppendAuthorized, BrokerCheck, OrderChecked, AppendChecked, AuthorizeSend, SendPreTrade,
             Reserve, AppendSent, AdapterPreflight, OrderSend, BrokerAck, AppendAck, Halt, MarkUnknown,
             TypeOK, DispatchTypeOK
      <3>2. QED
        BY <3>1 DEF Next, vars, dispatch, Crash, HostStep, PositionTracked, PositionClosed, HostReconcile
    <2>2. QED
      BY <1>1, <2>1, TimesTyped DEF PastInv
  <1>4. mnow' <= clock'
    <2>1. mnow' \in {mnow, clock, 0}
      BY DEF Next, vars, monitor, reading, Crash, MonitorCrash, NoReading, MonitorStep, CycleStart,
             CyclePositions, CycleHistory, CycleMark, CycleResolve, CycleEnd, CycleTracked, CyclePending,
             CycleHalt, RecoveryStep, RecoveryDone, Recover
    <2>2. 0 <= clock
      BY DEF TypeOK, WorldTypeOK, Time
    <2>3. QED
      BY <1>1, <2>1, <2>2, TimesTyped DEF PastInv
  <1>5. QED
    BY <1>2, <1>3, <1>4 DEF PastInv

\* While the process is down nothing but recovery runs.
LEMMA DownKept ==
    ASSUME TypeOK, DownInv, [Next]_vars
    PROVE  DownInv'
  <1>1. CASE Crash
    BY <1>1 DEF Crash, MonitorCrash, DownInv
  <1>2. ASSUME NEW a \in Attempts, AttemptStep(a)
        PROVE  pc[a] \notin {"idle", "done"}
    BY <1>2 DEF AttemptStep, AuthorizeCheck, PreTradeCheck, Gates,
             AppendAuthorized, BrokerCheck, OrderChecked, AppendChecked, AuthorizeSend, SendPreTrade,
             Reserve, AppendSent, AdapterPreflight, OrderSend, BrokerAck, AppendAck, Halt, MarkUnknown
  <1>3. ASSUME NEW a \in Attempts, (up /\ Start(a)) \/ AttemptStep(a), UNCHANGED <<monitor, crashes>>
        PROVE  DownInv'
    BY <1>2, <1>3 DEF DownInv, monitor
  <1>4. CASE MonitorStep /\ UNCHANGED <<dispatch, crashes>>
    BY <1>4 DEF MonitorStep, CycleStart, CyclePositions, CycleHistory, CycleMark, CycleResolve, CycleEnd,
                CycleTracked, CyclePending, CycleHalt, DownInv
  <1>5. CASE RecoveryStep /\ UNCHANGED <<dispatch, crashes>>
    BY <1>5 DEF RecoveryStep, RecoveryDone, Recover, dispatch, DownInv
  <1>6. CASE WorldNext /\ UNCHANGED <<dispatch, monitor, crashes>>
    BY <1>6 DEF dispatch, monitor, DownInv
  <1>7. ASSUME NEW t \in Tickets, HostStep(t), UNCHANGED <<monitor, crashes>>
        PROVE  DownInv'
    BY <1>7 DEF HostStep, PositionTracked, PositionClosed, HostReconcile, dispatch, monitor, DownInv
  <1>8. CASE UNCHANGED vars
    BY <1>8 DEF vars, dispatch, monitor, DownInv
  <1>9. QED
    BY <1>1, <1>3, <1>4, <1>5, <1>6, <1>7, <1>8 DEF Next

\* What moves an attempt: only its own step, or a crash that ends it.
LEMMA WhoMoves ==
    ASSUME TypeOK, AttemptInv, [Next]_vars, NEW b \in Attempts,
           ~((Start(b) \/ AttemptStep(b)) /\ UNCHANGED <<monitor, crashes>>)
    PROVE  pc'[b] \in {pc[b], "done"} /\ (when'[b] = when[b])
  <1>1. CASE Crash
    BY <1>1 DEF Crash, TypeOK, DispatchTypeOK
  <1>2. ASSUME NEW a \in Attempts, a # b, Start(a) \/ AttemptStep(a)
        PROVE  pc'[b] = pc[b] /\ when'[b] = when[b]
    <2>1. pc'[b] = pc[b]
      BY <1>2, AuthorKept
    <2>2. when'[b] = when[b]
      BY <1>2 DEF Start, AtNow, AttemptStep, AuthorizeCheck, PreTradeCheck, Gates,
             AppendAuthorized, BrokerCheck, OrderChecked, AppendChecked, AuthorizeSend, SendPreTrade,
             Reserve, AppendSent, AdapterPreflight, OrderSend, BrokerAck, AppendAck, Halt, MarkUnknown,
             TypeOK, DispatchTypeOK
    <2>3. QED
      BY <2>1, <2>2
  <1>3. ASSUME NEW t \in Tickets, HostStep(t)
        PROVE  pc'[b] = pc[b] /\ when'[b] = when[b]
    BY <1>3 DEF HostStep, PositionTracked, PositionClosed, HostReconcile, dispatch
  <1>4. QED
    BY <1>1, <1>2, <1>3 DEF Next, vars, dispatch

\* Who changes a claim: the attempt that reserves it, or a marker on a bare send claim.
LEMMA ClaimStep ==
    ASSUME TypeOK, [Next]_vars, NEW t \in Tickets, claim'[t] # claim[t]
    PROVE  \/ claim[t] = {"SENDING"}
           \/ \E a \in Attempts : Reserve(a) /\ tkt[a] = t /\ UNCHANGED <<monitor, crashes>>
  <1> USE DEF TypeOK, StoreTypeOK
  <1>1. CASE UNCHANGED claim
    BY <1>1
  <1>2. ASSUME NEW u, UnknownRecorded(u) \/ ClaimReconciled(u)
        PROVE  claim[t] = {"SENDING"}
    BY <1>2 DEF UnknownRecorded, ClaimReconciled
  <1>3. ASSUME NEW a \in Attempts, Reserve(a)
        PROVE  tkt[a] = t
    BY <1>3 DEF Reserve, Reserved
  <1>4. ASSUME NEW a \in Attempts, Start(a) \/ AttemptStep(a)
        PROVE  Reserve(a) \/ UnknownRecorded(tkt[a]) \/ UNCHANGED claim
    BY <1>4 DEF Start, AttemptStep, AuthorizeCheck, PreTradeCheck, Gates,
             AppendAuthorized, BrokerCheck, OrderChecked, AppendChecked, AuthorizeSend, SendPreTrade,
             AppendSent, AdapterPreflight, OrderSend, BrokerAck, AppendAck, Halt, MarkUnknown, Local, store
  <1>5. ASSUME NEW u \in Tickets, HostStep(u)
        PROVE  ClaimReconciled(u) \/ UNCHANGED claim
    BY <1>5 DEF HostStep, PositionTracked, PositionClosed, HostReconcile
  <1>6. CASE MonitorStep \/ RecoveryStep
    <2>1. UNCHANGED claim \/ \E u \in Tickets : UnknownRecorded(u)
      BY <1>6 DEF MonitorStep, CycleStart, CyclePositions, CycleHistory, CycleMark, CycleResolve, CycleEnd,
                  CycleTracked, CyclePending, CycleHalt, RecoveryStep, RecoveryDone, Recover, store,
                  MonitorTypeOK
    <2>2. QED
      BY <1>2, <2>1
  <1>7. CASE WorldNext \/ Crash \/ UNCHANGED vars
    BY <1>7 DEF WorldNext, Tick, OwnerClear, OwnerRevoke, BrokerExecute, BrokerClose, OwnerConfirm,
                store, vars, Crash
  <1>8. QED
    BY <1>2, <1>3, <1>4, <1>5, <1>6, <1>7 DEF Next

\* An attempt past its claim, on a started trail, does not come back before it.
LEMMA NeverBack ==
    ASSUME TypeOK, NEW a \in Attempts, Start(a) \/ AttemptStep(a), pc[a] \notin BeforeClaim,
           lc[tkt[a]] # "NONE"
    PROVE  pc'[a] \notin BeforeClaim
  <1>t. tkt[a] \in Tickets /\ lc[tkt[a]] \in TrailStates
    BY DEF TypeOK, DispatchTypeOK, StoreTypeOK
  <1> USE DEF Goto, TypeOK, DispatchTypeOK, BeforeClaim
  <1>1. CASE AppendAuthorized(a)
    <2>1. ~CanAppend(tkt[a], "AUTHORIZED", when[a])
      BY <1>t, Predecessors DEF CanAppend
    <2>2. QED
      BY <1>1, <2>1 DEF AppendAuthorized, GuardedAppend
  <1>2. CASE Start(a) \/ AuthorizeCheck(a) \/ PreTradeCheck(a) \/ Gates(a)
    BY <1>2 DEF Start, AuthorizeCheck, PreTradeCheck, Gates
  <1>3. CASE BrokerCheck(a) \/ OrderChecked(a) \/ AppendChecked(a) \/ AuthorizeSend(a) \/ SendPreTrade(a)
             \/ Reserve(a)
    BY <1>3 DEF BrokerCheck, OrderChecked, AppendChecked, AuthorizeSend, SendPreTrade, Reserve
  <1>4. CASE AppendSent(a) \/ AppendAck(a)
    BY <1>4 DEF AppendSent, AppendAck, GuardedAppend
  <1>5. CASE AdapterPreflight(a) \/ BrokerAck(a) \/ MarkUnknown(a)
    BY <1>5 DEF AdapterPreflight, BrokerAck, MarkUnknown
  <1>6. CASE OrderSend(a)
    BY <1>6 DEF OrderSend, Answers
  <1>7. CASE Halt(a)
    BY <1>7 DEF Halt
  <1>8. QED
    BY <1>1, <1>2, <1>3, <1>4, <1>5, <1>6, <1>7 DEF AttemptStep

\* A claim's attempt is past the claim.
LEMMA ClaimedKept ==
    ASSUME TypeOK, IInv, ClaimedInv, [Next]_vars
    PROVE  ClaimedInv'
  <1> SUFFICES ASSUME NEW t \in Tickets, claim'[t] # {}
               PROVE  lc'[t] # "NONE" /\ author'[t] \in Attempts /\ pc'[author'[t]] \notin BeforeClaim
    BY DEF ClaimedInv
  <1>1. AttemptInv /\ TrailInv /\ Grows /\ (lc[t] # "NONE" => author'[t] = author[t] /\ lc'[t] # "NONE")
    BY NextGrows DEF IInv, Grows
  <1>2. CASE claim[t] # {}
    <2> DEFINE a == author[t]
    <2>1. lc[t] # "NONE" /\ a \in Attempts /\ pc[a] \notin BeforeClaim
      BY <1>2 DEF ClaimedInv
    <2>2. tkt[a] = t
      BY <1>1, <2>1, StoreAssumption DEF TrailInv
    <2>3. pc'[a] \notin BeforeClaim
      <3>1. CASE Start(a) \/ AttemptStep(a)
        BY <2>1, <2>2, <3>1, NeverBack
      <3>2. CASE ~(Start(a) \/ AttemptStep(a))
        BY <1>1, <2>1, <3>2, WhoMoves DEF BeforeClaim
      <3>3. QED
        BY <3>1, <3>2
    <2>4. QED
      BY <1>1, <2>1, <2>3
  <1>3. CASE claim[t] = {}
    <2>1. PICK a \in Attempts : Reserve(a) /\ tkt[a] = t
      BY <1>3, ClaimStep
    <2>2. author[t] = a /\ lc[t] # "NONE"
      BY <1>1, <2>1 DEF AttemptInv, Backed, Reserve, Owning, PCs
    <2>3. pc'[a] \in {"append_sent", "done"}
      BY <2>1 DEF Reserve, Goto, TypeOK, DispatchTypeOK
    <2>4. QED
      BY <1>1, <2>2, <2>3 DEF BeforeClaim
  <1>4. QED
    BY <1>2, <1>3

\* An attempt about to claim or to write SENT read the clock after its CHECKED row.
LEMMA ReadKept ==
    ASSUME TypeOK, AttemptInv, TimeInv, PastInv, ReadInv, [Next]_vars
    PROVE  ReadInv'
  <1> DEFINE Near == {"send_pretrade", "reserve", "append_sent"}
  <1> SUFFICES ASSUME NEW b \in Attempts, pc'[b] \in Near
               PROVE  lc'[tkt'[b]] \notin {"NONE", "AUTHORIZED"} /\ at'[tkt'[b]]["CHECKED"] <= when'[b]
    BY DEF ReadInv
  <1> DEFINE u == tkt[b]
  <1>t. u \in Tickets /\ lc[u] \in TrailStates
    BY DEF TypeOK, DispatchTypeOK, StoreTypeOK
  <1>1. tkt'[b] = u /\ Extends
    BY NextGrows DEF Grows
  <1>2. ASSUME lc[u] \notin {"NONE", "AUTHORIZED"}
        PROVE  lc'[u] \notin {"NONE", "AUTHORIZED"} /\ at'[u]["CHECKED"] = at[u]["CHECKED"]
    <2>1. CASE UNCHANGED <<lc, at>>
      BY <1>2, <2>1
    <2>2. ASSUME NEW t \in Tickets, NEW s \in RowStates, NEW n \in Time, CanAppend(t, s, n), Recorded(t, s, n)
          PROVE  lc'[u] \notin {"NONE", "AUTHORIZED"} /\ at'[u]["CHECKED"] = at[u]["CHECKED"]
      <3>1. CASE u # t
        BY <1>2, <1>t, <2>2, <3>1, RowAdded
      <3>2. CASE u = t
        <4>1. s \in ALLOWED_NEXT[lc[u]] /\ lc'[u] = s
          BY <2>2, <3>2, RowAdded
        <4>2. s \notin {"NONE", "AUTHORIZED", "CHECKED"}
          BY <1>2, <1>t, <4>1, Predecessors DEF RowStates, LIFECYCLE_STATES
        <4>3. at'[u]["CHECKED"] = at[u]["CHECKED"]
          BY <1>t, <2>2, <3>2, <4>2, TimesTyped DEF Recorded, TypeOK, StoreTypeOK
        <4>4. QED
          BY <4>1, <4>2, <4>3
      <3>3. QED
        BY <3>1, <3>2
    <2>3. QED
      BY <1>1, <2>1, <2>2 DEF Extends
  <1>3. CASE Start(b) \/ AttemptStep(b)
    <2>1. AuthorizeSend(b) \/ SendPreTrade(b) \/ Reserve(b)
      BY <1>3 DEF Start, AttemptStep, AuthorizeCheck, PreTradeCheck, Gates, AppendAuthorized, BrokerCheck,
             OrderChecked, AppendChecked, AppendSent, AdapterPreflight, OrderSend, BrokerAck, AppendAck, Halt,
             MarkUnknown, GuardedAppend, Answers, Goto, TypeOK, DispatchTypeOK
    <2>2. CASE AuthorizeSend(b)
      <3>1. HasRow(u, "CHECKED") /\ UNCHANGED <<lc, at>> /\ when'[b] = clock
        BY <2>2 DEF AuthorizeSend, AtNow, Local, store, Goto, TypeOK, DispatchTypeOK
      <3>2. lc[u] # "NONE" /\ Rank["CHECKED"] <= Rank[lc[u]]
        BY <1>t, <3>1, TimesTyped DEF TimeInv
      <3>3. Rank["CHECKED"] = 2 /\ Rank["AUTHORIZED"] = 1
        BY DEF Rank, TrailStates, RowStates, LIFECYCLE_STATES
      <3>4. lc[u] \notin {"NONE", "AUTHORIZED"}
        BY <3>2, <3>3
      <3>5. at[u]["CHECKED"] <= clock
        BY <1>t, TimesTyped DEF PastInv
      <3>6. QED
        BY <1>1, <3>1, <3>4, <3>5
    <2>3. CASE SendPreTrade(b) \/ Reserve(b)
      <3>1. pc[b] \in Near /\ UNCHANGED <<lc, at>> /\ when'[b] = when[b]
        BY <2>3 DEF SendPreTrade, Reserve, Local, store
      <3>2. QED
        BY <1>1, <3>1 DEF ReadInv
    <2>4. QED
      BY <2>1, <2>2, <2>3
  <1>4. CASE ~(Start(b) \/ AttemptStep(b))
    <2>1. pc[b] \in Near /\ when'[b] = when[b]
      BY <1>4, WhoMoves
    <2>2. lc[u] \notin {"NONE", "AUTHORIZED"} /\ at[u]["CHECKED"] <= when[b]
      BY <2>1 DEF ReadInv
    <2>3. QED
      BY <1>1, <1>2, <2>1, <2>2
  <1>5. QED
    BY <1>3, <1>4

\* A claim over a CHECKED trail keeps its attempt until SENT is written, and recovery its halt.
LEMMA StrandedKept ==
    ASSUME TypeOK, IInv, StrandInv, [Next]_vars
    PROVE  StrandedInv'
  <1> SUFFICES ASSUME NEW t \in Tickets, ~WritesMayFail, lc'[t] = "CHECKED", "SENDING" \in claim'[t]
               PROVE  \/ ~up' /\ t \in todo'
                      \/ \E a \in Attempts : pc'[a] = "append_sent" /\ tkt'[a] = t
    BY DEF StrandedInv
  <1>1. AttemptInv /\ Extends /\ UNCHANGED tkt
    BY NextGrows DEF IInv, Grows
  <1>2. lc[t] \in TrailStates /\ claim[t] \in SUBSET ClaimKinds
    BY DEF TypeOK, StoreTypeOK
  <1>3. CASE "SENDING" \notin claim[t]
    <2>1. PICK a \in Attempts : Reserve(a) /\ tkt[a] = t
      BY <1>3, ClaimStep
    <2>2. pc'[a] = "append_sent"
      <3>1. claim' # claim
        BY <1>3
      <3>2. QED
        BY <2>1, <3>1 DEF Reserve, Goto, TypeOK, DispatchTypeOK
    <2>3. QED
      BY <1>1, <2>1, <2>2
  <1>4. ASSUME lc[t] # "CHECKED" PROVE claim[t] = {}
    <2>1. PICK a \in Attempts : AppendChecked(a) /\ tkt[a] = t
      <3>1. lc' # lc
        BY <1>4
      <3>2. ASSUME NEW a \in Attempts, AppendAuthorized(a) \/ AppendSent(a) \/ AppendAck(a) PROVE FALSE
        BY <1>4, <3>2 DEF AppendAuthorized, AppendSent, AppendAck, GuardedAppend, Recorded, TypeOK, StoreTypeOK
      <3>3. ASSUME NEW a \in Attempts, Halt(a) PROVE FALSE
        BY <1>4, <3>3 DEF Halt, HaltRecorded, HaltNotRecorded, Recorded, TypeOK, StoreTypeOK
      <3>4. ASSUME NEW a \in Attempts, Start(a) \/ AttemptStep(a) PROVE AppendChecked(a)
        BY <3>1, <3>2, <3>3, <3>4
           DEF Start, AttemptStep, AuthorizeCheck, PreTradeCheck, Gates, BrokerCheck, OrderChecked,
               AuthorizeSend, SendPreTrade, Reserve, AdapterPreflight, OrderSend, BrokerAck, MarkUnknown,
               Local, store
      <3>5. ASSUME NEW u \in Tickets, HostStep(u) PROVE FALSE
        BY <1>4, <3>5 DEF HostStep, PositionTracked, PositionClosed, HostReconcile, ReconcileRecorded, Recorded,
                          TypeOK, StoreTypeOK
      <3>6. CASE MonitorStep
        BY <1>4, <3>1, <3>6 DEF MonitorStep, CycleStart, CyclePositions, CycleHistory, CycleMark, CycleResolve,
               CycleEnd, CycleTracked, CyclePending, CycleHalt, HaltRecorded, HaltNotRecorded,
               ReconcileRecorded, ReconcileNotRecorded, Recorded, store, TypeOK, StoreTypeOK
      <3>7. CASE RecoveryStep
        BY <1>4, <3>1, <3>7 DEF RecoveryStep, RecoveryDone, Recover, HaltRecorded, HaltNotRecorded, Recorded,
               store, TypeOK, StoreTypeOK
      <3>8. CASE WorldNext \/ Crash \/ UNCHANGED vars
        BY <3>1, <3>8 DEF WorldNext, Tick, OwnerClear, OwnerRevoke, BrokerExecute, BrokerClose, OwnerConfirm,
               store, vars, Crash
      <3>9. PICK a \in Attempts : AppendChecked(a)
        BY <3>4, <3>5, <3>6, <3>7, <3>8 DEF Next
      <3>10. QED
        BY <1>4, <3>9 DEF AppendChecked, GuardedAppend, Recorded, TypeOK, StoreTypeOK
    <2>2. author[t] = a /\ pc[a] \in BeforeClaim
      BY <1>1, <2>1 DEF AppendChecked, AttemptInv, Backed, Owning, PCs, BeforeClaim
    <2>3. QED
      BY <2>2 DEF StrandInv, ClaimedInv
  <1>5. CASE lc[t] = "CHECKED" /\ "SENDING" \in claim[t]
    <2>1. CASE ~up /\ t \in todo
      <3>1. mon = "idle" /\ \A a \in Attempts : pc[a] \in {"idle", "done"}
        BY <2>1 DEF StrandInv, DownInv
      <3>2. CASE Crash
        BY <3>2 DEF Crash, MonitorCrash
      <3>3. CASE Recover(t)
        <4>1. CanAppend(t, "HALT", clock)
          BY <1>5, Successors, TimesTyped DEF CanAppend, StrandInv, PastInv
        <4>2. lc'[t] = "HALT"
          BY <1>5, <3>3, <4>1 DEF Recover, HaltRecorded, HaltNotRecorded, Recorded, TypeOK, StoreTypeOK
        <4>3. QED
          BY <4>2
      <3>4. ASSUME NEW a \in Attempts, AttemptStep(a) PROVE FALSE
        BY <3>1, <3>4 DEF AttemptStep, AuthorizeCheck, PreTradeCheck, Gates,
             AppendAuthorized, BrokerCheck, OrderChecked, AppendChecked, AuthorizeSend, SendPreTrade,
             Reserve, AppendSent, AdapterPreflight, OrderSend, BrokerAck, AppendAck, Halt, MarkUnknown
      <3>5. ASSUME MonitorStep PROVE FALSE
        BY <2>1, <3>1, <3>5 DEF MonitorStep, CycleStart, CyclePositions, CycleHistory, CycleMark, CycleResolve,
             CycleEnd, CycleTracked, CyclePending, CycleHalt
      <3>6. ASSUME NEW w \in Tickets, w # t, Recover(w) PROVE ~up' /\ t \in todo'
        BY <2>1, <3>6 DEF Recover
      <3>7. ASSUME RecoveryDone PROVE FALSE
        BY <2>1, <3>7 DEF RecoveryDone
      <3>8. QED
        BY <2>1, <3>2, <3>3, <3>4, <3>5, <3>6, <3>7 DEF Next, vars, monitor, RecoveryStep
    <2>2. ASSUME NEW a \in Attempts, pc[a] = "append_sent", tkt[a] = t
          PROVE  (~up' /\ t \in todo') \/ pc'[a] = "append_sent"
      <3>1. CASE Crash
        BY <3>1 DEF Crash, MonitorCrash
      <3>2. CASE Start(a) \/ AttemptStep(a)
        <4>1. AppendSent(a)
          BY <2>2, <3>2 DEF Start, AttemptStep, AuthorizeCheck, PreTradeCheck, Gates,
             AppendAuthorized, BrokerCheck, OrderChecked, AppendChecked, AuthorizeSend, SendPreTrade,
             Reserve, AdapterPreflight, OrderSend, BrokerAck, AppendAck, Halt, MarkUnknown
        <4>2. CanAppend(t, "SENT", when[a])
          BY <1>5, <2>2, Successors, TimesTyped DEF CanAppend, StrandInv, ReadInv
        <4>3. lc'[t] = "SENT"
          BY <2>2, <4>1, <4>2 DEF AppendSent, GuardedAppend, Recorded, TypeOK, StoreTypeOK
        <4>4. QED
          BY <4>3
      <3>3. CASE ~Crash /\ ~(Start(a) \/ AttemptStep(a))
        <4>1. ASSUME NEW b \in Attempts, b # a, Start(b) \/ AttemptStep(b) PROVE pc'[a] = pc[a]
          BY <1>1, <4>1, AuthorKept
        <4>2. ASSUME NEW u \in Tickets, HostStep(u) PROVE pc'[a] = pc[a]
          BY <4>2 DEF HostStep, PositionTracked, PositionClosed, HostReconcile, dispatch
        <4>3. QED
          BY <2>2, <3>3, <4>1, <4>2 DEF Next, vars, dispatch
      <3>4. QED
        BY <3>1, <3>2, <3>3
    <2>3. QED
      BY <1>1, <1>5, <2>1, <2>2 DEF StrandInv, StrandedInv
  <1>6. QED
    BY <1>3, <1>4, <1>5

\* The invariant behind the claims holds initially and through every step.
LEMMA StrandKept ==
    ASSUME TypeOK, IInv, TimeInv, StrandInv, [Next]_vars
    PROVE  StrandInv'
  <1>1. AttemptInv /\ ClaimedInv /\ PastInv /\ ReadInv /\ DownInv
    BY DEF IInv, StrandInv
  <1>2. QED
    BY <1>1, ClaimedKept, PastKept, ReadKept, DownKept, StrandedKept DEF StrandInv

LEMMA StrandInit ==
    ASSUME Init
    PROVE  StrandInv
  <1>1. ClaimedInv /\ StrandedInv
    BY DEF Init, StoreInit, ClaimedInv, StrandedInv
  <1>2. PastInv
    BY DEF Init, StoreInit, WorldInit, DispatchInit, MonitorInit, PastInv, NoTime
  <1>3. ReadInv /\ DownInv
    BY DEF Init, DispatchInit, MonitorInit, ReadInv, DownInv
  <1>4. QED
    BY <1>1, <1>2, <1>3 DEF StrandInv

\* A crash between the claim and the SENT row strands nothing, as long as writes do not fail: the
\* trail is halted by recovery before anything is started (authorize_order_send,
\* recover_after_restart).
THEOREM ClaimNotStranded == Spec => []NoStrandedClaim
  <1>1. StrandInv => NoStrandedClaim
    BY DEF StrandInv, StrandedInv, NoStrandedClaim
  <1>2. QED
    BY <1>1, StrandInit, StrandKept, TrailTimes, TypeCorrect, Invariance, PTL DEF Spec
=============================================================================
