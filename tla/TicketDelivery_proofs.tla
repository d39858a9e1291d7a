----------------------- MODULE TicketDelivery_proofs -----------------------
(***************************************************************************)
(* Proofs about the ticket delivery, for any number of calls and deaths,   *)
(* when calls overlap only once the ticket has a record.  The argument:    *)
(* the lock file admits one call at a time, an ambiguous record keeps it,  *)
(* and a record that may be claimed has no message yet.                    *)
(***************************************************************************)
EXTENDS TicketDelivery, TLAPS

IndInv == TypeOK /\ DeliveryInv

\* The answers of the provider, spelled out for the provers.
LEMMA AnswerShape ==
    ASSUME NEW a \in Answers
    PROVE  \/ a[1] = 1 /\ a[2] \in {"DELIVERED", "DELIVERY_AMBIGUOUS"}
           \/ a[1] = 0 /\ a[2] \in {"DELIVERY_FAILED_RETRYABLE", "DELIVERY_FAILED_TERMINAL",
                                   "DELIVERY_AMBIGUOUS"}
  BY DEF Answers

\* Initially there is no record, no lock and no message.
LEMMA InitIndInv == Init => IndInv
  <1> SUFFICES ASSUME Init PROVE IndInv
    OBVIOUS
  <1>1. TypeOK
    BY DeliveryAssumption DEF Init, TypeOK, PCs, Outcomes
  <1>2. DeliveryInv
    BY DEF Init, DeliveryInv, LockIsHeld, FirstIsAlone, InsideIsCurrent, OwnerIsCurrent,
       AmbiguousIsLocked, AbsentIsFresh, ClaimIsOwn, RecordIsTrue, AtMostOneMessage, Inside, Running,
       AUTOMATIC_TERMINAL_STATES, Claimable
  <1> QED BY <1>1, <1>2 DEF IndInv

\* Every step keeps the types.
LEMMA NextTypeOK == ASSUME IndInv, [Next]_vars PROVE TypeOK'
  <1> USE DeliveryAssumption DEF IndInv, TypeOK, PCs, Goto, Put
  <1>1. ASSUME NEW c \in Calls, Begin(c) \/ SkipGet(c) \/ RegisterGet(c) \/ ClaimGet(c) \/ MarkGet(c)
        PROVE  TypeOK'
    BY <1>1 DEF Begin, SkipGet, RegisterGet, ClaimGet, MarkGet
  <1>2. ASSUME NEW c \in Calls, SkipPut(c) \/ RegisterPut(c) PROVE TypeOK'
    BY <1>2 DEF SkipPut, RegisterPut, ALL_STATES, Claimable
  <1>3. ASSUME NEW c \in Calls, ClaimLock(c) \/ ClaimRecheck(c) \/ Unlock(c) \/ Die(c) PROVE TypeOK'
    BY <1>3 DEF ClaimLock, ClaimRecheck, Unlock, Die
  <1>4. ASSUME NEW c \in Calls, ClaimPut(c) PROVE TypeOK'
    BY <1>4 DEF ClaimPut, ALL_STATES
  <1>5. ASSUME NEW c \in Calls, Send(c) PROVE TypeOK'
    BY <1>5, AnswerShape DEF Send, Outcomes, AUTOMATIC_TERMINAL_STATES, RETRYABLE_STATES
  <1>6. ASSUME NEW c \in Calls, MarkPut(c) PROVE TypeOK'
    BY <1>6 DEF MarkPut, ALL_STATES
  <1>7. CASE Resolve
    BY <1>7 DEF Resolve, ResolveGet, ResolvePut, ResolveUnlock, ALL_STATES, Outcomes,
       AUTOMATIC_TERMINAL_STATES
  <1>8. CASE UNCHANGED vars
    BY <1>8 DEF vars
  <1> QED
    BY <1>1, <1>2, <1>3, <1>4, <1>5, <1>6, <1>7, <1>8 DEF Next, CallStep

\* Every step keeps the lock exclusive: one step per kind of action.
LEMMA NextLockIsHeld == ASSUME IndInv, [Next]_vars PROVE LockIsHeld'
  <1> USE DEF IndInv, TypeOK, DeliveryInv, LockIsHeld, Inside, Goto
  <1>1. ASSUME NEW c \in Calls,
               \/ Begin(c) \/ SkipGet(c) \/ RegisterGet(c) \/ ClaimGet(c)
               \/ SkipPut(c) \/ RegisterPut(c) \/ Die(c)
        PROVE  LockIsHeld'
    BY <1>1 DEF Begin, SkipGet, RegisterGet, ClaimGet, SkipPut, RegisterPut, Die
  <1>2. ASSUME NEW c \in Calls, ClaimRecheck(c) \/ ClaimPut(c) \/ Send(c) \/ MarkGet(c) \/ MarkPut(c)
        PROVE  LockIsHeld'
    BY <1>2 DEF ClaimRecheck, ClaimPut, Send, MarkGet, MarkPut
  <1>3. ASSUME NEW c \in Calls, ClaimLock(c) PROVE LockIsHeld'
    BY <1>3 DEF ClaimLock
  <1>4. ASSUME NEW c \in Calls, Unlock(c) PROVE LockIsHeld'
    BY <1>4 DEF Unlock
  <1>5. CASE Resolve
    BY <1>5 DEF Resolve, ResolveGet, ResolvePut, ResolveUnlock, InsideIsCurrent, AmbiguousIsLocked,
       AUTOMATIC_TERMINAL_STATES
  <1>6. CASE UNCHANGED vars
    BY <1>6 DEF vars
  <1> QED
    BY <1>1, <1>2, <1>3, <1>4, <1>5, <1>6 DEF Next, CallStep

\* Where calls overlap only after the first record, only a call that is alone creates one.
LEMMA NextFirstIsAlone ==
    ASSUME FirstCycleAlone, IndInv, [Next]_vars
    PROVE  FirstIsAlone' /\ AbsentIsFresh'
  <1> USE DEF IndInv, TypeOK, DeliveryInv, FirstIsAlone, AbsentIsFresh, Running, Inside, Goto, Put
  <1>1. ASSUME NEW c \in Calls, Begin(c) PROVE FirstIsAlone' /\ AbsentIsFresh'
    BY <1>1 DEF Begin
  <1>2. ASSUME NEW c \in Calls, SkipGet(c) \/ RegisterGet(c) \/ ClaimGet(c) \/ MarkGet(c) \/ Unlock(c)
        PROVE  FirstIsAlone' /\ AbsentIsFresh'
    BY <1>2 DEF SkipGet, RegisterGet, ClaimGet, MarkGet, Unlock, Claimable, RETRYABLE_STATES
  <1>3. ASSUME NEW c \in Calls, SkipPut(c) \/ RegisterPut(c)
        PROVE  FirstIsAlone' /\ AbsentIsFresh'
    BY <1>3 DEF SkipPut, RegisterPut
  <1>4. ASSUME NEW c \in Calls, ClaimLock(c) \/ ClaimRecheck(c) \/ Die(c)
        PROVE  FirstIsAlone' /\ AbsentIsFresh'
    BY <1>4 DEF ClaimLock, ClaimRecheck, Die
  <1>5. ASSUME NEW c \in Calls, ClaimPut(c) PROVE FirstIsAlone' /\ AbsentIsFresh'
    BY <1>5 DEF ClaimPut
  <1>6. ASSUME NEW c \in Calls, Send(c) PROVE FirstIsAlone' /\ AbsentIsFresh'
    BY <1>6 DEF Send
  <1>7. ASSUME NEW c \in Calls, MarkPut(c) PROVE FirstIsAlone' /\ AbsentIsFresh'
    BY <1>7 DEF MarkPut, Outcomes, AUTOMATIC_TERMINAL_STATES, RETRYABLE_STATES
  <1>8. CASE Resolve
    BY <1>8 DEF Resolve, ResolveGet, ResolvePut, ResolveUnlock, OwnerIsCurrent, AUTOMATIC_TERMINAL_STATES
  <1>9. CASE UNCHANGED vars
    BY <1>9 DEF vars
  <1> QED
    BY <1>1, <1>2, <1>3, <1>4, <1>5, <1>6, <1>7, <1>8, <1>9 DEF Next, CallStep

\* The call inside the lock works on the current record, and so does the owner.
LEMMA NextCurrent ==
    ASSUME IndInv, [Next]_vars
    PROVE  InsideIsCurrent' /\ OwnerIsCurrent' /\ AmbiguousIsLocked' /\ ClaimIsOwn'
  <1> USE DEF IndInv, TypeOK, DeliveryInv, LockIsHeld, InsideIsCurrent, OwnerIsCurrent,
         AmbiguousIsLocked, ClaimIsOwn, Inside, Goto, Put
  <1> DEFINE Goal == InsideIsCurrent' /\ OwnerIsCurrent' /\ AmbiguousIsLocked' /\ ClaimIsOwn'
  <1>1. ASSUME NEW c \in Calls, Begin(c) \/ SkipGet(c) \/ RegisterGet(c) \/ ClaimGet(c) \/ Die(c) PROVE Goal
    BY <1>1 DEF Begin, SkipGet, RegisterGet, ClaimGet, Die
  <1>2. ASSUME NEW c \in Calls, SkipPut(c) \/ RegisterPut(c) PROVE Goal
    BY <1>2 DEF SkipPut, RegisterPut, FirstIsAlone, AUTOMATIC_TERMINAL_STATES
  <1>3. ASSUME NEW c \in Calls, ClaimLock(c) PROVE Goal
    BY <1>3 DEF ClaimLock
  <1>4. ASSUME NEW c \in Calls, ClaimRecheck(c) PROVE Goal
    BY <1>4 DEF ClaimRecheck
  <1>5. ASSUME NEW c \in Calls, ClaimPut(c) PROVE Goal
    BY <1>5 DEF ClaimPut, RecordIsTrue, Claimable, RETRYABLE_STATES, AUTOMATIC_TERMINAL_STATES
  <1>6. ASSUME NEW c \in Calls, Send(c) PROVE Goal
    BY <1>6, AnswerShape DEF Send, AUTOMATIC_TERMINAL_STATES
  <1>7. ASSUME NEW c \in Calls, MarkGet(c) PROVE Goal
    BY <1>7 DEF MarkGet
  <1>8. ASSUME NEW c \in Calls, MarkPut(c) PROVE Goal
    BY <1>8 DEF MarkPut, KeepsLock, AUTOMATIC_TERMINAL_STATES
  <1>9. ASSUME NEW c \in Calls, Unlock(c) PROVE Goal
    BY <1>9 DEF Unlock
  <1>10. CASE Resolve
    BY <1>10 DEF Resolve, ResolveGet, ResolvePut, ResolveUnlock, AUTOMATIC_TERMINAL_STATES
  <1>11. CASE UNCHANGED vars
    BY <1>11 DEF vars
  <1> QED
    BY <1>1, <1>2, <1>3, <1>4, <1>5, <1>6, <1>7, <1>8, <1>9, <1>10, <1>11 DEF Next, CallStep

\* What the record says of the chat stays true, and the chat shows the message once.
LEMMA NextRecordIsTrue == ASSUME IndInv, [Next]_vars PROVE RecordIsTrue' /\ AtMostOneMessage'
  <1> USE DEF IndInv, TypeOK, DeliveryInv, RecordIsTrue, AtMostOneMessage, Put
  <1>1. ASSUME NEW c \in Calls, SkipPut(c) \/ RegisterPut(c) PROVE RecordIsTrue' /\ AtMostOneMessage'
    BY <1>1 DEF SkipPut, RegisterPut, FirstIsAlone, AbsentIsFresh
  <1>2. ASSUME NEW c \in Calls, ClaimPut(c) PROVE RecordIsTrue' /\ AtMostOneMessage'
    BY <1>2 DEF ClaimPut
  <1>3. ASSUME NEW c \in Calls, Send(c) PROVE RecordIsTrue' /\ AtMostOneMessage'
    BY <1>3, AnswerShape DEF Send, InsideIsCurrent, ClaimIsOwn
  <1>4. ASSUME NEW c \in Calls, MarkPut(c) PROVE RecordIsTrue' /\ AtMostOneMessage'
    BY <1>4 DEF MarkPut, InsideIsCurrent, Outcomes, AUTOMATIC_TERMINAL_STATES, RETRYABLE_STATES
  <1>5. CASE Resolve
    BY <1>5 DEF Resolve, ResolveGet, ResolvePut, ResolveUnlock, OwnerIsCurrent, AUTOMATIC_TERMINAL_STATES
  <1>6. CASE UNCHANGED <<state, chat>>
    BY <1>6
  <1> QED
    BY <1>1, <1>2, <1>3, <1>4, <1>5, <1>6
       DEF Next, CallStep, Begin, SkipGet, RegisterGet, ClaimGet, ClaimLock, ClaimRecheck, MarkGet,
           Unlock, Die, vars

\* The types and the invariant hold when the first cycle of a ticket runs alone.
THEOREM DeliveryInvariance == ASSUME FirstCycleAlone PROVE Spec => [](TypeOK /\ DeliveryInv)
  <1>1. IndInv /\ [Next]_vars => IndInv'
    BY NextTypeOK, NextLockIsHeld, NextFirstIsAlone, NextCurrent, NextRecordIsTrue
       DEF IndInv, DeliveryInv
  <1> QED BY InitIndInv, <1>1, PTL DEF Spec, IndInv

\* The ticket's message appears at most once, whatever calls race, fail, time out or die
\* (claim_for_delivery, mark_ambiguous).
THEOREM SentAtMostOnce == ASSUME FirstCycleAlone PROVE Spec => []AtMostOneMessage
  <1>1. TypeOK /\ DeliveryInv => AtMostOneMessage
    BY DEF DeliveryInv
  <1> QED BY <1>1, DeliveryInvariance, PTL

\* What the record says of the chat is true (mark_*, resolve_ambiguous_outcome).
THEOREM RecordTruth == ASSUME FirstCycleAlone PROVE Spec => []RecordIsTrue
  <1>1. TypeOK /\ DeliveryInv => RecordIsTrue
    BY DEF DeliveryInv
  <1> QED BY <1>1, DeliveryInvariance, PTL

\* A call between its claim and its mark finds in the record the attempt it claimed
\* (claim_for_delivery).
THEOREM OwnClaim == ASSUME FirstCycleAlone PROVE Spec => []ClaimIsOwn
  <1>1. TypeOK /\ DeliveryInv => ClaimIsOwn
    BY DEF DeliveryInv
  <1> QED BY <1>1, DeliveryInvariance, PTL

\* A settled record never changes and attempts are counted upwards (TicketDeliveryStore).
THEOREM SettledForGood == ASSUME FirstCycleAlone PROVE Spec => SettledStays
  <1> DEFINE Keeps == /\ state \in AUTOMATIC_TERMINAL_STATES \cup {"NOT_APPLICABLE"} => state' = state
                      /\ attempt' >= attempt
  <1>1. ASSUME IndInv, [Next]_vars PROVE Keeps
    <2> USE <1>1 DEF IndInv, TypeOK, DeliveryInv, AUTOMATIC_TERMINAL_STATES, Put
    <2>1. ASSUME NEW c \in Calls, SkipPut(c) \/ RegisterPut(c) PROVE Keeps
      BY <2>1 DEF SkipPut, RegisterPut, FirstIsAlone, AbsentIsFresh
    <2>2. ASSUME NEW c \in Calls, ClaimPut(c) PROVE Keeps
      BY <2>2 DEF ClaimPut, InsideIsCurrent, Claimable, RETRYABLE_STATES
    <2>3. ASSUME NEW c \in Calls, MarkPut(c) PROVE Keeps
      BY <2>3 DEF MarkPut, ClaimIsOwn
    <2>4. CASE Resolve
      BY <2>4 DEF Resolve, ResolveGet, ResolvePut, ResolveUnlock, OwnerIsCurrent
    <2>5. CASE UNCHANGED <<state, attempt>>
      BY <2>5
    <2> QED
      BY <2>1, <2>2, <2>3, <2>4, <2>5
         DEF Next, CallStep, Begin, SkipGet, RegisterGet, ClaimGet, ClaimLock, ClaimRecheck, Send,
             MarkGet, Unlock, Die, vars
  <1>2. IndInv /\ [Next]_vars =>
          [/\ state \in AUTOMATIC_TERMINAL_STATES \cup {"NOT_APPLICABLE"} => state' = state
           /\ attempt' >= attempt]_vars
    BY <1>1
  <1> QED BY <1>2, DeliveryInvariance, PTL DEF Spec, SettledStays, IndInv

\* A put that moves the record along the courier's steps is one of them.
LEMMA PutStep ==
    ASSUME NEW s, state' = s, chat' = chat,
           \/ state \in {"absent"} \cup Claimable /\ RecordOf[s] = RecordOf[state]
           \/ state \in {"absent"} \cup Claimable /\ s = "DELIVERY_CLAIMED"
           \/ state = "absent" /\ s = "NOT_APPLICABLE" /\ chat = 0
           \/ state = "DELIVERY_CLAIMED" /\ s = "DELIVERY_AMBIGUOUS"
           \/ state = "DELIVERY_CLAIMED" /\ s = "DELIVERY_FAILED_RETRYABLE" /\ chat = 0
           \/ /\ state \in {"DELIVERY_CLAIMED", "DELIVERY_AMBIGUOUS"}
              /\ \/ s = "DELIVERED" /\ chat = 1
                 \/ s = "DELIVERY_FAILED_TERMINAL" /\ chat = 0
    PROVE  [Promise!CourierNext]_<<[m \in {"ticket"} |-> RecordOf[state]], [m \in {"ticket"} |-> chat]>>
  <1> DEFINE t == "ticket"
             record == [m \in {"ticket"} |-> RecordOf[state]]
  <1>1. record' = [record EXCEPT ![t] = RecordOf[s]]
    OBVIOUS
  <1> USE DEF Claimable, RETRYABLE_STATES, RecordOf
  <1>2. CASE state \in {"absent"} \cup Claimable /\ RecordOf[s] = RecordOf[state]
    BY <1>2
  <1>3. CASE state \in {"absent"} \cup Claimable /\ s = "DELIVERY_CLAIMED"
    <2>1. Promise!Take(t)
      BY <1>3 DEF Promise!Take, Promise!Settled
    <2> QED BY <2>1 DEF Promise!CourierNext
  <1>4. CASE state = "DELIVERY_CLAIMED" /\ s = "DELIVERY_AMBIGUOUS"
    <2>1. Promise!Doubt({t})
      BY <1>4 DEF Promise!Doubt
    <2> QED BY <2>1 DEF Promise!CourierNext
  <1>5. CASE state = "DELIVERY_CLAIMED" /\ s = "DELIVERY_FAILED_RETRYABLE" /\ chat = 0
    <2>1. Promise!Retry(t)
      BY <1>5 DEF Promise!Retry, Promise!Settled
    <2> QED BY <2>1 DEF Promise!CourierNext
  <1>6. CASE state \in {"DELIVERY_CLAIMED", "DELIVERY_AMBIGUOUS"} /\ s = "DELIVERED" /\ chat = 1
    <2>1. Promise!Deliver(t)
      BY <1>6 DEF Promise!Deliver, Promise!Settled
    <2> QED BY <2>1 DEF Promise!CourierNext
  <1>7. CASE \/ state = "absent" /\ s = "NOT_APPLICABLE" /\ chat = 0
             \/ /\ state \in {"DELIVERY_CLAIMED", "DELIVERY_AMBIGUOUS"}
                /\ s = "DELIVERY_FAILED_TERMINAL" /\ chat = 0
    <2>1. Promise!Drop(t)
      BY <1>7 DEF Promise!Drop, Promise!Settled
    <2> QED BY <2>1 DEF Promise!CourierNext
  <1> QED BY <1>2, <1>3, <1>4, <1>5, <1>6, <1>7

\* The delivery store implements the courier, its lock file, its separate gets and puts and the
\* owner's resolution included (TicketDeliveryStore, resolve_ambiguous_outcome).
THEOREM DeliveryImplementsCourier == ASSUME FirstCycleAlone PROVE Spec => ImplementsCourier
  <1> DEFINE record == [m \in {"ticket"} |-> RecordOf[state]]
             shown == [m \in {"ticket"} |-> chat]
  <1>1. Init => Promise!CourierInit
    BY DEF Init, Promise!CourierInit, RecordOf
  <1>2. IndInv /\ [Next]_vars => [Promise!CourierNext]_<<record, shown>>
    <2> SUFFICES ASSUME IndInv, [Next]_vars PROVE [Promise!CourierNext]_<<record, shown>>
      OBVIOUS
    <2> USE DEF IndInv, DeliveryInv
    <2>1. ASSUME NEW c \in Calls, SkipPut(c) \/ RegisterPut(c) PROVE [Promise!CourierNext]_<<record, shown>>
      <3>1. /\ state = "absent" /\ chat = 0 /\ chat' = chat
            /\ state' \in {"NOT_APPLICABLE", "READY_TO_DELIVER"}
        BY <2>1 DEF SkipPut, RegisterPut, Put, FirstIsAlone, AbsentIsFresh
      <3> QED BY <3>1, PutStep DEF RecordOf
    <2>2. ASSUME NEW c \in Calls, ClaimPut(c) PROVE [Promise!CourierNext]_<<record, shown>>
      BY <2>2, PutStep DEF ClaimPut, Put, InsideIsCurrent
    <2>3. ASSUME NEW c \in Calls, MarkPut(c) PROVE [Promise!CourierNext]_<<record, shown>>
      <3>1. /\ state = "DELIVERY_CLAIMED" /\ state' = outcome[c] /\ chat' = chat
            /\ outcome[c] \in Outcomes
            /\ outcome[c] = "DELIVERED" => chat = 1
            /\ outcome[c] \in {"DELIVERY_FAILED_RETRYABLE", "DELIVERY_FAILED_TERMINAL"} => chat = 0
        BY <2>3 DEF MarkPut, Put, ClaimIsOwn, InsideIsCurrent, TypeOK
      <3> QED BY <3>1, PutStep DEF Outcomes, AUTOMATIC_TERMINAL_STATES, RETRYABLE_STATES
    <2>4. CASE ResolvePut
      <3>1. /\ state = "DELIVERY_AMBIGUOUS" /\ state' = owner /\ chat' = chat
            /\ owner \in AUTOMATIC_TERMINAL_STATES
            /\ owner = "DELIVERED" => chat = 1
            /\ owner = "DELIVERY_FAILED_TERMINAL" => chat = 0
        BY <2>4 DEF ResolvePut, Put, OwnerIsCurrent, AtMostOneMessage, TypeOK
      <3> QED BY <3>1, PutStep DEF AUTOMATIC_TERMINAL_STATES
    <2>5. ASSUME NEW c \in Calls, Send(c) PROVE [Promise!CourierNext]_<<record, shown>>
      <3>1. /\ state = "DELIVERY_CLAIMED" /\ chat = 0 /\ state' = state /\ chat' \in {0, 1}
        BY <2>5, AnswerShape DEF Send, ClaimIsOwn, InsideIsCurrent
      <3>2. CASE chat' = 0
        BY <3>1, <3>2
      <3>3. CASE chat' = 1
        <4>1. Promise!Show("ticket")
          BY <3>1, <3>3 DEF Promise!Show, RecordOf
        <4> QED BY <4>1 DEF Promise!CourierNext
      <3> QED BY <3>1, <3>2, <3>3
    <2>6. CASE UNCHANGED <<state, chat>>
      BY <2>6
    <2> QED
      BY <2>1, <2>2, <2>3, <2>4, <2>5, <2>6
         DEF Next, CallStep, Begin, SkipGet, RegisterGet, ClaimGet, ClaimLock, ClaimRecheck,
             MarkGet, Unlock, Die, Resolve, ResolveGet, ResolveUnlock, vars
  <1> QED BY <1>1, <1>2, DeliveryInvariance, PTL DEF Spec, ImplementsCourier, Promise!CourierSpec, IndInv
=============================================================================
