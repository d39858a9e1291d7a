------------------------- MODULE ManualDecision_proofs -------------------------
(***************************************************************************)
(* What ManualDecision promises for any tickets, taps, commands and host   *)
(* runs, any number of crashes and any clock.                              *)
(***************************************************************************)
EXTENDS ManualDecision, SequenceTheorems, TLAPS

LEMMA DayTyped ==
    ASSUME NEW t \in Nat
    PROVE  Day(t) \in Int
  BY DecisionAssumption DEF Day

LEMMA OneLine ==
    ASSUME NEW S, NEW s \in Seq(S), s # <<>>, Len(s) <= 1
    PROVE  s = <<Head(s)>> /\ Head(s) \in S
<1>0. Len(s) \in Nat \ {0}
  BY EmptySeq
<1>1. Len(s) = 1
  BY <1>0
<1> QED
  BY <1>1

\* The first line of a file.
LEMMA FirstLine ==
    ASSUME NEW S, NEW d \in S
    PROVE  /\ Append(<<>>, d) = <<d>> /\ <<d>> # <<>> /\ Len(<<d>>) = 1
           /\ <<d>> \in Seq(S)
  OBVIOUS

LEMMA TickKeeps ==
    ASSUME DecisionInv, Tick
    PROVE  DecisionInv'
<1>0. TypeOK
  BY DEF DecisionInv
<1>1. TypeOK'
  BY <1>0, DecisionAssumption
  DEF DecisionInv, TypeOK, Tick, host, Procs, PCs, Versions, DECISIONS, TapDecisions
<1>2. LockIsHeld' /\ AppendIsFirst' /\ ReplyIsLast'
  BY <1>0, DecisionAssumption
  DEF DecisionInv, TypeOK, Tick, host, LockIsHeld, AppendIsFirst, ReplyIsLast, Procs
<1>3. ExpiryIsUnderWay'
  BY <1>0, DecisionAssumption DEF DecisionInv, TypeOK, Tick, host, ExpiryIsUnderWay, Due, Procs
<1>4. ResolverIsCurrent'
  BY <1>0, DecisionAssumption DEF DecisionInv, TypeOK, Tick, host, ResolverIsCurrent, Procs, OnTicketDay
<1>5. OutcomeIsLate' /\ HostIsLate'
  BY <1>0, DecisionAssumption
  DEF DecisionInv, TypeOK, Tick, host, OutcomeIsLate, HostIsLate, Procs, OnTicketDay
<1>6. OneDecision' /\ ReplyIsTrue' /\ OutcomeCarriesDecision'
  BY <1>0, DecisionAssumption
  DEF DecisionInv, TypeOK, Tick, host, OneDecision, ReplyIsTrue, OutcomeCarriesDecision, Procs
<1> QED
  BY <1>1, <1>2, <1>3, <1>4, <1>5, <1>6 DEF DecisionInv

LEMMA HostStartKeeps ==
    ASSUME DecisionInv, HostStart
    PROVE  DecisionInv'
<1>0. TypeOK
  BY DEF DecisionInv
<1>1. TypeOK'
  BY <1>0, DecisionAssumption
  DEF DecisionInv, TypeOK, HostStart, Goto, Procs, PCs, Versions, DECISIONS, TapDecisions
<1>2. LockIsHeld' /\ AppendIsFirst' /\ ReplyIsLast'
  BY <1>0, DecisionAssumption
  DEF DecisionInv, TypeOK, HostStart, Goto, LockIsHeld, AppendIsFirst, ReplyIsLast, Procs
<1>3. ExpiryIsUnderWay'
  BY <1>0, DecisionAssumption DEF DecisionInv, TypeOK, HostStart, Goto, ExpiryIsUnderWay, Due, Procs
<1>4. ResolverIsCurrent'
  BY <1>0, DecisionAssumption DEF DecisionInv, TypeOK, HostStart, Goto, ResolverIsCurrent, Procs, OnTicketDay
<1>5. OutcomeIsLate' /\ HostIsLate'
  BY <1>0, DecisionAssumption
  DEF DecisionInv, TypeOK, HostStart, Goto, OutcomeIsLate, HostIsLate, Procs, OnTicketDay
<1>6. OneDecision' /\ ReplyIsTrue' /\ OutcomeCarriesDecision'
  BY <1>0, DecisionAssumption
  DEF DecisionInv, TypeOK, HostStart, Goto, OneDecision, ReplyIsTrue, OutcomeCarriesDecision, Procs
<1> QED
  BY <1>1, <1>2, <1>3, <1>4, <1>5, <1>6 DEF DecisionInv

LEMMA HostExpireKeeps ==
    ASSUME DecisionInv, HostExpire
    PROVE  DecisionInv'
<1>0. TypeOK
  BY DEF DecisionInv
<1>1. TypeOK'
  BY <1>0, DecisionAssumption
  DEF DecisionInv, TypeOK, HostExpire, Goto, Procs, PCs, Versions, DECISIONS, TapDecisions
<1>2. LockIsHeld' /\ AppendIsFirst' /\ ReplyIsLast'
  BY <1>0, DecisionAssumption
  DEF DecisionInv, TypeOK, HostExpire, Goto, LockIsHeld, AppendIsFirst, ReplyIsLast, Procs
<1>3. ExpiryIsUnderWay'
  BY <1>0 DEF DecisionInv, TypeOK, HostExpire, Goto, ExpiryIsUnderWay, Due, Expirable, Procs
<1>4. ResolverIsCurrent'
  BY <1>0, DecisionAssumption DEF DecisionInv, TypeOK, HostExpire, Goto, ResolverIsCurrent, Procs, OnTicketDay
<1>5. OutcomeIsLate' /\ HostIsLate'
  BY <1>0, DecisionAssumption
  DEF DecisionInv, TypeOK, HostExpire, Goto, OutcomeIsLate, HostIsLate, Procs, OnTicketDay
<1>6. OneDecision' /\ ReplyIsTrue' /\ OutcomeCarriesDecision'
  BY <1>0, DecisionAssumption
  DEF DecisionInv, TypeOK, HostExpire, Goto, OneDecision, ReplyIsTrue, OutcomeCarriesDecision, Procs
<1> QED
  BY <1>1, <1>2, <1>3, <1>4, <1>5, <1>6 DEF DecisionInv

LEMMA HostNextKeeps ==
    ASSUME DecisionInv, HostNext
    PROVE  DecisionInv'
<1>0. TypeOK
  BY DEF DecisionInv
<1>1. TypeOK'
  <2>1. ASSUME NEW label \in PCs PROVE [pc EXCEPT ![Host] = label] \in [Procs -> PCs]
    BY <1>0 DEF TypeOK, Procs
  <2>2. pc' \in [Procs -> PCs]
    BY <2>1 DEF HostNext, Goto, PCs
  <2> QED
    BY <1>0, <2>2 DEF TypeOK, HostNext, Procs, DECISIONS
<1>2. LockIsHeld' /\ AppendIsFirst' /\ ReplyIsLast'
  BY <1>0, DecisionAssumption
  DEF DecisionInv, TypeOK, HostNext, Goto, LockIsHeld, AppendIsFirst, ReplyIsLast, Procs
<1>3. ExpiryIsUnderWay'
  BY <1>0, DecisionAssumption DEF DecisionInv, TypeOK, HostNext, Goto, ExpiryIsUnderWay, Due, Procs
<1>4. ResolverIsCurrent'
  BY <1>0, DecisionAssumption DEF DecisionInv, TypeOK, HostNext, Goto, ResolverIsCurrent, Procs, OnTicketDay
<1>5. OutcomeIsLate' /\ HostIsLate'
  BY <1>0, DecisionAssumption
  DEF DecisionInv, TypeOK, HostNext, Goto, OutcomeIsLate, HostIsLate, Procs, OnTicketDay
<1>6. OneDecision' /\ ReplyIsTrue' /\ OutcomeCarriesDecision'
  BY <1>0, DecisionAssumption
  DEF DecisionInv, TypeOK, HostNext, Goto, OneDecision, ReplyIsTrue, OutcomeCarriesDecision, Procs
<1> QED
  BY <1>1, <1>2, <1>3, <1>4, <1>5, <1>6 DEF DecisionInv

LEMMA HostResolveKeeps ==
    ASSUME DecisionInv, HostResolve
    PROVE  DecisionInv'
<1>0. TypeOK
  BY DEF DecisionInv
<1>1. TypeOK'
  BY <1>0, DecisionAssumption
  DEF DecisionInv, TypeOK, HostResolve, Goto, Procs, PCs, Versions, DECISIONS, TapDecisions
<1>2. LockIsHeld' /\ AppendIsFirst' /\ ReplyIsLast'
  BY <1>0, DecisionAssumption
  DEF DecisionInv, TypeOK, HostResolve, Goto, LockIsHeld, AppendIsFirst, ReplyIsLast, Procs
<1>3. ExpiryIsUnderWay'
  BY <1>0, DecisionAssumption DEF DecisionInv, TypeOK, HostResolve, Goto, ExpiryIsUnderWay, Due, Procs
<1>4. ResolverIsCurrent'
  <2> SUFFICES ASSUME NEW t \in todo' PROVE
            /\ outcomes[t] = <<>> /\ ~OnTicketDay(now)
            /\ version[t] = "ready" => decisions[t] = <<known'[t]>>
    BY DEF ResolverIsCurrent, HostResolve
  <2>1. t \in Tickets /\ outcomes[t] = <<>> /\ ~OnTicketDay(now) /\ InLookBack(now)
    BY DEF HostResolve
  <2>2. version[t] = "ready" => Due(t)
    BY <1>0, <2>1, DecisionAssumption DEF TypeOK, Due, OnTicketDay
  <2>3. version[t] = "ready" => decisions[t] # <<>>
    BY <2>1, <2>2 DEF DecisionInv, ExpiryIsUnderWay, HostResolve
  <2>4. decisions[t] # <<>> => decisions[t] = <<Head(decisions[t])>>
    BY <1>0, <2>1, OneLine DEF TypeOK, DecisionInv, OneDecision
  <2>5. decisions[t] # <<>> => known'[t] = Head(decisions[t])
    BY <2>1 DEF HostResolve
  <2> QED
    BY <2>1, <2>3, <2>4, <2>5
<1>5. OutcomeIsLate' /\ HostIsLate'
  BY <1>0, DecisionAssumption
  DEF DecisionInv, TypeOK, HostResolve, Goto, OutcomeIsLate, HostIsLate, Procs, OnTicketDay
<1>6. OneDecision' /\ ReplyIsTrue' /\ OutcomeCarriesDecision'
  BY <1>0, DecisionAssumption
  DEF DecisionInv, TypeOK, HostResolve, Goto, OneDecision, ReplyIsTrue, OutcomeCarriesDecision, Procs
<1> QED
  BY <1>1, <1>2, <1>3, <1>4, <1>5, <1>6 DEF DecisionInv

LEMMA HostOutcomeKeeps ==
    ASSUME DecisionInv, HostOutcome
    PROVE  DecisionInv'
<1>0. TypeOK
  BY DEF DecisionInv
<1> DEFINE HostTakes(t) ==
             /\ todo' = todo \ {t}
             /\ \/ /\ outcomes' = [outcomes EXCEPT ![t] = Append(@, known[t])]
                   /\ ticket' = [ticket EXCEPT ![Host] = t]
                   /\ pc' = [pc EXCEPT ![Host] = "mirror"]
                \/ UNCHANGED <<outcomes, ticket, pc>>
             /\ UNCHANGED resolved
           HostMarks == /\ resolved' = resolved \cup {Day(now)}
                        /\ Goto(Host, "scan") /\ todo' = {}
                        /\ UNCHANGED <<outcomes, ticket>>
<1>c. (\E t \in todo : HostTakes(t)) \/ HostMarks
  BY DEF HostOutcome, Goto
<1>r. /\ pc[Host] = "outcome"
      /\ UNCHANGED <<clock, decisions, lock, now, want, reply, crashes, version, shown, known, mirrored>>
  BY DEF HostOutcome
<1> HIDE DEF HostTakes, HostMarks
<1>1. TypeOK'
  <2>1. CASE \E t \in todo : HostTakes(t)
    <3>1. PICK t \in todo : HostTakes(t)
      BY <2>1
    <3>2. t \in Tickets /\ known[t] \in DECISIONS \cup {"none"}
      BY <1>0 DEF TypeOK
    <3>a. outcomes[t] \in Seq(DECISIONS \cup {"none"})
      BY <1>0, <3>2 DEF TypeOK
    <3>b. Append(outcomes[t], known[t]) \in Seq(DECISIONS \cup {"none"})
      BY <3>2, <3>a, AppendProperties
    <3>3. outcomes' \in [Tickets -> Seq(DECISIONS \cup {"none"})]
      BY <1>0, <3>1, <3>2, <3>b DEF TypeOK, HostTakes
    <3> QED
      BY <1>0, <1>r, <3>1, <3>2, <3>3 DEF TypeOK, HostTakes, Procs, PCs, Goto
  <2>2. CASE HostMarks
    <3>1. Day(now) \in Int
      BY <1>0, DayTyped, DecisionAssumption DEF TypeOK
    <3> QED
      BY <1>0, <1>r, <2>2, <3>1 DEF TypeOK, HostMarks, Procs, PCs, Goto
  <2> QED
    BY <1>c, <2>1, <2>2
<1>2. LockIsHeld' /\ AppendIsFirst' /\ ReplyIsLast'
  BY <1>0, DecisionAssumption
  DEF DecisionInv, TypeOK, HostOutcome, Goto, LockIsHeld, AppendIsFirst, ReplyIsLast, Procs
<1>3. ExpiryIsUnderWay'
  BY <1>0, DecisionAssumption DEF DecisionInv, TypeOK, HostOutcome, Goto, ExpiryIsUnderWay, Due, Procs
<1>4. ResolverIsCurrent'
  BY <1>0, DecisionAssumption
  DEF DecisionInv, TypeOK, HostOutcome, Goto, ResolverIsCurrent, Procs, OnTicketDay
<1>5. OutcomeIsLate' /\ HostIsLate'
  <2>1. now \in Nat /\ clock \in Nat /\ now <= clock
    BY <1>0, DecisionAssumption DEF TypeOK, DecisionInv, HostIsLate
  <2>2. CASE \E t \in todo : HostTakes(t)
    <3>1. PICK t \in todo : HostTakes(t)
      BY <2>2
    <3>2. t \in Tickets /\ ~OnTicketDay(now)
      BY <1>0, <1>r DEF TypeOK, DecisionInv, ResolverIsCurrent
    <3>3. ~OnTicketDay(clock)
      BY <2>1, <3>2, DecisionAssumption DEF OnTicketDay
    <3> QED
      BY <1>r, <2>1, <3>1, <3>2, <3>3 DEF DecisionInv, OutcomeIsLate, HostIsLate, HostTakes, OnTicketDay
  <2>3. CASE HostMarks
    BY <1>0, <1>r, <2>1, <2>3
    DEF TypeOK, DecisionInv, OutcomeIsLate, HostIsLate, HostMarks, OnTicketDay, Goto, Procs
  <2> QED
    BY <1>c, <2>2, <2>3
<1>6. OneDecision' /\ ReplyIsTrue' /\ OutcomeCarriesDecision'
  <2>1. CASE \E t \in todo : HostTakes(t)
    <3>1. PICK t \in todo : HostTakes(t)
      BY <2>1
    <3>2. t \in Tickets /\ outcomes[t] = <<>> /\ (version[t] = "ready" => decisions[t] = <<known[t]>>)
      BY <1>0, <1>r DEF TypeOK, DecisionInv, ResolverIsCurrent
    <3>3. outcomes' = outcomes \/ outcomes' = [outcomes EXCEPT ![t] = <<known[t]>>]
      BY <1>0, <3>1, <3>2 DEF HostTakes, TypeOK
    <3>4. OutcomeCarriesDecision'
      <4> SUFFICES ASSUME NEW u \in Tickets
                   PROVE  /\ Len(outcomes'[u]) <= 1
                          /\ version[u] = "ready" /\ outcomes'[u] # <<>> => outcomes'[u] = decisions[u]
        BY <1>r DEF OutcomeCarriesDecision
      <4>1. CASE outcomes'[u] = outcomes[u]
        BY <4>1 DEF DecisionInv, OutcomeCarriesDecision
      <4>2. CASE outcomes'[u] # outcomes[u]
        <5>1. u = t /\ outcomes'[u] = <<known[t]>>
          BY <1>0, <3>2, <3>3, <4>2 DEF TypeOK
        <5>2. Len(<<known[t]>>) = 1
          BY FirstLine
        <5> QED
          BY <3>2, <5>1, <5>2
      <4> QED
        BY <4>1, <4>2
    <3>5. \A q \in Taps : ticket'[q] = ticket[q]
      BY <1>0, <3>1, DecisionAssumption DEF HostTakes, TypeOK, Procs
    <3> QED
      BY <1>r, <3>4, <3>5 DEF DecisionInv, OneDecision, ReplyIsTrue
  <2>2. CASE HostMarks
    BY <1>r, <2>2 DEF DecisionInv, OneDecision, ReplyIsTrue, OutcomeCarriesDecision, HostMarks
  <2> QED
    BY <1>c, <2>1, <2>2
<1> QED
  BY <1>1, <1>2, <1>3, <1>4, <1>5, <1>6 DEF DecisionInv

LEMMA HostMirrorKeeps ==
    ASSUME DecisionInv, HostMirror
    PROVE  DecisionInv'
<1>0. TypeOK
  BY DEF DecisionInv
<1>1. TypeOK'
  BY <1>0, DecisionAssumption
  DEF DecisionInv, TypeOK, HostMirror, Goto, Procs, PCs, Versions, DECISIONS, TapDecisions
<1>2. LockIsHeld' /\ AppendIsFirst' /\ ReplyIsLast'
  BY <1>0, DecisionAssumption
  DEF DecisionInv, TypeOK, HostMirror, Goto, LockIsHeld, AppendIsFirst, ReplyIsLast, Procs
<1>3. ExpiryIsUnderWay'
  BY <1>0, DecisionAssumption DEF DecisionInv, TypeOK, HostMirror, Goto, ExpiryIsUnderWay, Due, Procs
<1>4. ResolverIsCurrent'
  BY <1>0, DecisionAssumption DEF DecisionInv, TypeOK, HostMirror, Goto, ResolverIsCurrent, Procs, OnTicketDay
<1>5. OutcomeIsLate' /\ HostIsLate'
  BY <1>0, DecisionAssumption
  DEF DecisionInv, TypeOK, HostMirror, Goto, OutcomeIsLate, HostIsLate, Procs, OnTicketDay
<1>6. OneDecision' /\ ReplyIsTrue' /\ OutcomeCarriesDecision'
  BY <1>0, DecisionAssumption
  DEF DecisionInv, TypeOK, HostMirror, Goto, OneDecision, ReplyIsTrue, OutcomeCarriesDecision, Procs
<1> QED
  BY <1>1, <1>2, <1>3, <1>4, <1>5, <1>6 DEF DecisionInv

LEMMA HostScanKeeps ==
    ASSUME DecisionInv, HostScan
    PROVE  DecisionInv'
<1>0. TypeOK
  BY DEF DecisionInv
<1>1. TypeOK'
  BY <1>0, DecisionAssumption DEF DecisionInv, TypeOK, HostScan, Procs, PCs, Versions, DECISIONS, TapDecisions
<1>2. LockIsHeld' /\ AppendIsFirst' /\ ReplyIsLast'
  BY <1>0, DecisionAssumption DEF DecisionInv, TypeOK, HostScan, LockIsHeld, AppendIsFirst, ReplyIsLast, Procs
<1>3. ExpiryIsUnderWay'
  BY <1>0, DecisionAssumption DEF DecisionInv, TypeOK, HostScan, ExpiryIsUnderWay, Due, Procs
<1>4. ResolverIsCurrent'
  BY <1>0, DecisionAssumption DEF DecisionInv, TypeOK, HostScan, ResolverIsCurrent, Procs, OnTicketDay
<1>5. OutcomeIsLate' /\ HostIsLate'
  BY <1>0, DecisionAssumption DEF DecisionInv, TypeOK, HostScan, OutcomeIsLate, HostIsLate, Procs, OnTicketDay
<1>6. OneDecision' /\ ReplyIsTrue' /\ OutcomeCarriesDecision'
  <2>1. \A t \in Tickets : version'[t] = "ready" => version[t] = "ready" \/ outcomes[t] = <<>>
    BY <1>0 DEF TypeOK, DecisionInv, OutcomeIsLate, HostScan
  <2> QED
    BY <2>1 DEF DecisionInv, HostScan, OneDecision, ReplyIsTrue, OutcomeCarriesDecision
<1> QED
  BY <1>1, <1>2, <1>3, <1>4, <1>5, <1>6 DEF DecisionInv

LEMMA HostDoneKeeps ==
    ASSUME DecisionInv, HostDone
    PROVE  DecisionInv'
<1>0. TypeOK
  BY DEF DecisionInv
<1>1. TypeOK'
  BY <1>0, DecisionAssumption
  DEF DecisionInv, TypeOK, HostDone, HostEnd, Goto, Procs, PCs, Versions, DECISIONS, TapDecisions
<1>2. LockIsHeld' /\ AppendIsFirst' /\ ReplyIsLast'
  BY <1>0, DecisionAssumption
  DEF DecisionInv, TypeOK, HostDone, HostEnd, Goto, LockIsHeld, AppendIsFirst, ReplyIsLast, Procs
<1>3. ExpiryIsUnderWay'
  BY <1>0, DecisionAssumption DEF DecisionInv, TypeOK, HostDone, HostEnd, Goto, ExpiryIsUnderWay, Due, Procs
<1>4. ResolverIsCurrent'
  BY <1>0, DecisionAssumption
  DEF DecisionInv, TypeOK, HostDone, HostEnd, Goto, ResolverIsCurrent, Procs, OnTicketDay
<1>5. OutcomeIsLate' /\ HostIsLate'
  BY <1>0, DecisionAssumption
  DEF DecisionInv, TypeOK, HostDone, HostEnd, Goto, OutcomeIsLate, HostIsLate, Procs, OnTicketDay
<1>6. OneDecision' /\ ReplyIsTrue' /\ OutcomeCarriesDecision'
  BY <1>0, DecisionAssumption
  DEF DecisionInv, TypeOK, HostDone, HostEnd, Goto, OneDecision, ReplyIsTrue, OutcomeCarriesDecision, Procs
<1> QED
  BY <1>1, <1>2, <1>3, <1>4, <1>5, <1>6 DEF DecisionInv

LEMMA HostCrashKeeps ==
    ASSUME DecisionInv, HostCrash
    PROVE  DecisionInv'
<1>0. TypeOK
  BY DEF DecisionInv
<1>1. TypeOK'
  BY <1>0, DecisionAssumption
  DEF DecisionInv, TypeOK, HostCrash, HostEnd, Goto, Procs, PCs, Versions, DECISIONS, TapDecisions
<1>2. LockIsHeld' /\ AppendIsFirst' /\ ReplyIsLast'
  BY <1>0, DecisionAssumption
  DEF DecisionInv, TypeOK, HostCrash, HostEnd, Goto, LockIsHeld, AppendIsFirst, ReplyIsLast, Procs
<1>3. ExpiryIsUnderWay'
  BY <1>0, DecisionAssumption DEF DecisionInv, TypeOK, HostCrash, HostEnd, Goto, ExpiryIsUnderWay, Due, Procs
<1>4. ResolverIsCurrent'
  BY <1>0, DecisionAssumption
  DEF DecisionInv, TypeOK, HostCrash, HostEnd, Goto, ResolverIsCurrent, Procs, OnTicketDay
<1>5. OutcomeIsLate' /\ HostIsLate'
  BY <1>0, DecisionAssumption
  DEF DecisionInv, TypeOK, HostCrash, HostEnd, Goto, OutcomeIsLate, HostIsLate, Procs, OnTicketDay
<1>6. OneDecision' /\ ReplyIsTrue' /\ OutcomeCarriesDecision'
  BY <1>0, DecisionAssumption
  DEF DecisionInv, TypeOK, HostCrash, HostEnd, Goto, OneDecision, ReplyIsTrue, OutcomeCarriesDecision, Procs
<1> QED
  BY <1>1, <1>2, <1>3, <1>4, <1>5, <1>6 DEF DecisionInv

LEMMA RecordLockKeeps ==
    ASSUME DecisionInv, NEW p \in Procs, RecordLock(p)
    PROVE  DecisionInv'
<1>0. TypeOK
  BY DEF DecisionInv
<1>1. TypeOK'
  BY <1>0, DecisionAssumption
  DEF DecisionInv, TypeOK, RecordLock, Goto, host, Procs, PCs, Versions, DECISIONS, TapDecisions
<1>2. LockIsHeld' /\ AppendIsFirst' /\ ReplyIsLast'
  BY <1>0, DecisionAssumption
  DEF DecisionInv, TypeOK, RecordLock, Goto, host, LockIsHeld, AppendIsFirst, ReplyIsLast, Procs
<1>3. ExpiryIsUnderWay'
  BY <1>0, DecisionAssumption DEF DecisionInv, TypeOK, RecordLock, Goto, host, ExpiryIsUnderWay, Due, Procs
<1>4. ResolverIsCurrent'
  BY <1>0, DecisionAssumption
  DEF DecisionInv, TypeOK, RecordLock, Goto, host, ResolverIsCurrent, Procs, OnTicketDay
<1>5. OutcomeIsLate' /\ HostIsLate'
  BY <1>0, DecisionAssumption
  DEF DecisionInv, TypeOK, RecordLock, Goto, host, OutcomeIsLate, HostIsLate, Procs, OnTicketDay
<1>6. OneDecision' /\ ReplyIsTrue' /\ OutcomeCarriesDecision'
  BY <1>0, DecisionAssumption
  DEF DecisionInv, TypeOK, RecordLock, Goto, host, OneDecision, ReplyIsTrue, OutcomeCarriesDecision, Procs
<1> QED
  BY <1>1, <1>2, <1>3, <1>4, <1>5, <1>6 DEF DecisionInv

LEMMA RecordCheckKeeps ==
    ASSUME DecisionInv, NEW p \in Procs, RecordCheck(p)
    PROVE  DecisionInv'
<1>0. TypeOK
  BY DEF DecisionInv
<1>1. TypeOK'
  <2>1. pc' \in [Procs -> PCs]
    BY <1>0 DEF TypeOK, RecordCheck, Refused, HostEnd, Goto, Procs, PCs
  <2>2. now' \in 0..MaxTime /\ todo' \subseteq Tickets /\ known' \in [Tickets -> DECISIONS \cup {"none"}]
    BY <1>0, DecisionAssumption DEF TypeOK, RecordCheck, Refused, HostEnd
  <2> QED
    BY <1>0, <2>1, <2>2 DEF TypeOK, RecordCheck
<1>2. LockIsHeld' /\ AppendIsFirst' /\ ReplyIsLast'
  <2>1. CASE decisions[ticket[p]] = <<>> /\ Goto(p, "append") /\ UNCHANGED lock
    BY <1>0, <2>1, DecisionAssumption
    DEF DecisionInv, TypeOK, RecordCheck, Goto, LockIsHeld, AppendIsFirst, ReplyIsLast, Procs
  <2>2. CASE Refused(p) /\ lock' = "none"
    <3>1. pc' \in {[pc EXCEPT ![p] = label] : label \in {"idle", "reread", "done"}} /\ lock = p
      BY <1>0, <2>2 DEF DecisionInv, LockIsHeld, RecordCheck, Refused, HostEnd, Goto
    <3> QED
      BY <1>0, <2>2, <3>1, DecisionAssumption
      DEF DecisionInv, TypeOK, RecordCheck, LockIsHeld, AppendIsFirst, ReplyIsLast, Procs
  <2> QED
    BY <2>1, <2>2 DEF RecordCheck
<1>3. ExpiryIsUnderWay'
  BY <1>0, DecisionAssumption
  DEF DecisionInv, TypeOK, RecordCheck, Refused, HostEnd, Goto, ExpiryIsUnderWay, Due, Procs
<1>4. ResolverIsCurrent'
  BY <1>0, DecisionAssumption
  DEF DecisionInv, TypeOK, RecordCheck, Refused, HostEnd, Goto, ResolverIsCurrent, Procs, OnTicketDay
<1>5. OutcomeIsLate' /\ HostIsLate'
  BY <1>0, DecisionAssumption
  DEF DecisionInv, TypeOK, RecordCheck, Refused, HostEnd, Goto, OutcomeIsLate, HostIsLate, Procs, OnTicketDay
<1>6. OneDecision' /\ ReplyIsTrue' /\ OutcomeCarriesDecision'
  BY <1>0, DecisionAssumption
  DEF DecisionInv, TypeOK, RecordCheck, Refused, HostEnd, Goto, OneDecision, ReplyIsTrue,
      OutcomeCarriesDecision, Procs
<1> QED
  BY <1>1, <1>2, <1>3, <1>4, <1>5, <1>6 DEF DecisionInv

LEMMA RecordAppendKeeps ==
    ASSUME DecisionInv, NEW p \in Procs, RecordAppend(p)
    PROVE  DecisionInv'
<1>0. TypeOK
  BY DEF DecisionInv
<1>d. pc[p] = "append" /\ ticket[p] \in Tickets /\ decisions[ticket[p]] = <<>> /\ want[p] \in DECISIONS
  BY <1>0 DEF RecordAppend, DecisionInv, AppendIsFirst, TypeOK
<1>e. decisions' = [decisions EXCEPT ![ticket[p]] = <<want[p]>>]
  BY <1>0, <1>d, FirstLine DEF RecordAppend, TypeOK
<1>s. /\ \A t \in Tickets : t # ticket[p] => decisions'[t] = decisions[t]
      /\ \A t \in Tickets : decisions[t] # <<>> => decisions'[t] = decisions[t]
      /\ decisions'[ticket[p]] = <<want[p]>> /\ decisions'[ticket[p]] # <<>>
  BY <1>0, <1>d, <1>e, FirstLine DEF TypeOK
<1>1. TypeOK'
  BY <1>0, DecisionAssumption
  DEF DecisionInv, TypeOK, RecordAppend, Goto, host, Procs, PCs, Versions, DECISIONS, TapDecisions
<1>2. LockIsHeld' /\ AppendIsFirst' /\ ReplyIsLast'
  BY <1>0, DecisionAssumption
  DEF DecisionInv, TypeOK, RecordAppend, Goto, host, LockIsHeld, AppendIsFirst, ReplyIsLast, Procs
<1>3. ExpiryIsUnderWay'
  <2>1. CASE p = Host
    BY <1>0, <1>s, <2>1 DEF DecisionInv, TypeOK, RecordAppend, Goto, host, ExpiryIsUnderWay, Due, Procs
  <2>2. CASE p # Host
    BY <1>0, <1>s, <2>2 DEF DecisionInv, TypeOK, RecordAppend, Goto, host, ExpiryIsUnderWay, Due, Procs
  <2> QED
    BY <2>1, <2>2
<1>4. ResolverIsCurrent'
  <2>1. \A t \in Tickets, d \in DECISIONS \cup {"none"} : decisions[t] = <<d>> => decisions'[t] = <<d>>
    BY <1>s
  <2>2. pc'[Host] \in {"outcome", "mirror"} => pc[Host] \in {"outcome", "mirror"}
    BY <1>0 DEF TypeOK, RecordAppend, Goto, Procs
  <2> QED
    BY <1>0, <2>1, <2>2 DEF DecisionInv, TypeOK, ResolverIsCurrent, RecordAppend, host, OnTicketDay
<1>5. OutcomeIsLate' /\ HostIsLate'
  BY <1>0, DecisionAssumption
  DEF DecisionInv, TypeOK, RecordAppend, Goto, host, OutcomeIsLate, HostIsLate, Procs, OnTicketDay
<1>6. OneDecision' /\ ReplyIsTrue' /\ OutcomeCarriesDecision'
  <2>1. OneDecision'
    <3> SUFFICES ASSUME NEW t \in Tickets PROVE Len(decisions'[t]) <= 1
      BY DEF OneDecision
    <3>1. CASE t = ticket[p]
      <4>1. decisions'[t] = <<want[p]>>
        BY <1>s, <3>1
      <4>2. Len(<<want[p]>>) = 1
        BY <1>d, FirstLine
      <4> QED
        BY <4>1, <4>2
    <3>2. CASE t # ticket[p]
      BY <1>s, <3>2 DEF DecisionInv, OneDecision
    <3> QED
      BY <3>1, <3>2
  <2>2. OutcomeCarriesDecision'
    BY <1>0, <1>s DEF TypeOK, DecisionInv, OutcomeCarriesDecision, RecordAppend, host
  <2>3. ASSUME NEW q \in Taps, reply'[q] \in {"recorded", "already"}
        PROVE  \/ decisions'[ticket[q]] = <<want[q]>>
               \/ want[q] = "REFUSED" /\ decisions'[ticket[q]] = <<"ACCEPTED">>
    <3>1. CASE q = p
      BY <1>s, <3>1
    <3>2. CASE q # p
      <4>1. reply'[q] = reply[q] /\ ticket[q] \in Tickets
        BY <1>0, <3>2 DEF TypeOK, RecordAppend, Procs
      <4>2. \/ decisions[ticket[q]] = <<want[q]>>
            \/ want[q] = "REFUSED" /\ decisions[ticket[q]] = <<"ACCEPTED">>
        BY <2>3, <4>1 DEF DecisionInv, ReplyIsTrue
      <4>3. decisions[ticket[q]] # <<>>
        BY <4>2, FirstLine
      <4> QED
        BY <1>s, <4>1, <4>2, <4>3
    <3> QED
      BY <3>1, <3>2
  <2>4. ReplyIsTrue'
    BY <2>3 DEF ReplyIsTrue, RecordAppend
  <2> QED
    BY <2>1, <2>2, <2>4
<1> QED
  BY <1>1, <1>2, <1>3, <1>4, <1>5, <1>6 DEF DecisionInv

LEMMA TapBeginKeeps ==
    ASSUME DecisionInv, NEW p \in Taps, TapBegin(p)
    PROVE  DecisionInv'
<1>0. TypeOK
  BY DEF DecisionInv
<1>1. TypeOK'
  BY <1>0, DecisionAssumption
  DEF DecisionInv, TypeOK, TapBegin, Goto, host, Procs, PCs, Versions, DECISIONS, TapDecisions
<1>2. LockIsHeld' /\ AppendIsFirst' /\ ReplyIsLast'
  BY <1>0, DecisionAssumption
  DEF DecisionInv, TypeOK, TapBegin, Goto, host, LockIsHeld, AppendIsFirst, ReplyIsLast, Procs
<1>3. ExpiryIsUnderWay'
  BY <1>0, DecisionAssumption DEF DecisionInv, TypeOK, TapBegin, Goto, host, ExpiryIsUnderWay, Due, Procs
<1>4. ResolverIsCurrent'
  BY <1>0, DecisionAssumption
  DEF DecisionInv, TypeOK, TapBegin, Goto, host, ResolverIsCurrent, Procs, OnTicketDay
<1>5. OutcomeIsLate' /\ HostIsLate'
  BY <1>0, DecisionAssumption
  DEF DecisionInv, TypeOK, TapBegin, Goto, host, OutcomeIsLate, HostIsLate, Procs, OnTicketDay
<1>6. OneDecision' /\ ReplyIsTrue' /\ OutcomeCarriesDecision'
  <2>1. \A q \in Taps : reply[q] \in {"recorded", "already"} => ticket'[q] = ticket[q] /\ want'[q] = want[q]
    BY <1>0 DEF DecisionInv, ReplyIsLast, TypeOK, TapBegin, Procs
  <2> QED
    BY <2>1 DEF DecisionInv, TapBegin, host, OneDecision, ReplyIsTrue, OutcomeCarriesDecision
<1> QED
  BY <1>1, <1>2, <1>3, <1>4, <1>5, <1>6 DEF DecisionInv

LEMMA TapLookKeeps ==
    ASSUME DecisionInv, NEW p \in Taps, TapLook(p)
    PROVE  DecisionInv'
<1>0. TypeOK
  BY DEF DecisionInv
<1>1. TypeOK'
  BY <1>0, DecisionAssumption
  DEF DecisionInv, TypeOK, TapLook, Already, Goto, host, Procs, PCs, Versions, DECISIONS, TapDecisions
<1>2. LockIsHeld' /\ AppendIsFirst' /\ ReplyIsLast'
  BY <1>0, DecisionAssumption
  DEF DecisionInv, TypeOK, TapLook, Already, Goto, host, LockIsHeld, AppendIsFirst, ReplyIsLast, Procs
<1>3. ExpiryIsUnderWay'
  BY <1>0, DecisionAssumption
  DEF DecisionInv, TypeOK, TapLook, Already, Goto, host, ExpiryIsUnderWay, Due, Procs
<1>4. ResolverIsCurrent'
  BY <1>0, DecisionAssumption
  DEF DecisionInv, TypeOK, TapLook, Already, Goto, host, ResolverIsCurrent, Procs, OnTicketDay
<1>5. OutcomeIsLate' /\ HostIsLate'
  BY <1>0, DecisionAssumption
  DEF DecisionInv, TypeOK, TapLook, Already, Goto, host, OutcomeIsLate, HostIsLate, Procs, OnTicketDay
<1>6. OneDecision' /\ ReplyIsTrue' /\ OutcomeCarriesDecision'
  <2>1. decisions[ticket[p]] # <<>> => decisions[ticket[p]] = <<Head(decisions[ticket[p]])>>
    BY <1>0, OneLine DEF TypeOK, Procs, DecisionInv, OneDecision
  <2>2. ASSUME NEW q \in Taps, reply'[q] \in {"recorded", "already"}
        PROVE  \/ decisions[ticket[q]] = <<want[q]>>
               \/ want[q] = "REFUSED" /\ decisions[ticket[q]] = <<"ACCEPTED">>
    <3>1. CASE reply'[q] = reply[q]
      BY <2>2, <3>1 DEF DecisionInv, ReplyIsTrue
    <3>2. CASE reply'[q] # reply[q]
      <4>1. q = p /\ decisions[ticket[p]] # <<>> /\ Already(p) = "already"
        BY <1>0, <2>2, <3>2 DEF TypeOK, TapLook, Already
      <4> QED
        BY <2>1, <4>1 DEF Already
    <3> QED
      BY <3>1, <3>2
  <2> QED
    BY <2>2 DEF DecisionInv, TapLook, host, OneDecision, ReplyIsTrue, OutcomeCarriesDecision
<1> QED
  BY <1>1, <1>2, <1>3, <1>4, <1>5, <1>6 DEF DecisionInv

LEMMA TapRereadKeeps ==
    ASSUME DecisionInv, NEW p \in Taps, TapReread(p)
    PROVE  DecisionInv'
<1>0. TypeOK
  BY DEF DecisionInv
<1>1. TypeOK'
  BY <1>0, DecisionAssumption
  DEF DecisionInv, TypeOK, TapReread, Already, Goto, host, Procs, PCs, Versions, DECISIONS, TapDecisions
<1>2. LockIsHeld' /\ AppendIsFirst' /\ ReplyIsLast'
  BY <1>0, DecisionAssumption
  DEF DecisionInv, TypeOK, TapReread, Already, Goto, host, LockIsHeld, AppendIsFirst, ReplyIsLast, Procs
<1>3. ExpiryIsUnderWay'
  BY <1>0, DecisionAssumption
  DEF DecisionInv, TypeOK, TapReread, Already, Goto, host, ExpiryIsUnderWay, Due, Procs
<1>4. ResolverIsCurrent'
  BY <1>0, DecisionAssumption
  DEF DecisionInv, TypeOK, TapReread, Already, Goto, host, ResolverIsCurrent, Procs, OnTicketDay
<1>5. OutcomeIsLate' /\ HostIsLate'
  BY <1>0, DecisionAssumption
  DEF DecisionInv, TypeOK, TapReread, Already, Goto, host, OutcomeIsLate, HostIsLate, Procs, OnTicketDay
<1>6. OneDecision' /\ ReplyIsTrue' /\ OutcomeCarriesDecision'
  <2>1. decisions[ticket[p]] # <<>> => decisions[ticket[p]] = <<Head(decisions[ticket[p]])>>
    BY <1>0, OneLine DEF TypeOK, Procs, DecisionInv, OneDecision
  <2>2. ASSUME NEW q \in Taps, reply'[q] \in {"recorded", "already"}
        PROVE  \/ decisions[ticket[q]] = <<want[q]>>
               \/ want[q] = "REFUSED" /\ decisions[ticket[q]] = <<"ACCEPTED">>
    <3>1. CASE reply'[q] = reply[q]
      BY <2>2, <3>1 DEF DecisionInv, ReplyIsTrue
    <3>2. CASE reply'[q] # reply[q]
      <4>1. q = p /\ decisions[ticket[p]] # <<>> /\ Already(p) = "already"
        BY <1>0, <2>2, <3>2 DEF TypeOK, TapReread, Already
      <4> QED
        BY <2>1, <4>1 DEF Already
    <3> QED
      BY <3>1, <3>2
  <2> QED
    BY <2>2 DEF DecisionInv, TapReread, host, OneDecision, ReplyIsTrue, OutcomeCarriesDecision
<1> QED
  BY <1>1, <1>2, <1>3, <1>4, <1>5, <1>6 DEF DecisionInv

LEMMA CommandBeginKeeps ==
    ASSUME DecisionInv, NEW p \in Commands, CommandBegin(p)
    PROVE  DecisionInv'
<1>0. TypeOK
  BY DEF DecisionInv
<1>1. TypeOK'
  BY <1>0, DecisionAssumption
  DEF DecisionInv, TypeOK, CommandBegin, Goto, host, Procs, PCs, Versions, DECISIONS, TapDecisions
<1>2. LockIsHeld' /\ AppendIsFirst' /\ ReplyIsLast'
  BY <1>0, DecisionAssumption
  DEF DecisionInv, TypeOK, CommandBegin, Goto, host, LockIsHeld, AppendIsFirst, ReplyIsLast, Procs
<1>3. ExpiryIsUnderWay'
  BY <1>0, DecisionAssumption DEF DecisionInv, TypeOK, CommandBegin, Goto, host, ExpiryIsUnderWay, Due, Procs
<1>4. ResolverIsCurrent'
  BY <1>0, DecisionAssumption
  DEF DecisionInv, TypeOK, CommandBegin, Goto, host, ResolverIsCurrent, Procs, OnTicketDay
<1>5. OutcomeIsLate' /\ HostIsLate'
  BY <1>0, DecisionAssumption
  DEF DecisionInv, TypeOK, CommandBegin, Goto, host, OutcomeIsLate, HostIsLate, Procs, OnTicketDay
<1>6. OneDecision' /\ ReplyIsTrue' /\ OutcomeCarriesDecision'
  BY <1>0, DecisionAssumption
  DEF DecisionInv, TypeOK, CommandBegin, Goto, host, OneDecision, ReplyIsTrue, OutcomeCarriesDecision, Procs
<1> QED
  BY <1>1, <1>2, <1>3, <1>4, <1>5, <1>6 DEF DecisionInv

-----------------------------------------------------------------------------
(* The theorems *)

LEMMA InitHolds == Init => DecisionInv
<1> SUFFICES ASSUME Init PROVE DecisionInv
  OBVIOUS
<1>1. (CHOOSE t \in Tickets : TRUE) \in Tickets
  BY DecisionAssumption
<1>a. ticket \in [Procs -> Tickets]
  BY <1>1, Zenon DEF Init
<1>b. /\ clock = 0 /\ version = [t \in Tickets |-> "absent"] /\ shown = {} /\ decisions = [t \in Tickets |-> <<>>]
      /\ lock = "none" /\ pc = [p \in Procs |-> "idle"] /\ want = [p \in Procs |-> "EXPIRED"]
      /\ reply = [p \in Taps |-> "none"] /\ now = 0 /\ todo = {} /\ known = [t \in Tickets |-> "none"]
      /\ outcomes = [t \in Tickets |-> <<>>] /\ mirrored = {} /\ resolved = {} /\ crashes = 0
  BY Zenon DEF Init
<1>2. TypeOK
  BY <1>a, <1>b, DecisionAssumption DEF TypeOK, Versions, DECISIONS, TapDecisions, PCs, Procs
<1>3. LockIsHeld /\ AppendIsFirst /\ ReplyIsLast
  BY <1>b, DecisionAssumption DEF LockIsHeld, AppendIsFirst, ReplyIsLast, Procs
<1>4. ExpiryIsUnderWay /\ ResolverIsCurrent /\ OutcomeIsLate /\ HostIsLate
  BY <1>b DEF ExpiryIsUnderWay, ResolverIsCurrent, OutcomeIsLate, HostIsLate, Procs
<1>5. OneDecision /\ ReplyIsTrue /\ OutcomeCarriesDecision
  BY <1>b, EmptySeq DEF OneDecision, ReplyIsTrue, OutcomeCarriesDecision
<1> QED
  BY <1>2, <1>3, <1>4, <1>5 DEF DecisionInv

LEMMA StepKeeps ==
    ASSUME DecisionInv, [Next]_vars
    PROVE  DecisionInv'
<1>1. Host \in Procs /\ Taps \subseteq Procs /\ Commands \subseteq Procs
  BY DEF Procs
<1>2. ASSUME NEW p \in Procs, Record(p)
      PROVE  DecisionInv'
  BY <1>2, RecordLockKeeps, RecordCheckKeeps, RecordAppendKeeps DEF Record
<1>3. CASE Tick \/ HostStart \/ HostScan \/ HostCrash
  BY <1>3, TickKeeps, HostStartKeeps, HostScanKeeps, HostCrashKeeps
<1>4. CASE HostStep
  BY <1>1, <1>2, <1>4, HostExpireKeeps, HostNextKeeps, HostResolveKeeps, HostOutcomeKeeps, HostMirrorKeeps,
     HostDoneKeeps
  DEF HostStep
<1>5. ASSUME NEW p \in Taps, TapBegin(p) \/ TapStep(p)
      PROVE  DecisionInv'
  BY <1>1, <1>2, <1>5, TapBeginKeeps, TapLookKeeps, TapRereadKeeps DEF TapStep
<1>6. ASSUME NEW p \in Commands, CommandBegin(p) \/ Record(p)
      PROVE  DecisionInv'
  BY <1>1, <1>2, <1>6, CommandBeginKeeps
<1>7. CASE UNCHANGED vars
  BY <1>7 DEF vars, DecisionInv, TypeOK, LockIsHeld, AppendIsFirst, ReplyIsLast, ExpiryIsUnderWay, Due,
              ResolverIsCurrent, OutcomeIsLate, HostIsLate, OneDecision, ReplyIsTrue, OutcomeCarriesDecision
<1> QED
  BY <1>3, <1>4, <1>5, <1>6, <1>7 DEF Next

\* The inductive invariant holds in every state: whoever is about to append holds the decision lock
\* and read an undecided file, and the host resolves only what is decided (record_decision,
\* expire_undecided, resolve_day).
THEOREM DecisionInvariance == Spec => []DecisionInv
  BY InitHolds, StepKeeps, PTL DEF Spec

\* A ticket never gets a second decision, whoever races for it (record_decision, _decision_lock).
THEOREM DecidedOnce == Spec => []OneDecision
<1>1. DecisionInv => OneDecision
  BY DEF DecisionInv
<1> QED
  BY <1>1, DecisionInvariance, PTL

\* A tap that is told "recorded" or "already recorded" is told what the file says (handle_callback).
THEOREM ReplyTruth == Spec => []ReplyIsTrue
<1>1. DecisionInv => ReplyIsTrue
  BY DEF DecisionInv
<1> QED
  BY <1>1, DecisionInvariance, PTL

\* The outcome of a ready ticket is written once and carries its decision (resolve_day).
THEOREM OutcomeTruth == Spec => []OutcomeCarriesDecision
<1>1. DecisionInv => OutcomeCarriesDecision
  BY DEF DecisionInv
<1> QED
  BY <1>1, DecisionInvariance, PTL

=============================================================================
