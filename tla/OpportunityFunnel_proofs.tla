------------------------ MODULE OpportunityFunnel_proofs ------------------------
(***************************************************************************)
(* What OpportunityFunnel promises for any pollers, modes, projections and *)
(* number of revisions.                                                    *)
(***************************************************************************)
EXTENDS OpportunityFunnel, SequenceTheorems, TLAPS

LEMMA StageTyped ==
    /\ \A s \in Stages : index(s) \in Int
    /\ "none" \notin Stages /\ "none" \notin FUNNEL_OUTCOMES
<1>1. ASSUME NEW s \in Stages
      PROVE  index(s) \in 1..7
  <2>1. \E i \in 1..7 : FUNNEL_STAGES[i] = s
    BY DEF Stages
  <2> QED
    BY <2>1 DEF index
<1>2. "none" \notin Stages
  BY DEF Stages, FUNNEL_STAGES
<1>3. "none" \notin FUNNEL_OUTCOMES
  BY DEF FUNNEL_OUTCOMES, TERMINAL_OUTCOMES
<1> QED
  BY <1>1, <1>2, <1>3

LEMMA AbsentIsNone == Absent \notin Candidate /\ ~Terminal(Absent)
  BY StageTyped DEF Absent, Candidate, Terminal, TERMINAL_OUTCOMES

\* A chain goes on: the transition that comes next makes it a chain to its candidate.
LEMMA ChainGoesOn ==
    ASSUME NEW h \in Seq(Transition), NEW b, Chain(h, b), NEW c \in Candidate, NEW t \in Transition,
           t.revision = Len(h), c.revision = t.revision + 1, t.to = <<c.stage, c.outcome>>,
           h = <<>> => t.from = <<"none", "none">>,
           h # <<>> => /\ t.from = <<b.stage, b.outcome>>
                       /\ t.from[2] \notin TERMINAL_OUTCOMES
                       /\ t.to[2] \in TERMINAL_OUTCOMES => index(t.to[1]) >= index(t.from[1])
    PROVE  Chain(Append(h, t), c)
<1> DEFINE g == Append(h, t)
<1>1. /\ g \in Seq(Transition) /\ g # <<>> /\ Len(g) = Len(h) + 1 /\ Len(h) \in Nat
      /\ \A j \in 1..Len(h) : g[j] = h[j]
      /\ g[Len(h) + 1] = t
  BY AppendProperties, LenProperties
<1>2. DOMAIN g = 1..Len(h) + 1 /\ DOMAIN h = 1..Len(h)
  BY <1>1, LenProperties
<1> HIDE DEF g
<1>3. c.revision = Len(g) /\ g[Len(g)].to = <<c.stage, c.outcome>>
  BY <1>1
<1>4. ASSUME NEW j \in DOMAIN g
      PROVE  /\ g[j].revision = j - 1
             /\ g[j].from = IF j = 1 THEN <<"none", "none">> ELSE g[j - 1].to
             /\ j > 1 => /\ g[j].from[2] \notin TERMINAL_OUTCOMES
                         /\ g[j].to[2] \in TERMINAL_OUTCOMES => index(g[j].to[1]) >= index(g[j].from[1])
  <2>1. CASE j \in 1..Len(h)
    <3>1. g[j] = h[j] /\ (j # 1 => g[j - 1] = h[j - 1])
      BY <1>1, <2>1
    <3> QED
      BY <1>2, <2>1, <3>1 DEF Chain
  <2>2. CASE j = Len(h) + 1
    <3>1. g[j] = t /\ t.revision = j - 1
      BY <1>1, <2>2
    <3>2. CASE h = <<>>
      <4>1. j = 1
        BY <2>2, <3>2
      <4> QED
        BY <3>1, <3>2, <4>1
    <3>3. CASE h # <<>>
      <4>1. Len(h) \in Nat \ {0}
        BY <3>3, EmptySeq
      <4>2. j # 1 /\ j - 1 \in 1..Len(h) /\ g[j - 1] = h[Len(h)]
        BY <1>1, <2>2, <4>1
      <4>3. h[Len(h)].to = <<b.stage, b.outcome>>
        BY <3>3 DEF Chain
      <4> QED
        BY <3>1, <3>3, <4>2, <4>3
    <3> QED
      BY <3>2, <3>3
  <2> QED
    BY <1>1, <1>2, <2>1, <2>2
<1> QED
  BY <1>1, <1>3, <1>4 DEF Chain, g

\* A poller whose place and locals are set, the others as they were.
LEMMA AtTyped ==
    ASSUME TypeOK, NEW p \in Pollers, NEW label \in {"idle", "persist", "put"},
           NEW c \in Candidate \cup {Absent}, NEW t \in Transition \cup {NoTransition},
           NEW r \in Seq(Transition), At(p, label, c, t, r)
    PROVE  /\ pc' \in [Pollers -> {"idle", "persist", "put"}]
           /\ cand' \in [Pollers -> Candidate \cup {Absent}]
           /\ trans' \in [Pollers -> Transition \cup {NoTransition}]
           /\ read' \in [Pollers -> Seq(Transition)]
           /\ pc'[p] = label /\ cand'[p] = c /\ trans'[p] = t /\ read'[p] = r
           /\ \A q \in Pollers : q # p => /\ pc'[q] = pc[q] /\ cand'[q] = cand[q]
                                         /\ trans'[q] = trans[q] /\ read'[q] = read[q]
  BY DEF At, TypeOK

\* The parts of the invariant that speak of every poller hold of the others, and of p when shown of it.
PollerInv(p) ==
    /\ pc[p] \in {"persist", "put"} =>
        LET c == cand[p]  t == trans[p] IN
        /\ c \in Candidate /\ t \in Transition
        /\ c.revision = t.revision + 1 /\ t.to = <<c.stage, c.outcome>>
        /\ IF t.revision = 0 THEN t.from = <<"none", "none">>
           ELSE /\ t.from[2] \notin TERMINAL_OUTCOMES
                /\ t.to[2] \in TERMINAL_OUTCOMES => index(t.to[1]) >= index(t.from[1])
    /\ pc[p] = "put" => Chain(Append(read[p], trans[p]), cand[p])

LEMMA InvParts ==
    FunnelInv <=> /\ TypeOK /\ StoreIsCounted /\ HistoryIsLinked
                  /\ \A p \in Pollers : PollerInv(p)
  BY DEF FunnelInv, PollerInv, PersistIsNext, PutIsLinked

LEMMA InvNext ==
    ASSUME TypeOK', StoreIsCounted', HistoryIsLinked', \A p \in Pollers : PollerInv(p)'
    PROVE  FunnelInv'
  BY DEF FunnelInv, PollerInv, PersistIsNext, PutIsLinked

LEMMA OtherKept ==
    ASSUME NEW q \in Pollers, PollerInv(q),
           pc'[q] = pc[q], cand'[q] = cand[q], trans'[q] = trans[q], read'[q] = read[q]
    PROVE  PollerInv(q)'
  BY DEF PollerInv

\* A step of p that leaves the store alone: only its own place is to be looked at.
LEMMA StoresKept ==
    ASSUME FunnelInv, NEW p \in Pollers, NEW label \in {"idle", "persist", "put"},
           NEW c \in Candidate \cup {Absent}, NEW t \in Transition \cup {NoTransition},
           NEW r \in Seq(Transition), At(p, label, c, t, r),
           UNCHANGED store, PollerInv(p)'
    PROVE  FunnelInv'
<1>1. TypeOK /\ StoreIsCounted /\ HistoryIsLinked /\ \A q \in Pollers : PollerInv(q)
  BY InvParts
<1>2. TypeOK'
  BY <1>1, AtTyped DEF TypeOK
<1>a. \A q \in Pollers : q # p => /\ pc'[q] = pc[q] /\ cand'[q] = cand[q]
                                  /\ trans'[q] = trans[q] /\ read'[q] = read[q]
  BY <1>1 DEF At, TypeOK
<1>3. \A q \in Pollers : q # p => PollerInv(q)'
  BY <1>1, <1>a, OtherKept
<1>4. StoreIsCounted' /\ HistoryIsLinked'
  BY <1>1 DEF StoreIsCounted, HistoryIsLinked
<1> QED
  BY <1>2, <1>3, <1>4, InvNext

LEMMA IdleKeeps ==
    ASSUME FunnelInv, NEW p \in Pollers, Idle(p), UNCHANGED store
    PROVE  FunnelInv'
<1>1. TypeOK /\ At(p, "idle", Absent, NoTransition, <<>>)
  BY DEF FunnelInv, Idle
<1>2. <<>> \in Seq(Transition)
  OBVIOUS
<1>3. PollerInv(p)'
  BY <1>1, <1>2, AtTyped DEF PollerInv
<1> QED
  BY <1>1, <1>2, <1>3, StoresKept

-----------------------------------------------------------------------------

LEMMA EvaluateKeeps ==
    ASSUME FunnelInv, NEW p \in Pollers, Evaluate(p)
    PROVE  FunnelInv'
<1> DEFINE previous == store.cand
<1>1. TypeOK /\ StoreIsCounted /\ previous \in Candidate \cup {Absent}
  BY AbsentIsNone DEF FunnelInv, TypeOK
<1>2. UNCHANGED store
  BY DEF Evaluate
<1>3. CASE UNCHANGED <<pc, cand, trans, read>>
  BY <1>2, <1>3 DEF FunnelInv, TypeOK, StoreIsCounted, PersistIsNext, PutIsLinked, HistoryIsLinked
<1>5. ASSUME ~Terminal(previous), NEW mode \in Modes, NEW stage \in Projected, NEW outcome \in Outcomes, NEW raw \in Raw,
             At(p, "persist",
                [stage |-> FinalStage(previous, stage, outcome), outcome |-> outcome,
                 revision |-> previous.revision + 1, raw |-> raw, mode |-> mode],
                [revision |-> previous.revision, from |-> <<previous.stage, previous.outcome>>,
                 to |-> <<FinalStage(previous, stage, outcome), outcome>>], <<>>)
      PROVE  FunnelInv'
  <2> DEFINE final == FinalStage(previous, stage, outcome)
             c == [stage |-> final, outcome |-> outcome, revision |-> previous.revision + 1, raw |-> raw, mode |-> mode]
             t == [revision |-> previous.revision, from |-> <<previous.stage, previous.outcome>>,
                   to |-> <<final, outcome>>]
  <2>1. final \in Stages /\ outcome \in FUNNEL_OUTCOMES /\ previous.revision \in Nat
    BY <1>1, FunnelAssumption DEF FinalStage, Candidate, Absent
  <2>2. previous = Absent <=> previous.revision = 0
    BY <1>1 DEF StoreIsCounted
  <2>3. outcome \in TERMINAL_OUTCOMES /\ previous # Absent => index(final) >= index(previous.stage)
    <3>1. previous # Absent => index(previous.stage) \in Int /\ index(stage) \in Int
      BY <1>1, StageTyped, FunnelAssumption DEF Candidate
    <3> QED
      BY <3>1 DEF FinalStage
  <2>4. <<previous.stage, previous.outcome>> \in (Stages \X FUNNEL_OUTCOMES) \cup {<<"none", "none">>}
    BY <1>1 DEF Candidate, Absent
  <2>5. c \in Candidate /\ t \in Transition
    BY <2>1, <2>4 DEF Candidate, Transition
  <2>6. /\ c.revision = t.revision + 1 /\ t.to = <<c.stage, c.outcome>>
        /\ t.revision = previous.revision /\ t.from = <<previous.stage, previous.outcome>>
        /\ t.from[2] = previous.outcome /\ t.from[1] = previous.stage /\ t.to[2] = outcome /\ t.to[1] = final
    OBVIOUS
  <2>7. IF t.revision = 0 THEN t.from = <<"none", "none">>
        ELSE /\ t.from[2] \notin TERMINAL_OUTCOMES
             /\ t.to[2] \in TERMINAL_OUTCOMES => index(t.to[1]) >= index(t.from[1])
    <3>1. CASE previous = Absent
      BY <2>2, <2>6, <3>1 DEF Absent
    <3>2. CASE previous # Absent
      <4> HIDE DEF t, c, final
      <4> QED
        BY <1>5, <2>2, <2>3, <2>6, <3>2 DEF Terminal
    <3> QED
      BY <3>1, <3>2
  <2>8. At(p, "persist", c, t, <<>>) /\ <<>> \in Seq(Transition)
    BY <1>5
  <2> HIDE DEF t, c, final
  <2>9. PollerInv(p)'
    <3>1. pc'[p] = "persist" /\ cand'[p] = c /\ trans'[p] = t
      BY <1>1, <2>8 DEF At, TypeOK
    <3> QED
      BY <2>5, <2>6, <2>7, <3>1 DEF PollerInv
  <2> QED
    BY <1>2, <2>5, <2>8, <2>9, StoresKept
<1> QED
  BY <1>3, <1>5 DEF Evaluate

LEMMA PersistGetKeeps ==
    ASSUME FunnelInv, NEW p \in Pollers, PersistGet(p)
    PROVE  FunnelInv'
<1> DEFINE c == cand[p]  t == trans[p]
<1>1. TypeOK /\ StoreIsCounted /\ HistoryIsLinked /\ PollerInv(p) /\ pc[p] = "persist"
  BY InvParts DEF PersistGet
<1>2. /\ c \in Candidate /\ t \in Transition /\ c # Absent
      /\ c.revision = t.revision + 1 /\ t.to = <<c.stage, c.outcome>>
      /\ IF t.revision = 0 THEN t.from = <<"none", "none">>
         ELSE /\ t.from[2] \notin TERMINAL_OUTCOMES
              /\ t.to[2] \in TERMINAL_OUTCOMES => index(t.to[1]) >= index(t.from[1])
  BY <1>1, AbsentIsNone DEF PollerInv
<1> HIDE DEF c, t
<1>3. UNCHANGED store
  BY DEF PersistGet
<1>5. CASE Idle(p)
  BY <1>3, <1>5, IdleKeeps
<1>6. CASE Links(c, t) /\ At(p, "put", c, t, store.hist)
  <2>1. store.hist \in Seq(Transition) /\ Chain(store.hist, store.cand) /\ store.cand.revision = Len(store.hist)
    BY <1>1 DEF TypeOK, HistoryIsLinked, Chain
  <2>2. t.revision = Len(store.hist) /\ t.revision \in Nat
    BY <1>2, <1>6, <2>1, LenProperties DEF Links, Transition
  <2>3. store.hist = <<>> => t.revision = 0
    BY <2>2
  <2>4. store.hist # <<>> => t.revision # 0 /\ store.cand # Absent
    BY <1>1, <2>1, <2>2, EmptySeq DEF StoreIsCounted
  <2>5. store.hist # <<>> => t.from = <<store.cand.stage, store.cand.outcome>>
    BY <1>6, <2>4 DEF Links
  <2>6. Chain(Append(store.hist, t), c)
    BY <1>2, <2>1, <2>2, <2>3, <2>4, <2>5, ChainGoesOn
  <2>7. pc'[p] = "put" /\ cand'[p] = c /\ trans'[p] = t /\ read'[p] = store.hist
    BY <1>1, <1>6 DEF At, TypeOK
  <2>8. PollerInv(p)'
    BY <1>2, <2>6, <2>7 DEF PollerInv
  <2> QED
    BY <1>2, <1>3, <1>6, <2>1, <2>8, StoresKept
<1> QED
  BY <1>5, <1>6 DEF PersistGet, c, t

LEMMA PersistPutKeeps ==
    ASSUME FunnelInv, NEW p \in Pollers, PersistPut(p)
    PROVE  FunnelInv'
<1> DEFINE c == cand[p]  h == Append(read[p], trans[p])
<1>1. TypeOK /\ pc[p] = "put" /\ \A q \in Pollers : PollerInv(q)
  BY InvParts DEF PersistPut
<1>2. /\ c \in Candidate /\ trans[p] \in Transition /\ read[p] \in Seq(Transition) /\ Chain(h, c)
      /\ c.revision = trans[p].revision + 1
  BY <1>1 DEF PollerInv, TypeOK
<1>3. h \in Seq(Transition)
  BY <1>2, AppendProperties
<1>4. c # Absent /\ c.revision # 0
  BY <1>2, AbsentIsNone DEF Transition
<1>5. store' = [cand |-> c, hist |-> h] /\ At(p, "idle", Absent, NoTransition, <<>>)
  BY DEF PersistPut, Idle
<1> HIDE DEF c, h
<1>6. store'.cand = c /\ store'.hist = h
  BY <1>5
<1>7. TypeOK'
  <2>1. /\ pc' \in [Pollers -> {"idle", "persist", "put"}]
        /\ cand' \in [Pollers -> Candidate \cup {Absent}]
        /\ trans' \in [Pollers -> Transition \cup {NoTransition}]
        /\ read' \in [Pollers -> Seq(Transition)]
    BY <1>1, <1>2, <1>5 DEF At, TypeOK
  <2>2. store' \in [cand : Candidate \cup {Absent}, hist : Seq(Transition)]
    BY <1>2, <1>3, <1>5
  <2> QED
    BY <1>1, <1>2, <1>5, <2>1, <2>2 DEF TypeOK
<1>8. StoreIsCounted' /\ HistoryIsLinked'
  BY <1>2, <1>4, <1>5, <1>6 DEF StoreIsCounted, HistoryIsLinked
<1>10. \A q \in Pollers : PollerInv(q)'
  <2>1. pc'[p] = "idle"
    BY <1>1, <1>5 DEF At, TypeOK
  <2>2. PollerInv(p)'
    BY <2>1 DEF PollerInv
  <2>3. \A q \in Pollers : q # p => /\ pc'[q] = pc[q] /\ cand'[q] = cand[q]
                                  /\ trans'[q] = trans[q] /\ read'[q] = read[q]
    BY <1>1, <1>5 DEF At, TypeOK
  <2>4. \A q \in Pollers : q # p => PollerInv(q)'
    BY <1>1, <2>3, OtherKept
  <2> QED
    BY <2>2, <2>4
<1> QED
  BY <1>7, <1>8, <1>10, InvNext

-----------------------------------------------------------------------------
(* The theorems *)

LEMMA InitHolds == Init => FunnelInv
<1> SUFFICES ASSUME Init PROVE FunnelInv
  OBVIOUS
<1>1. TypeOK
  BY DEF Init, TypeOK
<1>2. StoreIsCounted
  BY DEF Init, StoreIsCounted, Absent
<1>3. HistoryIsLinked
  <2>1. DOMAIN <<>> = {} /\ Len(<<>>) = 0
    OBVIOUS
  <2>2. store.cand.revision = 0 /\ store.hist = <<>>
    BY DEF Init, Absent
  <2> QED
    BY <2>1, <2>2 DEF HistoryIsLinked, Chain
<1>4. \A p \in Pollers : PollerInv(p)
  BY DEF Init, PollerInv
<1> QED
  BY <1>1, <1>2, <1>3, <1>4, InvParts

LEMMA StepKeeps ==
    ASSUME FunnelInv, [Next]_vars
    PROVE  FunnelInv'
<1>1. ASSUME NEW p \in Pollers, Crash(p)
      PROVE  FunnelInv'
  BY <1>1, IdleKeeps DEF Crash
<1>2. CASE UNCHANGED vars
  BY <1>2 DEF vars, FunnelInv, TypeOK, StoreIsCounted, PersistIsNext, PutIsLinked, HistoryIsLinked
<1> QED
  BY <1>1, <1>2, EvaluateKeeps, PersistGetKeeps, PersistPutKeeps DEF Next

\* The inductive invariant holds in every state: what a poller is about to put is a chain to its
\* candidate, whatever the store holds by then (CandidateStore.persist).
THEOREM FunnelInvariance == Spec => []FunnelInv
  BY InitHolds, StepKeeps, PTL DEF Spec

\* The stored history is an unbroken chain to the stored candidate (CandidateStore.persist).
THEOREM LinkedHistory == Spec => []HistoryIsLinked
<1>1. FunnelInv => HistoryIsLinked
  BY DEF FunnelInv
<1> QED
  BY <1>1, FunnelInvariance, PTL

\* Only a put that was checked before the end brings an ended opportunity back: the history it read
\* has not ended (evaluate_funnel, CandidateStore.persist).
THEOREM EndStands == Spec => EndedIsFinal
<1>1. ASSUME FunnelInv, NEW p \in Pollers, PersistPut(p)
      PROVE  /\ pc[p] = "put" /\ store'.cand = cand[p]
             /\ \A j \in DOMAIN read[p] : read[p][j].to[2] \notin TERMINAL_OUTCOMES
  <2> DEFINE h == Append(read[p], trans[p])
  <2>1. pc[p] = "put" /\ store'.cand = cand[p]
    BY <1>1 DEF PersistPut
  <2>2. read[p] \in Seq(Transition) /\ trans[p] \in Transition /\ Chain(h, cand[p])
    BY <1>1, <2>1 DEF FunnelInv, TypeOK, PutIsLinked, PersistIsNext
  <2>3. /\ h \in Seq(Transition) /\ Len(h) = Len(read[p]) + 1 /\ Len(read[p]) \in Nat
        /\ \A j \in 1..Len(read[p]) : h[j] = read[p][j]
        /\ DOMAIN read[p] = 1..Len(read[p])
    BY <2>2, AppendProperties, LenProperties
  <2>4. DOMAIN h = 1..Len(read[p]) + 1
    BY <2>3, LenProperties
  <2> HIDE DEF h
  <2>5. ASSUME NEW j \in DOMAIN read[p]
        PROVE  read[p][j].to[2] \notin TERMINAL_OUTCOMES
    <3>1. j + 1 \in DOMAIN h /\ j + 1 > 1 /\ j + 1 # 1 /\ (j + 1) - 1 = j
      BY <2>3, <2>4
    <3>2. h[j + 1].from = h[j].to /\ h[j + 1].from[2] \notin TERMINAL_OUTCOMES
      BY <2>2, <3>1 DEF Chain
    <3> QED
      BY <2>3, <3>2
  <2> QED
    BY <2>1, <2>5
<1>2. ASSUME FunnelInv, [Next]_vars
      PROVE  [Terminal(store.cand) /\ store' # store =>
                \E p \in Pollers : /\ pc[p] = "put" /\ store'.cand = cand[p]
                                   /\ \A j \in DOMAIN read[p] : read[p][j].to[2] \notin TERMINAL_OUTCOMES]_vars
  <2>1. store' # store => \E p \in Pollers : PersistPut(p)
    BY <1>2 DEF Next, vars, Evaluate, PersistGet, Crash
  <2> QED
    BY <1>1, <1>2, <2>1
<1> QED
  BY <1>2, FunnelInvariance, PTL DEF Spec, EndedIsFinal

=============================================================================
