------------------------- MODULE SessionSummary_proofs -------------------------
(***************************************************************************)
(* What SessionSummary promises for any number of runs, overlaps and       *)
(* faults, and any end of the window.                                      *)
(***************************************************************************)
EXTENDS SessionSummary, WellFoundedInduction, TLAPS

LEMMA KindTyped == \A n \in Runs : Kind(n) \in Kinds
  BY DEF Kind, Kinds

\* Rows of the runs have a latest one: CHOOSE finds it.
LEMMA HasLatest ==
    ASSUME NEW S, S # {}, \A e \in S : e.at \in Runs
    PROVE  \E r \in S : \A s \in S : s.at <= r.at
<1> DEFINE T == {MaxRun - e.at : e \in S}
           R == OpToRel(<, Nat)
<1>1. T \subseteq Nat /\ T # {}
  BY SummaryAssumption DEF Runs
<1>2. IsWellFoundedOn(R, Nat)
  BY NatLessThanWellFounded
<1>3. \E x \in T : \A y \in T : ~(<<y, x>> \in R)
  <2> HIDE DEF T, R
  <2> QED
    BY <1>1, <1>2, WFMin
<1>4. PICK x \in T : \A y \in T : ~(<<y, x>> \in R)
  BY <1>3
<1>a. \A a, b \in Nat : a < b => <<a, b>> \in R
  BY Zenon DEF OpToRel
<1>5. \A y \in T : x <= y
  <2> HIDE DEF T, R
  <2> SUFFICES ASSUME NEW y \in T PROVE x <= y
    OBVIOUS
  <2>1. x \in Nat /\ y \in Nat
    BY <1>1, <1>4
  <2>2. ~(y < x)
    BY <1>4, <1>a, <2>1
  <2> QED
    BY <2>1, <2>2
<1>6. PICK r \in S : x = MaxRun - r.at
  BY <1>4
<1>7. \A s \in S : MaxRun - r.at <= MaxRun - s.at
  BY <1>5, <1>6
<1> QED
  BY <1>7, SummaryAssumption DEF Runs

LEMMA BucketTyped == \A s : DeliveryBucket(s) \in Buckets
  BY DEF DeliveryBucket, Buckets

LEMMA RecordedTyped ==
    ASSUME TypeOK
    PROVE  Recorded \subseteq [at : Runs, decision : Decisions]
  BY DEF TypeOK, Recorded

\* The latest decision is one that was recorded, "none" only without any.
LEMMA LatestDecisionTyped ==
    ASSUME TypeOK
    PROVE  /\ LatestDecision \in Decisions \cup {"none"}
           /\ LatestDecision = "none" => Recorded = {}
<1>1. CASE Recorded = {}
  BY <1>1 DEF LatestDecision
<1>2. CASE Recorded # {}
  <2>1. \A e \in Recorded : e.at \in Runs /\ e.decision \in Decisions
    BY RecordedTyped
  <2>2. \E r \in Recorded : \A s \in Recorded : s.at <= r.at
    BY <1>2, <2>1, HasLatest
  <2>3. (CHOOSE r \in Recorded : \A s \in Recorded : s.at <= r.at) \in Recorded
    BY <2>2
  <2>4. LatestDecision \in Decisions
    BY <1>2, <2>1, <2>3 DEF LatestDecision
  <2> QED
    BY <2>4 DEF Decisions
<1> QED
  BY <1>1, <1>2

\* What the session journal says of a delivery is the state of one of its events.
LEMMA JournalStateTrue ==
    ASSUME TypeOK, NEW d
    PROVE  JournalState(d) = "not_attempted" \/ \E e \in events : JournalState(d) = e.state
<1> DEFINE rs == {e \in events : e.decision = d}
<1>1. CASE rs = {}
  BY <1>1 DEF JournalState
<1>2. CASE rs # {}
  <2>1. \A e \in rs : e.at \in Runs
    BY DEF TypeOK
  <2>2. \E e \in rs : \A f \in rs : f.at <= e.at
    BY <1>2, <2>1, HasLatest
  <2>3. (CHOOSE e \in rs : \A f \in rs : f.at <= e.at) \in rs
    BY <2>2
  <2>4. JournalState(d) = (CHOOSE e \in rs : \A f \in rs : f.at <= e.at).state
    BY <1>2, Zenon DEF JournalState
  <2> QED
    BY <2>3, <2>4
<1> QED
  BY <1>1, <1>2

LEMMA StartKeeps ==
    ASSUME SummaryInv, Start
    PROVE  SummaryInv'
<1>0. TypeOK
  BY DEF SummaryInv
<1>1. TypeOK'
  <2>a. last' \in 0..MaxRun
    BY <1>0, SummaryAssumption DEF Start, TypeOK, Runs
  <2>b. PICK e \in BOOLEAN : cfg' = [cfg EXCEPT ![last + 1] = e]
    BY Zenon DEF Start
  <2>c. cfg \in [Runs -> BOOLEAN]
    BY <1>0 DEF TypeOK
  <2>1. last' \in 0..MaxRun /\ cfg' \in [Runs -> BOOLEAN]
    BY <2>a, <2>b, <2>c, Zenon
  <2>2. pc' \in [Runs -> PCs]
    BY <1>0 DEF Start, Goto, TypeOK, PCs
  <2> QED
    BY <1>0, <2>1, <2>2 DEF TypeOK, Start, journals, sender, locals
<1>2. HoldsKey' /\ HoldsClaim'
  BY <1>0, SummaryAssumption, KindTyped
  DEF SummaryInv, TypeOK, Start, Goto, journals, sender, locals, HoldsKey, HoldsClaim, Sending, Runs
<1>3. RowIsTrue' /\ OutcomeIsTrue'
  BY <1>0, SummaryAssumption, KindTyped
  DEF SummaryInv, TypeOK, Start, Goto, journals, sender, locals, RowIsTrue, OutcomeIsTrue, Sending, HoldsKey,
      HoldsClaim
<1>4. SendIsBacked'
  BY <1>0, SummaryAssumption, KindTyped
  DEF SummaryInv, TypeOK, Start, Goto, journals, sender, locals, SendIsBacked, Sending, EvaluationIsRecorded
<1>5. EvaluationIsRecorded'
  BY <1>0, SummaryAssumption, KindTyped
  DEF SummaryInv, TypeOK, Start, Goto, journals, sender, locals, EvaluationIsRecorded, Sending, Recorded,
      RightPlace
<1>6. ResultIsOwn' /\ RightPlace'
  BY <1>0, SummaryAssumption, KindTyped
  DEF SummaryInv, TypeOK, Start, Goto, journals, sender, locals, ResultIsOwn, RightPlace, SettledStates,
      Sending
<1>7. BucketIsTrue'
  BY <1>0, SummaryAssumption, KindTyped
  DEF SummaryInv, TypeOK, Start, Goto, journals, sender, locals, BucketIsTrue
<1>8. MessageAtMostOnce' /\ EventsAreTrue'
  BY <1>0, SummaryAssumption, KindTyped
  DEF SummaryInv, TypeOK, Start, Goto, journals, sender, locals, MessageAtMostOnce, EventsAreTrue, Sending,
      SendIsBacked, OutcomeIsTrue, RowIsTrue, OnlyStarted
<1>9. OnlyStarted'
  BY <1>0, SummaryAssumption, KindTyped
  DEF SummaryInv, TypeOK, Start, Goto, journals, sender, locals, OnlyStarted, Runs
<1> QED
  BY <1>1, <1>2, <1>3, <1>4, <1>5, <1>6, <1>7, <1>8, <1>9 DEF SummaryInv

LEMMA EvaluateKeeps ==
    ASSUME SummaryInv, NEW n \in Runs, Evaluate(n)
    PROVE  SummaryInv'
<1>0. TypeOK
  BY DEF SummaryInv
<1>1. TypeOK'
  <2>1. evaluations' \subseteq [at : Runs, decision : Decisions]
    BY <1>0 DEF Evaluate, TypeOK
  <2>2. pc' \in [Runs -> PCs] /\ decision' \in [Runs -> Decisions \cup {"none"}] /\ outcome' \in [Runs -> States]
    BY <1>0 DEF Evaluate, Goto, TypeOK, PCs, States
  <2>3. faults' \in 0..MaxFaults
    BY <1>0, SummaryAssumption DEF Evaluate, Fault, TypeOK
  <2> QED
    BY <1>0, <2>1, <2>2, <2>3 DEF TypeOK, Evaluate, sender
<1>2. HoldsKey' /\ HoldsClaim'
  BY <1>0, SummaryAssumption, KindTyped
  DEF SummaryInv, TypeOK, Evaluate, Fault, Goto, sender, HoldsKey, HoldsClaim, Sending, Runs
<1>3. RowIsTrue' /\ OutcomeIsTrue'
  BY <1>0, SummaryAssumption, KindTyped
  DEF SummaryInv, TypeOK, Evaluate, Fault, Goto, sender, RowIsTrue, OutcomeIsTrue, Sending, HoldsKey,
      HoldsClaim
<1>4. SendIsBacked'
  BY <1>0, SummaryAssumption, KindTyped
  DEF SummaryInv, TypeOK, Evaluate, Fault, Goto, sender, SendIsBacked, Sending, EvaluationIsRecorded
<1>5. EvaluationIsRecorded'
  BY <1>0, SummaryAssumption, KindTyped
  DEF SummaryInv, TypeOK, Evaluate, Fault, Goto, sender, EvaluationIsRecorded, Sending, Recorded, RightPlace
<1>6. ResultIsOwn' /\ RightPlace'
  BY <1>0, SummaryAssumption, KindTyped
  DEF SummaryInv, TypeOK, Evaluate, Fault, Goto, sender, ResultIsOwn, RightPlace, SettledStates, Sending
<1>7. BucketIsTrue'
  BY <1>0, SummaryAssumption, KindTyped DEF SummaryInv, TypeOK, Evaluate, Fault, Goto, sender, BucketIsTrue
<1>8. MessageAtMostOnce' /\ EventsAreTrue'
  BY <1>0, SummaryAssumption, KindTyped
  DEF SummaryInv, TypeOK, Evaluate, Fault, Goto, sender, MessageAtMostOnce, EventsAreTrue, Sending,
      SendIsBacked, OutcomeIsTrue, RowIsTrue, OnlyStarted
<1>9. OnlyStarted'
  BY <1>0, SummaryAssumption, KindTyped
  DEF SummaryInv, TypeOK, Evaluate, Fault, Goto, sender, OnlyStarted, Runs
<1> QED
  BY <1>1, <1>2, <1>3, <1>4, <1>5, <1>6, <1>7, <1>8, <1>9 DEF SummaryInv

LEMMA SchedulerKeeps ==
    ASSUME SummaryInv, NEW n \in Runs, Scheduler(n)
    PROVE  SummaryInv'
<1>0. TypeOK
  BY DEF SummaryInv
<1>1. TypeOK'
  BY <1>0, SummaryAssumption, KindTyped
  DEF SummaryInv, TypeOK, Scheduler, Goto, journals, sender, locals, Runs, Kinds, PCs, States, Buckets,
      Decisions, RowStates, Absent, Empty
<1>2. HoldsKey' /\ HoldsClaim'
  BY <1>0, SummaryAssumption, KindTyped
  DEF SummaryInv, TypeOK, Scheduler, Goto, journals, sender, locals, HoldsKey, HoldsClaim, Sending, Runs
<1>3. RowIsTrue' /\ OutcomeIsTrue'
  BY <1>0, SummaryAssumption, KindTyped
  DEF SummaryInv, TypeOK, Scheduler, Goto, journals, sender, locals, RowIsTrue, OutcomeIsTrue, Sending,
      HoldsKey, HoldsClaim
<1>4. SendIsBacked'
  BY <1>0, SummaryAssumption, KindTyped
  DEF SummaryInv, TypeOK, Scheduler, Goto, journals, sender, locals, SendIsBacked, Sending,
      EvaluationIsRecorded
<1>5. EvaluationIsRecorded'
  BY <1>0, SummaryAssumption, KindTyped
  DEF SummaryInv, TypeOK, Scheduler, Goto, journals, sender, locals, EvaluationIsRecorded, Sending, Recorded,
      RightPlace
<1>6. ResultIsOwn' /\ RightPlace'
  BY <1>0, SummaryAssumption, KindTyped
  DEF SummaryInv, TypeOK, Scheduler, Goto, journals, sender, locals, ResultIsOwn, RightPlace, SettledStates,
      Sending
<1>7. BucketIsTrue'
  BY <1>0, SummaryAssumption, KindTyped
  DEF SummaryInv, TypeOK, Scheduler, Goto, journals, sender, locals, BucketIsTrue
<1>8. MessageAtMostOnce' /\ EventsAreTrue'
  BY <1>0, SummaryAssumption, KindTyped
  DEF SummaryInv, TypeOK, Scheduler, Goto, journals, sender, locals, MessageAtMostOnce, EventsAreTrue,
      Sending, SendIsBacked, OutcomeIsTrue, RowIsTrue, OnlyStarted
<1>9. OnlyStarted'
  BY <1>0, SummaryAssumption, KindTyped
  DEF SummaryInv, TypeOK, Scheduler, Goto, journals, sender, locals, OnlyStarted, Runs
<1> QED
  BY <1>1, <1>2, <1>3, <1>4, <1>5, <1>6, <1>7, <1>8, <1>9 DEF SummaryInv

LEMMA WriteStartKeeps ==
    ASSUME SummaryInv, NEW n \in Runs, WriteStart(n)
    PROVE  SummaryInv'
<1>0. TypeOK
  BY DEF SummaryInv
<1>1. TypeOK'
  BY <1>0, SummaryAssumption, KindTyped
  DEF SummaryInv, TypeOK, WriteStart, Goto, journals, sender, locals, Runs, Kinds, PCs, States, Buckets,
      Decisions, RowStates, Absent, Empty
<1>2. HoldsKey' /\ HoldsClaim'
  BY <1>0, SummaryAssumption, KindTyped
  DEF SummaryInv, TypeOK, WriteStart, Goto, journals, sender, locals, HoldsKey, HoldsClaim, Sending, Runs
<1>3. RowIsTrue' /\ OutcomeIsTrue'
  BY <1>0, SummaryAssumption, KindTyped
  DEF SummaryInv, TypeOK, WriteStart, Goto, journals, sender, locals, RowIsTrue, OutcomeIsTrue, Sending,
      HoldsKey, HoldsClaim
<1>4. SendIsBacked'
  BY <1>0, SummaryAssumption, KindTyped
  DEF SummaryInv, TypeOK, WriteStart, Goto, journals, sender, locals, SendIsBacked, Sending,
      EvaluationIsRecorded
<1>5. EvaluationIsRecorded'
  BY <1>0, SummaryAssumption, KindTyped
  DEF SummaryInv, TypeOK, WriteStart, Goto, journals, sender, locals, EvaluationIsRecorded, Sending, Recorded,
      RightPlace
<1>6. ResultIsOwn' /\ RightPlace'
  BY <1>0, SummaryAssumption, KindTyped
  DEF SummaryInv, TypeOK, WriteStart, Goto, journals, sender, locals, ResultIsOwn, RightPlace, SettledStates,
      Sending
<1>7. BucketIsTrue'
  BY <1>0, SummaryAssumption, KindTyped
  DEF SummaryInv, TypeOK, WriteStart, Goto, journals, sender, locals, BucketIsTrue
<1>8. MessageAtMostOnce' /\ EventsAreTrue'
  BY <1>0, SummaryAssumption, KindTyped
  DEF SummaryInv, TypeOK, WriteStart, Goto, journals, sender, locals, MessageAtMostOnce, EventsAreTrue,
      Sending, SendIsBacked, OutcomeIsTrue, RowIsTrue, OnlyStarted
<1>9. OnlyStarted'
  BY <1>0, SummaryAssumption, KindTyped
  DEF SummaryInv, TypeOK, WriteStart, Goto, journals, sender, locals, OnlyStarted, Runs
<1> QED
  BY <1>1, <1>2, <1>3, <1>4, <1>5, <1>6, <1>7, <1>8, <1>9 DEF SummaryInv

LEMMA ReadKeeps ==
    ASSUME SummaryInv, NEW n \in Runs, Read(n)
    PROVE  SummaryInv'
<1>0. TypeOK
  BY DEF SummaryInv
<1>1. TypeOK'
  <2>1. pc' \in [Runs -> PCs] /\ outcome' \in [Runs -> States]
    BY <1>0 DEF Read, Goto, TypeOK, PCs, States, locals
  <2>2. decision' \in [Runs -> Decisions \cup {"none"}] /\ bucket' \in [Runs -> Buckets \cup {"none"}]
    BY <1>0, LatestDecisionTyped, BucketTyped DEF Read, TypeOK, locals
  <2>3. faults' \in 0..MaxFaults
    BY <1>0, SummaryAssumption DEF Read, Fault, TypeOK
  <2> QED
    BY <1>0, <2>1, <2>2, <2>3 DEF TypeOK, Read, journals, sender
<1>2. HoldsKey' /\ HoldsClaim'
  BY <1>0, SummaryAssumption, KindTyped
  DEF SummaryInv, TypeOK, Read, Fault, Goto, journals, sender, locals, HoldsKey, HoldsClaim, Sending, Runs
<1>3. RowIsTrue' /\ OutcomeIsTrue'
  BY <1>0, SummaryAssumption, KindTyped
  DEF SummaryInv, TypeOK, Read, Fault, Goto, journals, sender, locals, RowIsTrue, OutcomeIsTrue, Sending,
      HoldsKey, HoldsClaim
<1>4. SendIsBacked'
  BY <1>0, SummaryAssumption, KindTyped
  DEF SummaryInv, TypeOK, Read, Fault, Goto, journals, sender, locals, SendIsBacked, Sending,
      EvaluationIsRecorded
<1>5. EvaluationIsRecorded'
  BY <1>0, SummaryAssumption, KindTyped
  DEF SummaryInv, TypeOK, Read, Fault, Goto, journals, sender, locals, EvaluationIsRecorded, Sending,
      Recorded, RightPlace
<1>6. ResultIsOwn' /\ RightPlace'
  BY <1>0, SummaryAssumption, KindTyped
  DEF SummaryInv, TypeOK, Read, Fault, Goto, journals, sender, locals, ResultIsOwn, RightPlace, SettledStates,
      Sending
<1>7. BucketIsTrue'
  <2>1. DeliveryBucket(JournalState(LatestDecision)) = "succeeded" => chat["ticket"] > 0
    <3>1. ASSUME NEW s, DeliveryBucket(s) = "succeeded" PROVE s \in {"sent", "DELIVERED"}
      BY <3>1 DEF DeliveryBucket
    <3>2. \A e \in events : e.state # "DELIVERED"
      BY <1>0 DEF TypeOK, States
    <3> QED
      BY <1>0, <3>1, <3>2, JournalStateTrue DEF SummaryInv, EventsAreTrue
  <2> QED
    BY <1>0, <2>1 DEF SummaryInv, TypeOK, Read, Goto, sender, locals, BucketIsTrue
<1>8. MessageAtMostOnce' /\ EventsAreTrue'
  BY <1>0, SummaryAssumption, KindTyped
  DEF SummaryInv, TypeOK, Read, Fault, Goto, journals, sender, locals, MessageAtMostOnce, EventsAreTrue,
      Sending, SendIsBacked, OutcomeIsTrue, RowIsTrue, OnlyStarted
<1>9. OnlyStarted'
  BY <1>0, SummaryAssumption, KindTyped
  DEF SummaryInv, TypeOK, Read, Fault, Goto, journals, sender, locals, OnlyStarted, Runs
<1> QED
  BY <1>1, <1>2, <1>3, <1>4, <1>5, <1>6, <1>7, <1>8, <1>9 DEF SummaryInv

LEMMA AttemptsKeeps ==
    ASSUME SummaryInv, NEW n \in Runs, Attempts(n)
    PROVE  SummaryInv'
<1>0. TypeOK
  BY DEF SummaryInv
<1>1. TypeOK'
  <2>1. AttemptBucket(n) \in Buckets \cup {"none"}
    BY <1>0, BucketTyped DEF AttemptBucket, TypeOK
  <2>2. bucket' \in [Runs -> Buckets \cup {"none"}] /\ pc' \in [Runs -> PCs] /\ row' \in [Kinds -> RowStates]
    BY <1>0, <2>1 DEF Attempts, Goto, TypeOK, PCs, RowStates
  <2> QED
    BY <1>0, <2>2 DEF TypeOK, Attempts, journals
<1>2. HoldsKey' /\ HoldsClaim'
  BY <1>0, SummaryAssumption, KindTyped
  DEF SummaryInv, TypeOK, Attempts, Goto, journals, HoldsKey, HoldsClaim, Sending, Runs
<1>3. RowIsTrue' /\ OutcomeIsTrue'
  BY <1>0, SummaryAssumption, KindTyped
  DEF SummaryInv, TypeOK, Attempts, Goto, journals, RowIsTrue, OutcomeIsTrue, Sending, HoldsKey, HoldsClaim
<1>4. SendIsBacked'
  BY <1>0, SummaryAssumption, KindTyped
  DEF SummaryInv, TypeOK, Attempts, Goto, journals, SendIsBacked, Sending, EvaluationIsRecorded
<1>5. EvaluationIsRecorded'
  BY <1>0, SummaryAssumption, KindTyped
  DEF SummaryInv, TypeOK, Attempts, Goto, journals, EvaluationIsRecorded, Sending, Recorded, RightPlace
<1>6. ResultIsOwn' /\ RightPlace'
  BY <1>0, SummaryAssumption, KindTyped
  DEF SummaryInv, TypeOK, Attempts, Goto, journals, ResultIsOwn, RightPlace, SettledStates, Sending
<1>7. BucketIsTrue'
  BY <1>0, SummaryAssumption, KindTyped DEF SummaryInv, TypeOK, Attempts, Goto, journals, BucketIsTrue
<1>8. MessageAtMostOnce' /\ EventsAreTrue'
  BY <1>0, SummaryAssumption, KindTyped
  DEF SummaryInv, TypeOK, Attempts, Goto, journals, MessageAtMostOnce, EventsAreTrue, Sending, SendIsBacked,
      OutcomeIsTrue, RowIsTrue, OnlyStarted
<1>9. OnlyStarted'
  BY <1>0, SummaryAssumption, KindTyped DEF SummaryInv, TypeOK, Attempts, Goto, journals, OnlyStarted, Runs
<1> QED
  BY <1>1, <1>2, <1>3, <1>4, <1>5, <1>6, <1>7, <1>8, <1>9 DEF SummaryInv

LEMMA IntentKeeps ==
    ASSUME SummaryInv, NEW n \in Runs, Intent(n)
    PROVE  SummaryInv'
<1>0. TypeOK
  BY DEF SummaryInv
<1>1. TypeOK'
  <2>1. pc' \in [Runs -> PCs]
    BY <1>0 DEF Intent, Send, Unrecorded, Leave, Goto, TypeOK, PCs
  <2>2. outcome' \in [Runs -> States]
    BY <1>0 DEF Intent, Send, Refusals, Unrecorded, Leave, Forget, TypeOK, States
  <2>3. decision' \in [Runs -> Decisions \cup {"none"}] /\ bucket' \in [Runs -> Buckets \cup {"none"}]
    BY <1>0 DEF Intent, Unrecorded, Leave, Forget, TypeOK
  <2>4. intents' \subseteq Runs /\ cut' \subseteq Runs
    BY <1>0 DEF Intent, Unrecorded, TypeOK
  <2>5. faults' \in 0..MaxFaults
    BY <1>0, SummaryAssumption DEF Intent, Fault, TypeOK
  <2> QED
    BY <1>0, <2>1, <2>2, <2>3, <2>4, <2>5 DEF TypeOK, Intent, sender
<1>2. HoldsKey' /\ HoldsClaim'
  BY <1>0, SummaryAssumption, KindTyped
  DEF SummaryInv, TypeOK, Intent, Fault, Unrecorded, Leave, Forget, Send, Refusals, Goto, sender, HoldsKey,
      HoldsClaim, Sending, Runs
<1>3. RowIsTrue' /\ OutcomeIsTrue'
  BY <1>0, SummaryAssumption, KindTyped
  DEF SummaryInv, TypeOK, Intent, Fault, Unrecorded, Leave, Forget, Send, Refusals, Goto, sender, RowIsTrue,
      OutcomeIsTrue, Sending, HoldsKey, HoldsClaim
<1>4. SendIsBacked'
  <2>1. pc[n] = "intent" /\ intents \subseteq intents' /\ UNCHANGED <<evaluations, cfg>>
    BY DEF Intent
  <2>2. \A m \in Runs : m # n => pc'[m] = pc[m]
    BY <1>0 DEF TypeOK, Intent, Send, Unrecorded, Leave, Goto
  <2>3. pc'[n] \in Sending \cup {"lock"} =>
            n \in intents' /\ cfg[n] /\ (InWindow(n) => decision[n] = "alert")
    BY <1>0 DEF TypeOK, Intent, Send, Unrecorded, Leave, Goto, Sending
  <2>4. InWindow(n) => [at |-> n, decision |-> decision[n]] \in evaluations
    BY <2>1 DEF SummaryInv, EvaluationIsRecorded
  <2> SUFFICES ASSUME NEW m \in Runs, pc'[m] \in Sending \cup {"lock"}
               PROVE  /\ m \in intents' /\ cfg'[m]
                      /\ InWindow(m) => [at |-> m, decision |-> "alert"] \in evaluations'
    BY DEF SendIsBacked
  <2>5. CASE m = n
    <3>1. n \in intents' /\ cfg'[n] /\ (InWindow(n) => decision[n] = "alert")
      BY <2>1, <2>3, <2>5, Zenon
    <3>2. InWindow(n) => [at |-> n, decision |-> "alert"] \in evaluations'
      BY <2>1, <2>4, <3>1
    <3> QED
      BY <2>5, <3>1, <3>2
  <2>6. CASE m # n
    BY <2>1, <2>2, <2>6 DEF SummaryInv, SendIsBacked
  <2> QED
    BY <2>5, <2>6
<1>5. EvaluationIsRecorded'
  BY <1>0, SummaryAssumption, KindTyped
  DEF SummaryInv, TypeOK, Intent, Fault, Unrecorded, Leave, Forget, Send, Refusals, Goto, sender,
      EvaluationIsRecorded, Sending, Recorded, RightPlace
<1>6. ResultIsOwn' /\ RightPlace'
  BY <1>0, SummaryAssumption, KindTyped
  DEF SummaryInv, TypeOK, Intent, Fault, Unrecorded, Leave, Forget, Send, Refusals, Goto, sender, ResultIsOwn,
      RightPlace, SettledStates, Sending
<1>7. BucketIsTrue'
  BY <1>0, SummaryAssumption, KindTyped
  DEF SummaryInv, TypeOK, Intent, Fault, Unrecorded, Leave, Forget, Send, Refusals, Goto, sender, BucketIsTrue
<1>8. MessageAtMostOnce' /\ EventsAreTrue'
  BY <1>0, SummaryAssumption, KindTyped
  DEF SummaryInv, TypeOK, Intent, Fault, Unrecorded, Leave, Forget, Send, Refusals, Goto, sender,
      MessageAtMostOnce, EventsAreTrue, Sending, SendIsBacked, OutcomeIsTrue, RowIsTrue, OnlyStarted
<1>9. OnlyStarted'
  BY <1>0, SummaryAssumption, KindTyped
  DEF SummaryInv, TypeOK, Intent, Fault, Unrecorded, Leave, Forget, Send, Refusals, Goto, sender, OnlyStarted,
      Runs
<1> QED
  BY <1>1, <1>2, <1>3, <1>4, <1>5, <1>6, <1>7, <1>8, <1>9 DEF SummaryInv

LEMMA LockKeeps ==
    ASSUME SummaryInv, NEW n \in Runs, Lock(n)
    PROVE  SummaryInv'
<1>0. TypeOK
  BY DEF SummaryInv
<1>1. TypeOK'
  <2>1. n \in 0..MaxRun
    BY SummaryAssumption DEF Runs
  <2>2. held' \in [Kinds -> 0..MaxRun] /\ outcome' \in [Runs -> States] /\ pc' \in [Runs -> PCs]
    BY <1>0, <2>1 DEF Lock, Goto, TypeOK, States, PCs
  <2> QED
    BY <1>0, <2>2 DEF TypeOK, Lock, journals
<1>2. HoldsKey' /\ HoldsClaim'
  <2>1. \A m \in Runs : m # 0
    BY SummaryAssumption DEF Runs
  <2>2. CASE held[Kind(n)] = 0 /\ held' = [held EXCEPT ![Kind(n)] = n] /\ pc' = [pc EXCEPT ![n] = "claim"]
    BY <1>0, <2>1, <2>2, KindTyped DEF SummaryInv, TypeOK, Lock, HoldsKey, HoldsClaim, Sending
  <2>3. CASE pc' = [pc EXCEPT ![n] = "result"] /\ UNCHANGED held
    BY <1>0, <2>3 DEF SummaryInv, TypeOK, Lock, HoldsKey, HoldsClaim, Sending
  <2> QED
    BY <2>2, <2>3 DEF Lock, Goto
<1>3. RowIsTrue' /\ OutcomeIsTrue'
  BY <1>0, SummaryAssumption, KindTyped
  DEF SummaryInv, TypeOK, Lock, Goto, journals, RowIsTrue, OutcomeIsTrue, Sending, HoldsKey, HoldsClaim
<1>4. SendIsBacked'
  BY <1>0, SummaryAssumption, KindTyped
  DEF SummaryInv, TypeOK, Lock, Goto, journals, SendIsBacked, Sending, EvaluationIsRecorded
<1>5. EvaluationIsRecorded'
  BY <1>0, SummaryAssumption, KindTyped
  DEF SummaryInv, TypeOK, Lock, Goto, journals, EvaluationIsRecorded, Sending, Recorded, RightPlace
<1>6. ResultIsOwn' /\ RightPlace'
  BY <1>0, SummaryAssumption, KindTyped
  DEF SummaryInv, TypeOK, Lock, Goto, journals, ResultIsOwn, RightPlace, SettledStates, Sending
<1>7. BucketIsTrue'
  BY <1>0, SummaryAssumption, KindTyped DEF SummaryInv, TypeOK, Lock, Goto, journals, BucketIsTrue
<1>8. MessageAtMostOnce' /\ EventsAreTrue'
  BY <1>0, SummaryAssumption, KindTyped
  DEF SummaryInv, TypeOK, Lock, Goto, journals, MessageAtMostOnce, EventsAreTrue, Sending, SendIsBacked,
      OutcomeIsTrue, RowIsTrue, OnlyStarted
<1>9. OnlyStarted'
  BY <1>0, SummaryAssumption, KindTyped DEF SummaryInv, TypeOK, Lock, Goto, journals, OnlyStarted, Runs
<1> QED
  BY <1>1, <1>2, <1>3, <1>4, <1>5, <1>6, <1>7, <1>8, <1>9 DEF SummaryInv

LEMMA ClaimKeeps ==
    ASSUME SummaryInv, NEW n \in Runs, Claim(n)
    PROVE  SummaryInv'
<1>0. TypeOK
  BY DEF SummaryInv
<1>k. \A m \in Runs : m # n /\ pc[m] \in Sending => held[Kind(m)] = m /\ Kind(m) # Kind(n)
  BY DEF SummaryInv, HoldsKey, Sending, Claim
<1>h. \A m \in Runs : m # n => pc'[m] = pc[m] /\ (pc[m] \in Sending => held'[Kind(m)] = m /\ row'[Kind(m)] = row[Kind(m)])
  BY <1>0, <1>k, KindTyped DEF TypeOK, Claim, Return, Goto
<1>1. TypeOK'
  <2>1. row' \in [Kinds -> RowStates] /\ held' \in [Kinds -> 0..MaxRun]
    BY <1>0, SummaryAssumption, KindTyped DEF TypeOK, Claim, Return, RowStates
  <2>2. pc' \in [Runs -> PCs] /\ outcome' \in [Runs -> States]
    BY <1>0 DEF TypeOK, Claim, Return, Goto, PCs, States
  <2>3. faults' \in 0..MaxFaults /\ UNCHANGED <<last, started, journals, chat, cfg, decision, bucket, cut>>
    BY <1>0, SummaryAssumption DEF TypeOK, Claim, Fault
  <2> QED
    BY <1>0, <2>1, <2>2, <2>3 DEF TypeOK, journals
<1>2. HoldsKey' /\ HoldsClaim'
  <2>1. pc'[n] \in {"transport", "result"} /\ (pc'[n] = "transport" => held'[Kind(n)] = n /\ row'[Kind(n)] = "pending")
    BY <1>0, KindTyped DEF SummaryInv, HoldsKey, Sending, TypeOK, Claim, Return, Goto
  <2> QED
    BY <1>h, <2>1 DEF SummaryInv, HoldsKey, HoldsClaim, Sending
<1>3. RowIsTrue' /\ OutcomeIsTrue'
  BY <1>0, SummaryAssumption, KindTyped
  DEF SummaryInv, TypeOK, Claim, Fault, Return, Goto, journals, RowIsTrue, OutcomeIsTrue, Sending, HoldsKey,
      HoldsClaim
<1>4. SendIsBacked'
  BY <1>0, <1>h DEF SummaryInv, TypeOK, Claim, Return, Goto, journals, SendIsBacked, Sending
<1>5. EvaluationIsRecorded'
  BY <1>0, SummaryAssumption, KindTyped
  DEF SummaryInv, TypeOK, Claim, Fault, Return, Goto, journals, EvaluationIsRecorded, Sending, Recorded,
      RightPlace
<1>6. ResultIsOwn' /\ RightPlace'
  BY <1>0, SummaryAssumption, KindTyped
  DEF SummaryInv, TypeOK, Claim, Fault, Return, Goto, journals, ResultIsOwn, RightPlace, SettledStates,
      Sending
<1>7. BucketIsTrue'
  BY <1>0, SummaryAssumption, KindTyped
  DEF SummaryInv, TypeOK, Claim, Fault, Return, Goto, journals, BucketIsTrue
<1>8. MessageAtMostOnce' /\ EventsAreTrue'
  BY <1>0, SummaryAssumption, KindTyped
  DEF SummaryInv, TypeOK, Claim, Fault, Return, Goto, journals, MessageAtMostOnce, EventsAreTrue, Sending,
      SendIsBacked, OutcomeIsTrue, RowIsTrue, OnlyStarted
<1>9. OnlyStarted'
  BY <1>0, SummaryAssumption, KindTyped
  DEF SummaryInv, TypeOK, Claim, Fault, Return, Goto, journals, OnlyStarted, Runs
<1> QED
  BY <1>1, <1>2, <1>3, <1>4, <1>5, <1>6, <1>7, <1>8, <1>9 DEF SummaryInv

LEMMA TransportKeeps ==
    ASSUME SummaryInv, NEW n \in Runs, Transport(n)
    PROVE  SummaryInv'
<1>0. TypeOK
  BY DEF SummaryInv
<1>1. TypeOK'
  BY <1>0, SummaryAssumption, KindTyped
  DEF SummaryInv, TypeOK, Transport, Goto, journals, Runs, Kinds, PCs, States, Buckets, Decisions, RowStates,
      Absent, Empty
<1>2. HoldsKey' /\ HoldsClaim'
  BY <1>0, SummaryAssumption, KindTyped
  DEF SummaryInv, TypeOK, Transport, Goto, journals, HoldsKey, HoldsClaim, Sending, Runs
<1>3. RowIsTrue' /\ OutcomeIsTrue'
  BY <1>0, SummaryAssumption, KindTyped
  DEF SummaryInv, TypeOK, Transport, Goto, journals, RowIsTrue, OutcomeIsTrue, Sending, HoldsKey, HoldsClaim
<1>4. SendIsBacked'
  BY <1>0, SummaryAssumption, KindTyped
  DEF SummaryInv, TypeOK, Transport, Goto, journals, SendIsBacked, Sending, EvaluationIsRecorded
<1>5. EvaluationIsRecorded'
  BY <1>0, SummaryAssumption, KindTyped
  DEF SummaryInv, TypeOK, Transport, Goto, journals, EvaluationIsRecorded, Sending, Recorded, RightPlace
<1>6. ResultIsOwn' /\ RightPlace'
  BY <1>0, SummaryAssumption, KindTyped
  DEF SummaryInv, TypeOK, Transport, Goto, journals, ResultIsOwn, RightPlace, SettledStates, Sending
<1>7. BucketIsTrue'
  BY <1>0, SummaryAssumption, KindTyped DEF SummaryInv, TypeOK, Transport, Goto, journals, BucketIsTrue
<1>8. MessageAtMostOnce' /\ EventsAreTrue'
  <2>1. /\ n \in intents /\ cfg[n] /\ chat[Kind(n)] = 0 /\ Kind(n) \in Kinds
        /\ InWindow(n) => [at |-> n, decision |-> "alert"] \in evaluations
    BY KindTyped DEF SummaryInv, SendIsBacked, RowIsTrue, Sending, Transport
  <2>2. /\ chat'[Kind(n)] \in {0, 1}
        /\ \A k \in Kinds : k # Kind(n) => chat'[k] = chat[k]
    BY <1>0, <2>1 DEF TypeOK, Transport
  <2>3. MessageAtMostOnce'
    BY <2>2 DEF SummaryInv, MessageAtMostOnce
  <2>4. \A k \in Kinds : chat[k] > 0 => chat'[k] > 0
    BY <2>1, <2>2
  <2>5. \A k \in Kinds : chat'[k] > 0 => \E m \in intents : Kind(m) = k /\ cfg[m]
    BY <2>1, <2>2 DEF SummaryInv, EventsAreTrue
  <2>6. chat'["ticket"] > 0 => \E e \in evaluations : e.decision = "alert"
    <3>1. Kind(n) = "ticket" => InWindow(n)
      BY DEF Kind
    <3> QED
      BY <2>1, <2>2, <3>1 DEF SummaryInv, EventsAreTrue, Kinds
  <2> QED
    BY <2>3, <2>4, <2>5, <2>6 DEF SummaryInv, EventsAreTrue, Transport, journals, Kinds
<1>9. OnlyStarted'
  BY <1>0, SummaryAssumption, KindTyped DEF SummaryInv, TypeOK, Transport, Goto, journals, OnlyStarted, Runs
<1> QED
  BY <1>1, <1>2, <1>3, <1>4, <1>5, <1>6, <1>7, <1>8, <1>9 DEF SummaryInv

LEMMA RecordKeeps ==
    ASSUME SummaryInv, NEW n \in Runs, Record(n)
    PROVE  SummaryInv'
<1>0. TypeOK
  BY DEF SummaryInv
<1>k. \A m \in Runs : m # n /\ pc[m] \in Sending => held[Kind(m)] = m /\ Kind(m) # Kind(n)
  BY DEF SummaryInv, HoldsKey, Sending, Record
<1>h. \A m \in Runs : m # n => pc'[m] = pc[m] /\ (pc[m] \in Sending => held'[Kind(m)] = m /\ row'[Kind(m)] = row[Kind(m)])
  BY <1>0, <1>k, KindTyped DEF TypeOK, Record, Return, Goto
<1>1. TypeOK'
  <2>1. outcome[n] \in {"sent", "failed", "uncertain"}
    BY DEF SummaryInv, OutcomeIsTrue, Record
  <2>2. RowOf[outcome[n]] \in RowStates
    BY <2>1 DEF RowOf, RowStates
  <2>3. row' \in [Kinds -> RowStates] /\ pc' \in [Runs -> PCs]
    BY <1>0, <2>2, KindTyped DEF Record, Return, Goto, TypeOK, PCs
  <2>4. held' \in [Kinds -> 0..MaxRun] /\ outcome' \in [Runs -> States]
    BY <1>0, SummaryAssumption DEF Record, Return, TypeOK, States
  <2>5. faults' \in 0..MaxFaults
    BY <1>0, SummaryAssumption DEF Record, Fault, TypeOK
  <2> QED
    BY <1>0, <2>3, <2>4, <2>5 DEF TypeOK, Record, journals
<1>2. HoldsKey' /\ HoldsClaim'
  <2>1. pc'[n] = "result"
    BY <1>0 DEF TypeOK, Record, Return, Goto
  <2> QED
    BY <1>h, <2>1 DEF SummaryInv, HoldsKey, HoldsClaim, Sending
<1>3. RowIsTrue' /\ OutcomeIsTrue'
  <2>1. /\ pc[n] = "record" /\ outcome[n] \in {"sent", "failed", "uncertain"}
        /\ outcome[n] = "sent" => chat[Kind(n)] > 0
        /\ outcome[n] = "failed" => chat[Kind(n)] = 0
    BY DEF SummaryInv, OutcomeIsTrue, Record
  <2>2. /\ pc'[n] = "result" /\ outcome'[n] \in {outcome[n], "failed"} /\ UNCHANGED chat
        /\ \A m \in Runs : m # n => outcome'[m] = outcome[m]
    BY <1>0 DEF TypeOK, Record, Return, Goto
  <2>3. \A k \in Kinds : row'[k] = row[k] \/ (k = Kind(n) /\ row'[k] = RowOf[outcome[n]])
    BY <1>0 DEF TypeOK, Record
  <2>4. RowIsTrue'
    BY <1>0, <1>h, <2>1, <2>2, <2>3, KindTyped DEF SummaryInv, RowIsTrue, RowOf
  <2>5. OutcomeIsTrue'
    BY <1>h, <2>1, <2>2 DEF SummaryInv, OutcomeIsTrue
  <2> QED
    BY <2>4, <2>5
<1>4. SendIsBacked'
  BY <1>0, <1>h DEF SummaryInv, TypeOK, Record, Return, Goto, journals, SendIsBacked, Sending
<1>5. EvaluationIsRecorded'
  BY <1>0, SummaryAssumption, KindTyped
  DEF SummaryInv, TypeOK, Record, Fault, Return, Goto, journals, EvaluationIsRecorded, Sending, Recorded,
      RightPlace
<1>6. ResultIsOwn' /\ RightPlace'
  <2>1. /\ pc'[n] = "result" /\ outcome'[n] \in {"sent", "failed", "uncertain"}
        /\ \A m \in Runs : m # n => outcome'[m] = outcome[m]
    BY <1>0 DEF SummaryInv, OutcomeIsTrue, TypeOK, Record, Return, Goto
  <2> QED
    BY <1>h, <2>1 DEF SummaryInv, ResultIsOwn, RightPlace, SettledStates, Record, journals
<1>7. BucketIsTrue'
  BY <1>0, SummaryAssumption, KindTyped
  DEF SummaryInv, TypeOK, Record, Fault, Return, Goto, journals, BucketIsTrue
<1>8. MessageAtMostOnce' /\ EventsAreTrue'
  BY <1>0, SummaryAssumption, KindTyped
  DEF SummaryInv, TypeOK, Record, Fault, Return, Goto, journals, MessageAtMostOnce, EventsAreTrue, Sending,
      SendIsBacked, OutcomeIsTrue, RowIsTrue, OnlyStarted
<1>9. OnlyStarted'
  BY <1>0, SummaryAssumption, KindTyped
  DEF SummaryInv, TypeOK, Record, Fault, Return, Goto, journals, OnlyStarted, Runs
<1> QED
  BY <1>1, <1>2, <1>3, <1>4, <1>5, <1>6, <1>7, <1>8, <1>9 DEF SummaryInv

LEMMA ResultKeeps ==
    ASSUME SummaryInv, NEW n \in Runs, Result(n)
    PROVE  SummaryInv'
<1>0. TypeOK
  BY DEF SummaryInv
<1>1. TypeOK'
  <2>1. InWindow(n) => decision[n] \in Decisions
    BY DEF SummaryInv, EvaluationIsRecorded, Result
  <2>2. events' \subseteq [at : Runs, decision : Decisions, state : States, stored : BOOLEAN]
    <3>1. outcome[n] \in States
      BY <1>0 DEF TypeOK
    <3>2. ASSUME NEW b \in BOOLEAN, InWindow(n)
          PROVE  [at |-> n, decision |-> decision[n], state |-> outcome[n], stored |-> b]
                     \in [at : Runs, decision : Decisions, state : States, stored : BOOLEAN]
      BY <2>1, <3>1, <3>2
    <3>3. (outcome[n] # "persistence_failed") \in BOOLEAN
      BY Zenon
    <3>4. \/ events' = events
          \/ /\ InWindow(n)
             /\ events' = events \cup {[at |-> n, decision |-> decision[n], state |-> outcome[n],
                                        stored |-> outcome[n] # "persistence_failed"]}
      BY DEF Result
    <3> QED
      BY <1>0, <3>2, <3>3, <3>4, Zenon DEF TypeOK
  <2>3. results' \subseteq [at : Runs, state : States, enabled : BOOLEAN]
    BY <1>0 DEF Result, TypeOK
  <2>4. pc' \in [Runs -> PCs]
    BY <1>0 DEF Result, Unrecorded, Leave, Goto, TypeOK, PCs
  <2>5. /\ decision' \in [Runs -> Decisions \cup {"none"}] /\ bucket' \in [Runs -> Buckets \cup {"none"}]
        /\ outcome' \in [Runs -> States]
    BY <1>0 DEF Result, Unrecorded, Leave, Forget, TypeOK, States
  <2>6. cut' \subseteq Runs /\ faults' \in 0..MaxFaults
    BY <1>0, SummaryAssumption DEF Result, Unrecorded, Fault, TypeOK
  <2> QED
    BY <1>0, <2>2, <2>3, <2>4, <2>5, <2>6 DEF TypeOK, Result, sender
<1>2. HoldsKey' /\ HoldsClaim'
  BY <1>0, SummaryAssumption, KindTyped
  DEF SummaryInv, TypeOK, Result, Fault, Unrecorded, Leave, Forget, Goto, sender, HoldsKey, HoldsClaim,
      Sending, Runs
<1>3. RowIsTrue' /\ OutcomeIsTrue'
  BY <1>0, SummaryAssumption, KindTyped
  DEF SummaryInv, TypeOK, Result, Fault, Unrecorded, Leave, Forget, Goto, sender, RowIsTrue, OutcomeIsTrue,
      Sending, HoldsKey, HoldsClaim
<1>4. SendIsBacked'
  BY <1>0, SummaryAssumption, KindTyped
  DEF SummaryInv, TypeOK, Result, Fault, Unrecorded, Leave, Forget, Goto, sender, SendIsBacked, Sending,
      EvaluationIsRecorded
<1>5. EvaluationIsRecorded'
  <2> DEFINE event == [at |-> n, decision |-> decision[n], state |-> outcome[n],
                       stored |-> outcome[n] # "persistence_failed"]
  <2>1. events \subseteq events' /\ evaluations' = evaluations /\ cut \subseteq cut'
    BY DEF Result, Unrecorded
  <2>2. \A e \in Recorded : e \in Recorded'
    BY <2>1 DEF Recorded
  <2>3. \A m \in Runs : m # n => pc'[m] = pc[m] /\ decision'[m] = decision[m] /\ outcome'[m] = outcome[m]
    BY <1>0 DEF TypeOK, Result, Unrecorded, Leave, Forget, Goto
  <2>4. pc'[n] \in {"scheduler", "done"}
    BY <1>0 DEF TypeOK, Result, Unrecorded, Leave, Goto
  <2>5. InWindow(n) /\ n \notin cut' => \E e \in Recorded' : e.at = n
    <3> SUFFICES ASSUME InWindow(n), n \notin cut' PROVE \E e \in Recorded' : e.at = n
      OBVIOUS
    <3>1. event \in events'
      BY DEF Result, Unrecorded
    <3>2. CASE [at |-> n, decision |-> decision[n]] \in evaluations
      <4>1. [at |-> n, decision |-> decision[n]] \in Recorded'
        BY <2>1, <3>2 DEF Recorded
      <4> QED
        BY <4>1
    <3>3. CASE outcome[n] = "persistence_failed"
      <4>1. event \in {f \in events' : ~f.stored} /\ event.at = n
        BY <3>1, <3>3
      <4>2. [at |-> event.at, decision |-> event.decision] \in Recorded'
        BY <4>1 DEF Recorded
      <4> QED
        BY <4>1, <4>2
    <3> QED
      BY <3>2, <3>3 DEF SummaryInv, EvaluationIsRecorded, Result
  <2> HIDE DEF event
  <2> QED
    BY <2>1, <2>2, <2>3, <2>4, <2>5 DEF SummaryInv, EvaluationIsRecorded, Sending
<1>6. ResultIsOwn' /\ RightPlace'
  BY <1>0, SummaryAssumption, KindTyped
  DEF SummaryInv, TypeOK, Result, Fault, Unrecorded, Leave, Forget, Goto, sender, ResultIsOwn, RightPlace,
      SettledStates, Sending
<1>7. BucketIsTrue'
  BY <1>0, SummaryAssumption, KindTyped
  DEF SummaryInv, TypeOK, Result, Fault, Unrecorded, Leave, Forget, Goto, sender, BucketIsTrue
<1>8. MessageAtMostOnce' /\ EventsAreTrue'
  <2>1. pc[n] = "result" /\ (outcome[n] = "sent" => chat[Kind(n)] > 0)
    BY DEF SummaryInv, OutcomeIsTrue, Result
  <2>2. \A e \in events' : e \in events \/ (InWindow(n) /\ e.state = outcome[n])
    BY DEF Result
  <2>3. \A r \in results' : r \in results \/ (~InWindow(n) /\ r.state = outcome[n])
    BY DEF Result
  <2> QED
    BY <2>1, <2>2, <2>3 DEF SummaryInv, MessageAtMostOnce, EventsAreTrue, Result, sender, Kind
<1>9. OnlyStarted'
  BY <1>0, SummaryAssumption, KindTyped
  DEF SummaryInv, TypeOK, Result, Fault, Unrecorded, Leave, Forget, Goto, sender, OnlyStarted, Runs
<1> QED
  BY <1>1, <1>2, <1>3, <1>4, <1>5, <1>6, <1>7, <1>8, <1>9 DEF SummaryInv

LEMMA CrashKeeps ==
    ASSUME SummaryInv, NEW n \in Runs, Crash(n)
    PROVE  SummaryInv'
<1>0. TypeOK
  BY DEF SummaryInv
<1>1. TypeOK'
  BY <1>0, SummaryAssumption, KindTyped
  DEF SummaryInv, TypeOK, Crash, Fault, Forget, Goto, journals, Runs, Kinds, PCs, States, Buckets, Decisions,
      RowStates, Absent, Empty
<1>2. HoldsKey' /\ HoldsClaim'
  BY <1>0, SummaryAssumption, KindTyped
  DEF SummaryInv, TypeOK, Crash, Fault, Forget, Goto, journals, HoldsKey, HoldsClaim, Sending, Runs
<1>3. RowIsTrue' /\ OutcomeIsTrue'
  BY <1>0, SummaryAssumption, KindTyped
  DEF SummaryInv, TypeOK, Crash, Fault, Forget, Goto, journals, RowIsTrue, OutcomeIsTrue, Sending, HoldsKey,
      HoldsClaim
<1>4. SendIsBacked'
  BY <1>0, SummaryAssumption, KindTyped
  DEF SummaryInv, TypeOK, Crash, Fault, Forget, Goto, journals, SendIsBacked, Sending, EvaluationIsRecorded
<1>5. EvaluationIsRecorded'
  BY <1>0, SummaryAssumption, KindTyped
  DEF SummaryInv, TypeOK, Crash, Fault, Forget, Goto, journals, EvaluationIsRecorded, Sending, Recorded,
      RightPlace
<1>6. ResultIsOwn' /\ RightPlace'
  BY <1>0, SummaryAssumption, KindTyped
  DEF SummaryInv, TypeOK, Crash, Fault, Forget, Goto, journals, ResultIsOwn, RightPlace, SettledStates,
      Sending
<1>7. BucketIsTrue'
  BY <1>0, SummaryAssumption, KindTyped
  DEF SummaryInv, TypeOK, Crash, Fault, Forget, Goto, journals, BucketIsTrue
<1>8. MessageAtMostOnce' /\ EventsAreTrue'
  BY <1>0, SummaryAssumption, KindTyped
  DEF SummaryInv, TypeOK, Crash, Fault, Forget, Goto, journals, MessageAtMostOnce, EventsAreTrue, Sending,
      SendIsBacked, OutcomeIsTrue, RowIsTrue, OnlyStarted
<1>9. OnlyStarted'
  BY <1>0, SummaryAssumption, KindTyped
  DEF SummaryInv, TypeOK, Crash, Fault, Forget, Goto, journals, OnlyStarted, Runs
<1> QED
  BY <1>1, <1>2, <1>3, <1>4, <1>5, <1>6, <1>7, <1>8, <1>9 DEF SummaryInv

-----------------------------------------------------------------------------
(* The theorems *)

LEMMA InitHolds == Init => SummaryInv
<1> SUFFICES ASSUME Init PROVE SummaryInv
  OBVIOUS
<1>1. TypeOK
  BY SummaryAssumption DEF Init, TypeOK, Runs, Absent, Kinds, RowStates, PCs, States
<1>2. OnlyStarted /\ HoldsKey /\ HoldsClaim /\ RowIsTrue /\ OutcomeIsTrue /\ SendIsBacked
  BY KindTyped DEF Init, OnlyStarted, HoldsKey, HoldsClaim, RowIsTrue, OutcomeIsTrue, SendIsBacked, Sending
<1>3. EvaluationIsRecorded /\ ResultIsOwn /\ RightPlace /\ BucketIsTrue
  BY DEF Init, EvaluationIsRecorded, ResultIsOwn, RightPlace, BucketIsTrue, Sending
<1>4. MessageAtMostOnce /\ EventsAreTrue
  BY DEF Init, MessageAtMostOnce, EventsAreTrue, Kinds
<1> QED
  BY <1>1, <1>2, <1>3, <1>4 DEF SummaryInv

LEMMA StepKeeps ==
    ASSUME SummaryInv, [Next]_vars
    PROVE  SummaryInv'
<1>1. CASE Start
  BY <1>1, StartKeeps
<1>2. ASSUME NEW n \in Runs, Step(n) \/ Crash(n)
      PROVE  SummaryInv'
  BY <1>2, EvaluateKeeps, SchedulerKeeps, WriteStartKeeps, ReadKeeps, AttemptsKeeps, IntentKeeps, LockKeeps,
     ClaimKeeps, TransportKeeps, RecordKeeps, ResultKeeps, CrashKeeps
  DEF Step
<1>3. CASE UNCHANGED vars
  BY <1>3
  DEF vars, SummaryInv, TypeOK, OnlyStarted, HoldsKey, HoldsClaim, RowIsTrue, OutcomeIsTrue, SendIsBacked,
              EvaluationIsRecorded, Recorded, ResultIsOwn, RightPlace, BucketIsTrue, MessageAtMostOnce,
              EventsAreTrue
<1> QED
  BY <1>1, <1>2, <1>3 DEF Next

\* The inductive invariant holds in every state: a run that sends holds the message's key and its
\* pending row, and what rows, events and outcomes say of the chat is so (_process_due_summary, _send).
THEOREM SummaryInvariance == Spec => []SummaryInv
  BY InitHolds, StepKeeps, PTL DEF Spec

\* Neither message is sent twice, however runs overlap and die (_send, _process_due_summary).
THEOREM SentAtMostOnce == Spec => []MessageAtMostOnce
<1>1. SummaryInv => MessageAtMostOnce
  BY DEF SummaryInv
<1> QED
  BY <1>1, SummaryInvariance, PTL

\* A message has its durable intent and evaluation, and "sent" was sent (append_session_event).
THEOREM EventTruth == Spec => []EventsAreTrue
<1>1. SummaryInv => EventsAreTrue
  BY DEF SummaryInv
<1> QED
  BY <1>1, SummaryInvariance, PTL

\* A step of run m leaves the place of every other run alone.
LEMMA OneRunSteps ==
    ASSUME SummaryInv, [Next]_vars, NEW n \in Runs, pc'[n] # pc[n]
    PROVE  (pc'[n] \in {"evaluate", "scheduler"} /\ Start) \/ Step(n) \/ Crash(n)
<1>0. TypeOK
  BY DEF SummaryInv
<1>1. CASE Start
  BY <1>0, <1>1 DEF Start, Goto, TypeOK
<1>2. ASSUME NEW m \in Runs, Step(m) \/ Crash(m), m # n
      PROVE  pc'[n] = pc[n]
  BY <1>0, <1>2
  DEF TypeOK, Step, Crash, Evaluate, Scheduler, WriteStart, Read, Attempts, Intent, Send, Unrecorded, Leave, Lock,
      Claim, Return, Transport, Record, Result, Goto
<1> QED
  BY <1>1, <1>2 DEF Next, vars

\* The step of a run past the beginning of the summary: read, prepared, sent, or left (the labels
\* tell which).
LEMMA WhichStep ==
    ASSUME SummaryInv, [Next]_vars, NEW n \in Runs
    PROVE  /\ pc[n] = "read" /\ pc'[n] = "attempts" => Read(n)
           /\ pc[n] = "attempts" /\ pc'[n] = "intent" => Attempts(n)
           /\ pc[n] \notin {"scheduler", "write_start", "done"} /\ pc'[n] = "done" =>
                  Crash(n) \/ Read(n) \/ Intent(n) \/ Result(n)
<1>0. TypeOK
  BY DEF SummaryInv
<1>1. pc'[n] # pc[n] => pc'[n] \in {"evaluate", "scheduler"} \/ Step(n) \/ Crash(n)
  BY OneRunSteps
<1>2. Crash(n) => pc'[n] = "done"
  BY <1>0 DEF Crash, Goto, TypeOK
<1>3. pc[n] \in {"read", "attempts"} /\ Step(n) => Read(n) \/ Attempts(n)
  BY DEF Step, Evaluate, Scheduler, WriteStart, Intent, Lock, Claim, Transport, Record, Result
<1>4. Read(n) => pc[n] = "read"
  BY DEF Read
<1>5. Attempts(n) => pc[n] = "attempts" /\ pc'[n] = "intent"
  BY <1>0 DEF Attempts, Goto, TypeOK
<1>6. pc[n] \notin {"scheduler", "write_start"} /\ pc'[n] = "done" /\ Step(n) => Read(n) \/ Intent(n) \/ Result(n)
  BY <1>0
  DEF TypeOK, Step, Evaluate, Scheduler, WriteStart, Attempts, Lock, Claim, Return, Transport, Record, Goto
<1> QED
  BY <1>1, <1>2, <1>3, <1>4, <1>5, <1>6

\* A session is called missed only if every run of its window that is over failed to journal, and a
\* ticket's delivery is counted as what it was (build_session_summary, delivery_attempts).
THEOREM DigestTruth == Spec => DigestIsTrue
<1> DEFINE Missed(n) == pc[n] = "read" /\ pc'[n] = "attempts" /\ decision'[n] = "none" =>
                            \A m \in Runs : InWindow(m) /\ pc[m] = "done" => m \in cut
           Counted(n) == pc[n] = "attempts" /\ pc'[n] = "intent" =>
               /\ bucket'[n] = "succeeded" => chat["ticket"] > 0
               /\ chat["ticket"] > 0 /\ decision[n] = "alert" => bucket'[n] \in {"succeeded", "uncertain"}
<1>1. ASSUME SummaryInv, [Next]_vars, NEW n \in Runs
      PROVE  Missed(n)
  <2> SUFFICES ASSUME pc[n] = "read", pc'[n] = "attempts", decision'[n] = "none",
                      NEW m \in Runs, InWindow(m), pc[m] = "done"
               PROVE  m \in cut
    OBVIOUS
  <2>0. TypeOK
    BY <1>1 DEF SummaryInv
  <2>1. Read(n)
    BY <1>1, WhichStep
  <2>2. LatestDecision = "none"
    BY <2>0, <2>1 DEF Read, Goto, TypeOK
  <2>3. Recorded = {}
    BY <2>0, <2>2, LatestDecisionTyped
  <2> QED
    BY <1>1, <2>3 DEF SummaryInv, EvaluationIsRecorded
<1>2. ASSUME SummaryInv, [Next]_vars, NEW n \in Runs
      PROVE  Counted(n)
  <2> SUFFICES ASSUME pc[n] = "attempts", pc'[n] = "intent"
               PROVE  /\ bucket'[n] = "succeeded" => chat["ticket"] > 0
                      /\ chat["ticket"] > 0 /\ decision[n] = "alert" => bucket'[n] \in {"succeeded", "uncertain"}
    OBVIOUS
  <2>0. TypeOK
    BY <1>2 DEF SummaryInv
  <2>1. bucket'[n] = AttemptBucket(n)
    BY <1>2, <2>0, WhichStep DEF Attempts, TypeOK
  <2>2. /\ row["ticket"] \in RowStates
        /\ row["ticket"] \in {"absent", "DELIVERY_FAILED"} => chat["ticket"] = 0
        /\ row["ticket"] = "DELIVERED" => chat["ticket"] > 0
    BY <1>2, <2>0 DEF SummaryInv, TypeOK, RowIsTrue, Kinds
  <2>3. bucket[n] = "succeeded" => chat["ticket"] > 0
    BY <1>2 DEF SummaryInv, BucketIsTrue
  <2> QED
    BY <2>1, <2>2, <2>3 DEF AttemptBucket, DeliveryBucket, RowStates
<1>3. ASSUME SummaryInv, [Next]_vars
      PROVE  [\A n \in Runs :
                 /\ pc[n] = "read" /\ pc'[n] = "attempts" /\ decision'[n] = "none" =>
                        \A m \in Runs : InWindow(m) /\ pc[m] = "done" => m \in cut
                 /\ pc[n] = "attempts" /\ pc'[n] = "intent" =>
                        /\ bucket'[n] = "succeeded" => chat["ticket"] > 0
                        /\ chat["ticket"] > 0 /\ decision[n] = "alert" =>
                               bucket'[n] \in {"succeeded", "uncertain"}]_vars
  BY <1>1, <1>2, <1>3
<1> QED
  BY <1>3, SummaryInvariance, PTL DEF Spec, DigestIsTrue

\* A run with the gates open that is through with a due summary leaves it settled
\* (_process_due_summary, _latest_summary_result).
THEOREM SummarySettled == Spec => SummaryIsSettled
<1> DEFINE Settles(n) ==
               ~InWindow(n) /\ cfg[n] /\ pc[n] \notin {"scheduler", "write_start", "done"} /\ pc'[n] = "done" =>
                   n \in cut' \/ \E r \in results' : Final(r) \/ (r.at = n /\ r.state = "store_read_failed")
<1>1. ASSUME SummaryInv, [Next]_vars, NEW n \in Runs
      PROVE  Settles(n)
  <2> SUFFICES ASSUME ~InWindow(n), cfg[n], pc[n] \notin {"scheduler", "write_start", "done"}, pc'[n] = "done"
               PROVE  n \in cut' \/ \E r \in results' : Final(r) \/ (r.at = n /\ r.state = "store_read_failed")
    OBVIOUS
  <2>0. TypeOK
    BY <1>1 DEF SummaryInv
  <2>1. CASE Crash(n) \/ Intent(n)
    BY <2>0, <2>1 DEF TypeOK, Crash, Intent, Send, Unrecorded, Goto
  <2>2. CASE Read(n)
    <3>1. ~Reopened(n) /\ results' = results
      BY <2>0, <2>2 DEF TypeOK, Read, Goto, journals
    <3>2. PICK r \in Latest : ~(/\ r.state \notin SettledStates
                                /\ r.state \in {"disabled", "blocked"} => cfg[n] /\ ~r.enabled)
      BY <3>1 DEF Reopened
    <3>3. r \in results /\ (r.state = "disabled" => ~r.enabled)
      BY <1>1 DEF Latest, SummaryInv, ResultIsOwn
    <3>4. Final(r)
      BY <3>2, <3>3 DEF Final
    <3> QED
      BY <3>1, <3>3, <3>4
  <2>3. CASE Result(n)
    <3>1. pc[n] = "result"
      BY <2>3 DEF Result
    <3>2. CASE n \in cut'
      BY <3>2
    <3>3. CASE n \notin cut'
      <4> DEFINE own == [at |-> n, state |-> outcome[n], enabled |-> cfg[n]]
      <4>1. own \in results'
        BY <2>3, <3>3 DEF Result, Unrecorded
      <4>2. /\ outcome[n] \in SettledStates \cup {"disabled", "blocked", "store_read_failed"}
            /\ outcome[n] # "disabled"
        BY <1>1, <3>1 DEF SummaryInv, ResultIsOwn
      <4>3. own.at = n /\ own.state = outcome[n] /\ own.enabled
        OBVIOUS
      <4> HIDE DEF own
      <4>4. Final(own) \/ (own.at = n /\ own.state = "store_read_failed")
        BY <4>2, <4>3 DEF Final
      <4> QED
        BY <4>1, <4>4
    <3> QED
      BY <3>2, <3>3
  <2> QED
    BY <1>1, <2>1, <2>2, <2>3, WhichStep
<1>2. ASSUME SummaryInv, [Next]_vars
      PROVE  [\A n \in Runs : Settles(n)]_vars
  BY <1>1, <1>2
<1> QED
  BY <1>2, SummaryInvariance, PTL DEF Spec, SummaryIsSettled

\* A write of one row is that message's step of the courier.
LEMMA RowStep ==
    ASSUME NEW k \in Kinds, NEW s \in RowStates, row \in [Kinds -> RowStates],
           row' = [row EXCEPT ![k] = s], chat' = chat,
           \/ row[k] = "absent" /\ s = "pending"
           \/ row[k] = "pending" /\ s = "DELIVERY_UNCERTAIN"
           \/ row[k] = "pending" /\ s = "DELIVERED" /\ chat[k] = 1
           \/ row[k] = "pending" /\ s = "DELIVERY_FAILED" /\ chat[k] = 0
    PROVE  Promise!CourierNext
<1> DEFINE record == [j \in Kinds |-> RecordOf[row[j]]]
<1>1. record' = [record EXCEPT ![k] = RecordOf[s]]
  OBVIOUS
<1>2. CASE row[k] = "absent" /\ s = "pending"
  <2>1. Promise!Take(k)
    BY <1>1, <1>2 DEF Promise!Take, Promise!Settled, RecordOf
  <2> QED
    BY <2>1 DEF Promise!CourierNext
<1>3. CASE row[k] = "pending" /\ s = "DELIVERY_UNCERTAIN"
  <2>1. Promise!Doubt({k})
    BY <1>1, <1>3 DEF Promise!Doubt, RecordOf
  <2> QED
    BY <2>1 DEF Promise!CourierNext
<1>4. CASE row[k] = "pending" /\ s = "DELIVERED" /\ chat[k] = 1
  <2>1. Promise!Deliver(k)
    BY <1>1, <1>4 DEF Promise!Deliver, Promise!Settled, RecordOf
  <2> QED
    BY <2>1 DEF Promise!CourierNext
<1>5. CASE row[k] = "pending" /\ s = "DELIVERY_FAILED" /\ chat[k] = 0
  <2>1. Promise!Drop(k)
    BY <1>1, <1>5 DEF Promise!Drop, Promise!Settled, RecordOf
  <2> QED
    BY <2>1 DEF Promise!CourierNext
<1> QED
  BY <1>2, <1>3, <1>4, <1>5

\* The host's runs implement the courier for the ticket and the summary: no overlap, death or failed
\* write makes a run show what it did not claim, or a row say what is not so (Sender._send as
\* run_canonical_fx_cycle and _process_due_summary use it).
THEOREM SummaryImplementsCourier == Spec => ImplementsCourier
<1> DEFINE record == [k \in Kinds |-> RecordOf[row[k]]]
<1>1. Init => Promise!CourierInit
  BY DEF Init, Promise!CourierInit, RecordOf
<1>2. SummaryInv /\ [Next]_vars => [Promise!CourierNext]_<<record, chat>>
  <2> SUFFICES ASSUME SummaryInv, [Next]_vars, ~(row' = row /\ chat' = chat)
               PROVE  Promise!CourierNext
    OBVIOUS
  <2>1. row \in [Kinds -> RowStates] /\ chat \in [Kinds -> Nat]
    BY DEF SummaryInv, TypeOK
  <2>2. ASSUME NEW n \in Runs, Attempts(n) PROVE Promise!CourierNext
    <3>1. PICK ms \in SUBSET Kinds : ms = {k \in Kinds : row[k] = "pending" /\ held[k] = 0}
      OBVIOUS
    <3>2. chat' = chat /\ row' = [k \in Kinds |-> IF k \in ms THEN "DELIVERY_UNCERTAIN" ELSE row[k]]
      BY <2>2, <3>1 DEF Attempts
    <3>3. Promise!Doubt(ms)
      BY <3>1, <3>2 DEF Promise!Doubt, RecordOf
    <3> QED
      BY <3>3 DEF Promise!CourierNext
  <2>3. ASSUME NEW n \in Runs, Claim(n) PROVE Promise!CourierNext
    <3>1. chat' = chat /\ row' # row
      BY <2>3 DEF Claim
    <3>2. PICK s \in RowStates : /\ row' = [row EXCEPT ![Kind(n)] = s]
                                 /\ \/ row[Kind(n)] = "absent" /\ s = "pending"
                                    \/ row[Kind(n)] = "pending" /\ s = "DELIVERY_UNCERTAIN"
      BY <2>1, <2>3, <3>1, KindTyped DEF Claim, RowStates
    <3>3. Kind(n) \in Kinds
      BY KindTyped
    <3> QED
      BY <2>1, <3>1, <3>2, <3>3, RowStep
  <2>4. ASSUME NEW n \in Runs, Transport(n) PROVE Promise!CourierNext
    <3>1. row[Kind(n)] = "pending" /\ chat[Kind(n)] = 0 /\ row' = row
      BY <2>4 DEF Transport, SummaryInv, HoldsClaim, Sending, RowIsTrue
    <3>2. chat' = [chat EXCEPT ![Kind(n)] = 1]
      <4>1. PICK shown \in {0, 1} : chat' = [chat EXCEPT ![Kind(n)] = @ + shown]
        BY <2>4 DEF Transport
      <4>2. shown = 1
        BY <2>1, <3>1, <4>1
      <4> QED
        BY <3>1, <4>1, <4>2
    <3>3. Promise!Show(Kind(n))
      BY <3>1, <3>2, KindTyped DEF Promise!Show, RecordOf
    <3> QED
      BY <3>3, KindTyped DEF Promise!CourierNext
  <2>5. ASSUME NEW n \in Runs, Record(n) PROVE Promise!CourierNext
    <3>1. chat' = chat /\ row' = [row EXCEPT ![Kind(n)] = RowOf[outcome[n]]]
      BY <2>5 DEF Record
    <3>2. /\ row[Kind(n)] = "pending"
          /\ outcome[n] \in {"sent", "failed", "uncertain"}
          /\ outcome[n] = "sent" => chat[Kind(n)] = 1
          /\ outcome[n] = "failed" => chat[Kind(n)] = 0
      BY <2>1, <2>5, KindTyped
      DEF Record, SummaryInv, HoldsClaim, Sending, OutcomeIsTrue, MessageAtMostOnce
    <3>3. PICK s \in RowStates : /\ row' = [row EXCEPT ![Kind(n)] = s]
                                 /\ \/ s = "DELIVERED" /\ chat[Kind(n)] = 1
                                    \/ s = "DELIVERY_FAILED" /\ chat[Kind(n)] = 0
                                    \/ s = "DELIVERY_UNCERTAIN"
      <4>1. CASE outcome[n] = "sent"
        BY <3>1, <3>2, <4>1 DEF RowOf, RowStates
      <4>2. CASE outcome[n] = "failed"
        BY <3>1, <3>2, <4>2 DEF RowOf, RowStates
      <4>3. CASE outcome[n] = "uncertain"
        BY <3>1, <3>2, <4>3 DEF RowOf, RowStates
      <4> QED
        BY <3>2, <4>1, <4>2, <4>3
    <3>4. Kind(n) \in Kinds
      BY KindTyped
    <3> QED
      BY <2>1, <3>1, <3>2, <3>3, <3>4, RowStep
  <2> QED
    BY <2>2, <2>3, <2>4, <2>5
    DEF Next, Step, vars, sender, Start, Evaluate, Scheduler, WriteStart, Read, Intent, Lock, Result, Crash
<1> QED
  BY <1>1, <1>2, SummaryInvariance, PTL DEF Spec, ImplementsCourier, Promise!CourierSpec
=============================================================================
