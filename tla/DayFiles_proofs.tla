--------------------------- MODULE DayFiles_proofs ---------------------------
(***************************************************************************)
(* What the lifecycle trail and the emergency stop promise, for any        *)
(* tickets, callers, clock and days.  Both rest on what reading the day    *)
(* files back in order returns; the facts about that are proved by         *)
(* induction on the days, with the least day at which a fact fails.        *)
(***************************************************************************)
EXTENDS Lifecycle, EmergencyLatch, SequenceTheorems, WellFoundedInduction, TLAPS

-----------------------------------------------------------------------------
(* Induction and days *)

\* Induction from m up to k, with the set of the numbers for which a fact holds.
LEMMA UpTo ==
    ASSUME NEW m \in Nat, NEW k \in Nat, NEW S, m \in S,
           \A n \in Nat : m <= n /\ n < k /\ n \in S => n + 1 \in S
    PROVE  \A n \in Nat : m <= n /\ n <= k => n \in S
<1> DEFINE T == {n \in Nat : m <= n /\ n <= k /\ n \notin S}
           R == OpToRel(<, Nat)
<1> SUFFICES ASSUME T # {} PROVE FALSE
  OBVIOUS
<1>1. IsWellFoundedOn(R, Nat) /\ T \subseteq Nat
  BY NatLessThanWellFounded
<1>2. PICK x \in T : \A y \in T : ~(<<y, x>> \in R)
  <2> HIDE DEF T, R
  <2> QED
    BY <1>1, WFMin
<1>3. \A a, b \in Nat : a < b => <<a, b>> \in R
  BY Zenon DEF OpToRel
<1>4. x \in Nat /\ m <= x /\ x <= k /\ x \notin S
  BY <1>2
<1>5. x - 1 \in Nat /\ m <= x - 1 /\ x - 1 < k
  <2>1. x # m
    BY <1>4
  <2> QED
    BY <1>4, <2>1
<1>6. x - 1 \notin T
  <2> HIDE DEF T, R
  <2>1. x - 1 < x
    BY <1>4
  <2> QED
    BY <1>2, <1>3, <1>4, <1>5, <2>1
<1>7. x - 1 \in S
  BY <1>4, <1>5, <1>6
<1>8. (x - 1) + 1 \in S
  BY <1>5, <1>7
<1> QED
  BY <1>4, <1>8

\* The days are 0..Day(MaxTime), and a later time is on no earlier day.
LEMMA DayTyped == \A n \in Nat : Day(n) \in Nat
  BY DayAssumption DEF Day

LEMMA DayMonotone ==
    ASSUME NEW m \in Nat, NEW n \in Nat, m <= n
    PROVE  Day(m) <= Day(n)
  BY DayAssumption DEF Day

LEMMA DayOfTime ==
    ASSUME NEW n \in Time
    PROVE  Day(n) \in Days
  BY DayAssumption, DayTyped, DayMonotone DEF Days, Time

LEMMA LastDay == Day(MaxTime) \in Nat /\ Days = 0..Day(MaxTime) /\ 0 \in Days /\ Day(MaxTime) \in Days
  BY DayAssumption, DayTyped DEF Days

-----------------------------------------------------------------------------
(* Reading the files back *)

\* A file of rows of S for every day.
Files(S) == [Days -> Seq(S)]

\* acc accumulates the rows of the files fs, day by day.
Accumulates(acc, fs) ==
    /\ acc[0] = fs[0]
    /\ \A d \in Days \ {0} : acc[d] = acc[d - 1] \o fs[d]

AgreeBefore(fs, gs, d) == \A e \in Days : e < d => gs[e] = fs[e]

\* gs is fs with the row x appended to the file of day d.
Appends(fs, gs, d, x) == gs[d] = Append(fs[d], x) /\ \A e \in Days : e # d => gs[e] = fs[e]

\* The recursion of FlattenSeq has a solution, for files of any content.
LEMMA FlattenExists ==
    ASSUME NEW ss, NEW N \in Nat \ {0}
    PROVE  \E f : f = [i \in 1..N |-> IF i = 1 THEN ss[i] ELSE f[i - 1] \o ss[i]]
<1> DEFINE Solves(f, n) == f = [i \in 1..n |-> IF i = 1 THEN ss[i] ELSE f[i - 1] \o ss[i]]
           T == {n \in Nat : \E f : Solves(f, n)}
<1>1. 1 \in T
  <2>1. Solves([i \in 1..1 |-> ss[i]], 1)
    OBVIOUS
  <2> QED
    BY <2>1
<1>2. ASSUME NEW n \in Nat, 1 <= n, n \in T PROVE n + 1 \in T
  <2>1. PICK f : Solves(f, n)
    BY <1>2
  <2> DEFINE g == [i \in 1..(n + 1) |-> IF i = n + 1 THEN f[n] \o ss[n + 1] ELSE f[i]]
  <2>2. ASSUME NEW i \in 1..(n + 1) PROVE g[i] = IF i = 1 THEN ss[i] ELSE g[i - 1] \o ss[i]
    <3>1. CASE i = n + 1
      <4>1. i # 1 /\ i - 1 = n /\ n \in 1..(n + 1) /\ n # n + 1
        BY <1>2, <3>1
      <4>2. g[n] = f[n] /\ g[i] = f[n] \o ss[n + 1]
        BY <3>1, <4>1
      <4> HIDE DEF g
      <4> QED
        BY <3>1, <4>1, <4>2
    <3>2. CASE i # n + 1 /\ i = 1
      BY <1>2, <2>1, <3>2
    <3>3. CASE i # n + 1 /\ i # 1
      <4>1. i \in 1..n /\ i - 1 \in 1..(n + 1) /\ i - 1 # n + 1
        BY <1>2, <3>3
      <4>2. g[i] = f[i] /\ g[i - 1] = f[i - 1]
        BY <3>3, <4>1
      <4>3. f[i] = f[i - 1] \o ss[i]
        BY <2>1, <3>3, <4>1
      <4> HIDE DEF g
      <4> QED
        BY <3>3, <4>2, <4>3
    <3> QED
      BY <3>1, <3>2, <3>3
  <2>3. Solves(g, n + 1)
    <3>1. g = [i \in 1..(n + 1) |-> g[i]]
      OBVIOUS
    <3> HIDE DEF g
    <3> QED
      BY <2>2, <3>1
  <2> HIDE DEF g, Solves
  <2> QED
    BY <2>3
<1> HIDE DEF T
<1>3. N \in T
  BY <1>1, <1>2, UpTo
<1> QED
  BY <1>3 DEF T

\* What store.outcomes returns is what the files accumulate up to the last day.
LEMMA ReadBackAccumulates ==
    ASSUME NEW S, NEW fs \in Files(S)
    PROVE  \E acc \in Files(S) : Accumulates(acc, fs) /\ ReadBack(fs) = acc[Day(MaxTime)]
<1> DEFINE N == Day(MaxTime) + 1
           ss == [i \in 1..N |-> fs[i - 1]]
<1>1. N \in Nat \ {0} /\ \A i \in 1..N : i - 1 \in Days
  BY LastDay
<1>2. ss \in [1..N -> Seq(S)]
  BY <1>1 DEF Files
<1>3. Len(ss) = N
  <2>1. ss \in Seq(Seq(S)) /\ DOMAIN ss = 1..N
    BY <1>1, <1>2, SeqDef
  <2> HIDE DEF ss, N
  <2>2. Len(ss) \in Nat /\ 1..Len(ss) = 1..N
    BY <2>1, LenProperties
  <2> QED
    BY <1>1, <2>2
<1> DEFINE Solves(f) == f = [i \in 1..N |-> IF i = 1 THEN ss[i] ELSE f[i - 1] \o ss[i]]
           flat == CHOOSE f : Solves(f)
<1>4. \E f : Solves(f)
  <2> HIDE DEF N, ss
  <2> QED
    BY <1>1, FlattenExists
<1>5. Solves(flat)
  <2> HIDE DEF Solves
  <2> QED
    BY <1>4
<1>6. FlattenSeq(ss) = flat[N]
  <2> HIDE DEF ss, N
  <2> QED
    BY <1>1, <1>3 DEF FlattenSeq
<1> DEFINE acc == [d \in Days |-> flat[d + 1]]
<1> HIDE DEF flat
<1>7. acc[0] = fs[0]
  BY <1>1, <1>5, LastDay
<1>8. ASSUME NEW d \in Days, d # 0 PROVE acc[d] = acc[d - 1] \o fs[d]
  <2>1. d + 1 \in 1..N /\ d + 1 # 1 /\ (d + 1) - 1 = d /\ (d - 1) + 1 = d /\ d - 1 \in Days
    BY <1>8, LastDay
  <2>2. flat[d + 1] = flat[d] \o ss[d + 1]
    BY <1>5, <2>1
  <2> QED
    BY <2>1, <2>2
<1>9. Accumulates(acc, fs)
  <2> HIDE DEF acc
  <2> QED
    BY <1>7, <1>8 DEF Accumulates
<1>10. \A d \in Days : acc[d] \in Seq(S)
  <2> DEFINE T == {d \in Days : acc[d] \in Seq(S)}
  <2> HIDE DEF acc
  <2>1. 0 \in T
    BY <1>7, LastDay DEF Files
  <2>2. ASSUME NEW d \in Nat, d < Day(MaxTime), d \in T PROVE d + 1 \in T
    <3>1. d + 1 \in Days /\ d + 1 # 0 /\ (d + 1) - 1 = d
      BY <2>2, LastDay
    <3>2. acc[d + 1] = acc[d] \o fs[d + 1]
      BY <1>8, <3>1
    <3> QED
      BY <2>2, <3>1, <3>2, ConcatProperties DEF Files
  <2> HIDE DEF T
  <2>3. \A d \in Nat : 0 <= d /\ d <= Day(MaxTime) => d \in T
    BY <2>1, <2>2, LastDay, UpTo
  <2> QED
    BY <2>3, LastDay DEF T
<1>11. ReadBack(fs) = acc[Day(MaxTime)]
  BY <1>6, LastDay DEF ReadBack
<1>12. acc \in Files(S)
  BY <1>10 DEF Files
<1> HIDE DEF acc
<1> QED
  BY <1>9, <1>11, <1>12

\* A step of the accumulation.
LEMMA AccumulateStep ==
    ASSUME NEW acc, NEW fs, Accumulates(acc, fs), NEW d \in Nat, d < Day(MaxTime)
    PROVE  d \in Days /\ d + 1 \in Days /\ acc[d + 1] = acc[d] \o fs[d + 1]
<1>1. d \in Days /\ d + 1 \in Days \ {0} /\ (d + 1) - 1 = d
  BY LastDay
<1> QED
  BY <1>1 DEF Accumulates

LEMMA ReadBackTyped ==
    ASSUME NEW S, NEW fs \in Files(S)
    PROVE  ReadBack(fs) \in Seq(S)
  BY ReadBackAccumulates, LastDay DEF Files

\* Empty files at the end add nothing.
LEMMA LaterEmpty ==
    ASSUME NEW S, NEW fs \in Files(S), NEW acc \in Files(S), Accumulates(acc, fs),
           NEW d \in Days, \A e \in Days : e > d => fs[e] = <<>>
    PROVE  acc[Day(MaxTime)] = acc[d]
<1> DEFINE T == {e \in Nat : acc[e] = acc[d]}
<1>1. d \in Nat /\ d <= Day(MaxTime)
  BY LastDay
<1>2. d \in T
  BY <1>1
<1>3. ASSUME NEW e \in Nat, d <= e, e < Day(MaxTime), e \in T PROVE e + 1 \in T
  <2>1. e + 1 \in Days /\ acc[e + 1] = acc[e] \o fs[e + 1]
    BY <1>3, AccumulateStep
  <2>2. fs[e + 1] = <<>>
    BY <1>1, <1>3, <2>1
  <2>3. acc[e] = acc[d] /\ acc[d] \in Seq(S)
    BY <1>3 DEF Files
  <2> QED
    BY <2>1, <2>2, <2>3, ConcatEmptySeq
<1> HIDE DEF T
<1>4. \A e \in Nat : d <= e /\ e <= Day(MaxTime) => e \in T
  BY <1>1, <1>2, <1>3, LastDay, UpTo
<1> QED
  BY <1>1, <1>4, LastDay DEF T

\* Files that differ from day d on accumulate alike before it.
LEMMA SameBefore ==
    ASSUME NEW fs, NEW gs, NEW acc, NEW bcc, Accumulates(acc, fs), Accumulates(bcc, gs),
           NEW d \in Days, AgreeBefore(fs, gs, d),
           NEW b \in Days, b < d
    PROVE  bcc[b] = acc[b]
<1> DEFINE T == {e \in Nat : bcc[e] = acc[e]}
<1>1. d \in Nat /\ d <= Day(MaxTime) /\ b \in Nat /\ 0 < d
  BY LastDay
<1>2. 0 \in T
  BY <1>1, LastDay DEF Accumulates, AgreeBefore
<1>3. ASSUME NEW e \in Nat, e < b, e \in T PROVE e + 1 \in T
  <2>1. e < Day(MaxTime) /\ e + 1 < d
    BY <1>1, <1>3, LastDay
  <2>2. e + 1 \in Days /\ acc[e + 1] = acc[e] \o fs[e + 1] /\ bcc[e + 1] = bcc[e] \o gs[e + 1]
    BY <2>1, AccumulateStep
  <2>3. gs[e + 1] = fs[e + 1] /\ bcc[e] = acc[e]
    BY <1>3, <2>1, <2>2 DEF AgreeBefore
  <2>4. bcc[e + 1] = acc[e + 1]
    BY <2>2, <2>3, Zenon
  <2> QED
    BY <1>3, <2>4
<1> HIDE DEF T
<1>4. \A e \in Nat : 0 <= e /\ e <= b => e \in T
  BY <1>1, <1>2, <1>3, UpTo
<1> QED
  BY <1>1, <1>4 DEF T

LEMMA ConcatAppend ==
    ASSUME NEW S, NEW s \in Seq(S), NEW t \in Seq(S), NEW x \in S
    PROVE  s \o Append(t, x) = Append(s \o t, x)
<1>1. <<x>> \in Seq(S) /\ s \o t \in Seq(S)
  BY ConcatProperties
<1>2. (s \o t) \o <<x>> = s \o (t \o <<x>>)
  BY <1>1, ConcatAssociative
<1> QED
  BY <1>1, <1>2, AppendIsConcat

\* A row appended to the file of day d ends what is accumulated up to day d.
LEMMA AppendedAtDay ==
    ASSUME NEW S, NEW fs \in Files(S), NEW d \in Days, NEW x \in S,
           NEW acc \in Files(S), Accumulates(acc, fs),
           NEW gs, Appends(fs, gs, d, x), NEW bcc, Accumulates(bcc, gs)
    PROVE  bcc[d] = Append(acc[d], x)
<1>1. d \in Nat
  BY LastDay
<1>2. gs[d] = Append(fs[d], x) /\ AgreeBefore(fs, gs, d)
  <2>2. gs[d] = Append(fs[d], x)
    BY DEF Appends
  <2>3. \A e \in Days : e < d => e # d
    BY <1>1, LastDay
  <2> QED
    BY <2>2, <2>3 DEF Appends, AgreeBefore
<1>3. CASE d = 0
  BY <1>2, <1>3 DEF Accumulates
<1>4. CASE d # 0
  <2>1. PICK p \in Days : p < d /\ acc[d] = acc[p] \o fs[d] /\ bcc[d] = bcc[p] \o gs[d]
    <3>1. d - 1 \in Days /\ d - 1 < d
      BY <1>1, <1>4, LastDay
    <3>2. acc[d] = acc[d - 1] \o fs[d] /\ bcc[d] = bcc[d - 1] \o gs[d]
      BY <1>4 DEF Accumulates
    <3> QED
      BY <3>1, <3>2
  <2>2. bcc[p] = acc[p]
    BY <1>2, <2>1, SameBefore
  <2>3. acc[p] \in Seq(S) /\ fs[d] \in Seq(S)
    BY DEF Files
  <2>4. acc[p] \o Append(fs[d], x) = Append(acc[p] \o fs[d], x)
    <3>1. \A s, t \in Seq(S) : s \o Append(t, x) = Append(s \o t, x)
      BY ConcatAppend
    <3> QED
      BY <2>3, <3>1, Zenon
  <2> QED
    BY <1>2, <2>1, <2>2, <2>4, Zenon
<1> QED
  BY <1>3, <1>4

\* Appending to a file keeps the files typed.
LEMMA AppendTyped ==
    ASSUME NEW S, NEW fs \in Files(S), NEW d \in Days, NEW x \in S
    PROVE  [fs EXCEPT ![d] = Append(@, x)] \in Files(S)
  BY AppendProperties DEF Files

\* A row appended to the file of a day after which no file has a row comes last when read back.
LEMMA ReadBackAppend ==
    ASSUME NEW S, NEW fs \in Files(S), NEW d \in Days, NEW x \in S,
           \A e \in Days : e > d => fs[e] = <<>>, NEW gs \in Files(S), Appends(fs, gs, d, x)
    PROVE  ReadBack(gs) = Append(ReadBack(fs), x)
<1>1. PICK acc \in Files(S) : Accumulates(acc, fs) /\ ReadBack(fs) = acc[Day(MaxTime)]
  BY ReadBackAccumulates
<1>2. PICK bcc \in Files(S) : Accumulates(bcc, gs) /\ ReadBack(gs) = bcc[Day(MaxTime)]
  BY ReadBackAccumulates
<1>3. bcc[d] = Append(acc[d], x)
  BY <1>1, <1>2, AppendedAtDay
<1>4. acc[Day(MaxTime)] = acc[d]
  BY <1>1, LaterEmpty
<1>5. bcc[Day(MaxTime)] = bcc[d]
  <2>1. \A e \in Days : e > d => gs[e] = <<>>
    BY LastDay DEF Appends
  <2> QED
    BY <1>2, <2>1, LaterEmpty
<1> QED
  BY <1>1, <1>2, <1>3, <1>4, <1>5

Holds(s, x) == \E k \in 1..Len(s) : s[k] = x

LEMMA ConcatHolds ==
    ASSUME NEW S, NEW s \in Seq(S), NEW t \in Seq(S), NEW x
    PROVE  Holds(s, x) \/ Holds(t, x) => Holds(s \o t, x)
<1>1. /\ Len(s) \in Nat /\ Len(t) \in Nat /\ Len(s \o t) = Len(s) + Len(t)
      /\ \A i \in 1..(Len(s) + Len(t)) : (s \o t)[i] = IF i <= Len(s) THEN s[i] ELSE t[i - Len(s)]
  BY ConcatProperties, LenProperties
<1>2. ASSUME NEW k \in 1..Len(s), s[k] = x PROVE Holds(s \o t, x)
  <2>1. k \in 1..Len(s \o t) /\ (s \o t)[k] = x
    BY <1>1, <1>2
  <2> QED
    BY <2>1 DEF Holds
<1>3. ASSUME NEW k \in 1..Len(t), t[k] = x PROVE Holds(s \o t, x)
  <2>1. Len(s) + k \in 1..Len(s \o t) /\ ~(Len(s) + k <= Len(s)) /\ (Len(s) + k) - Len(s) = k
    BY <1>1
  <2>2. (s \o t)[Len(s) + k] = x
    BY <1>1, <1>3, <2>1
  <2> QED
    BY <2>1, <2>2 DEF Holds
<1> QED
  BY <1>2, <1>3 DEF Holds

\* Every row of every file is read back.
LEMMA ReadBackHolds ==
    ASSUME NEW S, NEW fs \in Files(S), NEW d \in Days, NEW x, Holds(fs[d], x)
    PROVE  Holds(ReadBack(fs), x)
<1>1. PICK acc \in Files(S) : Accumulates(acc, fs) /\ ReadBack(fs) = acc[Day(MaxTime)]
  BY ReadBackAccumulates
<1>2. \A e \in Days : fs[e] \in Seq(S) /\ acc[e] \in Seq(S)
  BY DEF Files
<1>3. d \in Nat /\ d <= Day(MaxTime)
  BY LastDay
<1> DEFINE T == {e \in Nat : Holds(acc[e], x)}
<1>4. Holds(acc[d], x)
  <2>1. CASE d = 0
    BY <1>1, <2>1 DEF Accumulates
  <2>2. CASE d # 0
    <3>1. PICK p \in Days : acc[d] = acc[p] \o fs[d]
      <4>1. d - 1 \in Days
        BY <1>3, <2>2, LastDay
      <4> QED
        BY <1>1, <2>2, <4>1 DEF Accumulates
    <3> QED
      BY <1>2, <3>1, ConcatHolds
  <2> QED
    BY <2>1, <2>2
<1>5. ASSUME NEW e \in Nat, d <= e, e < Day(MaxTime), e \in T PROVE e + 1 \in T
  <2>1. e \in Days /\ e + 1 \in Days /\ acc[e + 1] = acc[e] \o fs[e + 1]
    BY <1>1, <1>5, AccumulateStep
  <2>2. Holds(acc[e], x)
    BY <1>5
  <2>3. Holds(acc[e] \o fs[e + 1], x)
    BY <1>2, <2>1, <2>2, ConcatHolds
  <2>4. Holds(acc[e + 1], x)
    BY <2>1, <2>3
  <2> QED
    BY <2>4
<1>6. d \in T
  BY <1>3, <1>4
<1> HIDE DEF T
<1>7. \A e \in Nat : d <= e /\ e <= Day(MaxTime) => e \in T
  BY <1>3, <1>5, <1>6, LastDay, UpTo
<1> QED
  BY <1>1, <1>3, <1>7, LastDay DEF T

\* t has one row more than s, and ends with it or as s does.
Inserted(s, t, x) ==
    Len(t) = Len(s) + 1 /\ (Last(t) = x \/ (s # <<>> /\ Last(t) = Last(s)))

LEMMA ConcatInserted ==
    ASSUME NEW S, NEW s \in Seq(S), NEW t \in Seq(S), NEW u \in Seq(S), NEW x, Inserted(s, t, x)
    PROVE  Inserted(s \o u, t \o u, x)
<1>1. Len(s) \in Nat /\ Len(t) \in Nat /\ Len(u) \in Nat /\ Len(t) = Len(s) + 1
  BY LenProperties DEF Inserted
<1>2. CASE u = <<>>
  BY <1>2, ConcatEmptySeq
<1>3. CASE u # <<>>
  <2>1. Len(u) > 0
    BY <1>1, <1>3, EmptySeq
  <2>2. /\ Len(s \o u) = Len(s) + Len(u) /\ s \o u \in Seq(S)
        /\ (s \o u)[Len(s) + Len(u)] = u[Len(u)]
    <3>1. \A i \in 1..(Len(s) + Len(u)) : (s \o u)[i] = IF i <= Len(s) THEN s[i] ELSE u[i - Len(s)]
      BY ConcatProperties
    <3>2. Len(s) + Len(u) \in 1..(Len(s) + Len(u)) /\ ~(Len(s) + Len(u) <= Len(s))
          /\ (Len(s) + Len(u)) - Len(s) = Len(u)
      BY <1>1, <2>1
    <3> QED
      BY <3>1, <3>2, ConcatProperties
  <2>3. Len(t \o u) = Len(t) + Len(u) /\ (t \o u)[Len(t) + Len(u)] = u[Len(u)]
    <3>1. \A i \in 1..(Len(t) + Len(u)) : (t \o u)[i] = IF i <= Len(t) THEN t[i] ELSE u[i - Len(t)]
      BY ConcatProperties
    <3>2. Len(t) + Len(u) \in 1..(Len(t) + Len(u)) /\ ~(Len(t) + Len(u) <= Len(t))
          /\ (Len(t) + Len(u)) - Len(t) = Len(u)
      BY <1>1, <2>1
    <3> QED
      BY <3>1, <3>2, ConcatProperties
  <2>4. s \o u # <<>>
    BY <1>1, <2>1, <2>2, EmptySeq
  <2>5. Len(t \o u) = Len(s \o u) + 1
    BY <1>1, <2>2, <2>3
  <2>6. Last(t \o u) = u[Len(u)] /\ Last(s \o u) = u[Len(u)]
    BY <2>2, <2>3 DEF Last
  <2> QED
    BY <2>4, <2>5, <2>6 DEF Inserted
<1> QED
  BY <1>2, <1>3

\* A row appended to the file of any day is read last, or leaves the row that is.
LEMMA ReadBackInserted ==
    ASSUME NEW S, NEW fs \in Files(S), NEW d \in Days, NEW x \in S,
           NEW gs \in Files(S), Appends(fs, gs, d, x)
    PROVE  Inserted(ReadBack(fs), ReadBack(gs), x)
<1>2. PICK acc \in Files(S) : Accumulates(acc, fs) /\ ReadBack(fs) = acc[Day(MaxTime)]
  BY ReadBackAccumulates
<1>3. PICK bcc \in Files(S) : Accumulates(bcc, gs) /\ ReadBack(gs) = bcc[Day(MaxTime)]
  BY ReadBackAccumulates
<1>5. \A e \in Days : fs[e] \in Seq(S) /\ acc[e] \in Seq(S) /\ bcc[e] \in Seq(S)
  BY DEF Files
<1>6. d \in Nat /\ d <= Day(MaxTime)
  BY LastDay
<1> DEFINE T == {e \in Nat : Inserted(acc[e], bcc[e], x)}
<1>7. Inserted(acc[d], bcc[d], x)
  <2>1. bcc[d] = Append(acc[d], x)
    BY <1>2, <1>3, AppendedAtDay
  <2>2. acc[d] \in Seq(S)
    BY <1>5
  <2>3. Len(bcc[d]) = Len(acc[d]) + 1 /\ bcc[d][Len(acc[d]) + 1] = x
    BY <2>1, <2>2, AppendProperties
  <2> QED
    BY <2>3 DEF Inserted, Last
<1>8. ASSUME NEW e \in Nat, d <= e, e < Day(MaxTime), e \in T PROVE e + 1 \in T
  <2>1. /\ e \in Days /\ e + 1 \in Days
        /\ acc[e + 1] = acc[e] \o fs[e + 1] /\ bcc[e + 1] = bcc[e] \o gs[e + 1]
    BY <1>2, <1>3, <1>8, AccumulateStep
  <2>2. gs[e + 1] = fs[e + 1]
    BY <1>6, <1>8, <2>1 DEF Appends
  <2>3. Inserted(acc[e], bcc[e], x)
    BY <1>8
  <2>4. Inserted(acc[e] \o fs[e + 1], bcc[e] \o fs[e + 1], x)
    BY <1>5, <2>1, <2>3, ConcatInserted
  <2>5. Inserted(acc[e + 1], bcc[e + 1], x)
    BY <2>1, <2>2, <2>4
  <2> QED
    BY <2>5
<1>9. d \in T
  BY <1>6, <1>7
<1> HIDE DEF T
<1>10. \A e \in Nat : d <= e /\ e <= Day(MaxTime) => e \in T
  BY <1>6, <1>8, <1>9, LastDay, UpTo
<1>11. Inserted(acc[Day(MaxTime)], bcc[Day(MaxTime)], x)
  BY <1>6, <1>10, LastDay DEF T
<1> QED
  BY <1>2, <1>3, <1>11

\* Empty files are read back as nothing.
LEMMA ReadBackEmpty ==
    ASSUME NEW fs, fs \in Files({}), \A d \in Days : fs[d] = <<>>
    PROVE  ReadBack(fs) = <<>>
<1>1. PICK acc \in Files({}) : Accumulates(acc, fs) /\ ReadBack(fs) = acc[Day(MaxTime)]
  BY ReadBackAccumulates
<1>2. acc[0] = <<>>
  BY <1>1, LastDay DEF Accumulates
<1>3. acc[Day(MaxTime)] = acc[0]
  BY <1>1, LastDay, LaterEmpty
<1> QED
  BY <1>1, <1>2, <1>3

-----------------------------------------------------------------------------
(* The lifecycle trail: types *)

LEMMA IdleTyped == Idle \in Calls /\ Idle.pc = "idle"
  BY DEF Idle, Calls

\* A call under way has a ticket and a row, whose day has a file.
LEMMA CallTyped ==
    ASSUME TypeOK, NEW c \in Callers, call[c].pc \in {"enter", "write"}
    PROVE  /\ call[c] \in [pc : {"enter", "write"}, ticket : Tickets, row : Row, ids : IdInputs]
           /\ call[c].ticket \in Tickets /\ call[c].row \in Row
           /\ Day(call[c].row.at) \in Days
<1>1. call[c] \in Calls /\ call[c] # Idle
  BY IdleTyped DEF TypeOK
<1>2. call[c] \in [pc : {"enter", "write"}, ticket : Tickets, row : Row, ids : IdInputs]
  BY <1>1 DEF Calls
<1>3. call[c].row.at \in Time
  BY <1>2 DEF Row
<1> QED
  BY <1>2, <1>3, DayOfTime

LEMMA EnterTyped ==
    ASSUME TypeOK, NEW c \in Callers, NEW t \in Tickets, NEW s \in RowStates, NEW ids \in IdInputs,
           Enter(c, t, s, ids)
    PROVE  TypeOK' /\ call'[c].pc = "enter" /\ \A b \in Callers : b # c => call'[b] = call[b]
<1> DEFINE new == [pc |-> "enter", ticket |-> t, row |-> [state |-> s, at |-> clock], ids |-> ids]
<1>1. new \in Calls /\ new.pc = "enter"
  BY DEF TypeOK, Calls, Row
<1>2. call' = [call EXCEPT ![c] = new]
  BY DEF Enter
<1> HIDE DEF new
<1> QED
  BY <1>1, <1>2 DEF TypeOK, Enter

LEMMA AcquireTyped ==
    ASSUME TypeOK, NEW c \in Callers, Acquire(c)
    PROVE  TypeOK'
<1> DEFINE t == call[c].ticket
<1>1. call[c].pc = "enter"
  BY DEF Acquire
<1>2. /\ call[c] \in [pc : {"enter", "write"}, ticket : Tickets, row : Row, ids : IdInputs]
      /\ t \in Tickets
  BY <1>1, CallTyped
<1>3. CASE lock' = [lock EXCEPT ![t] = c] /\ call' = [call EXCEPT ![c].pc = "write"]
  <2>1. [call[c] EXCEPT !.pc = "write"] \in Calls
    BY <1>2 DEF Calls
  <2>2. call' \in [Callers -> Calls] /\ lock' \in [Tickets -> Callers \cup {Free}]
    BY <1>2, <1>3, <2>1 DEF TypeOK
  <2> QED
    BY <2>2 DEF TypeOK, Acquire
<1>4. CASE call' = [call EXCEPT ![c] = Idle] /\ UNCHANGED lock
  BY <1>4, IdleTyped DEF TypeOK, Acquire
<1> QED
  BY <1>3, <1>4 DEF Acquire

LEMMA WriteTyped ==
    ASSUME TypeOK, NEW c \in Callers, Write(c)
    PROVE  TypeOK'
<1> DEFINE t == call[c].ticket
           d == Day(call[c].row.at)
<1>1. call[c].pc = "write"
  BY DEF Write
<1>2. t \in Tickets /\ d \in Days /\ call[c].row \in Row
  BY <1>1, CallTyped
<1>3. Append(files[t][d], call[c].row) \in Seq(Row)
  BY <1>2, AppendProperties DEF TypeOK
<1>4. /\ files' \in {files, [files EXCEPT ![t][d] = Append(files[t][d], call[c].row)]}
      /\ lock' = [lock EXCEPT ![t] = Free] /\ call' = [call EXCEPT ![c] = Idle] /\ UNCHANGED clock
      /\ torn' \subseteq Days
  BY <1>2 DEF Write, TypeOK
<1> HIDE DEF t, d
<1>a. files \in [Tickets -> [Days -> Seq(Row)]] /\ files[t] \in [Days -> Seq(Row)]
  BY <1>2 DEF TypeOK
<1>b. [files[t] EXCEPT ![d] = Append(files[t][d], call[c].row)] \in [Days -> Seq(Row)]
  BY <1>a, <1>2, <1>3
<1>c. [files EXCEPT ![t] = [files[t] EXCEPT ![d] = Append(files[t][d], call[c].row)]]
        \in [Tickets -> [Days -> Seq(Row)]]
  BY <1>a, <1>b, <1>2
<1>d. [files EXCEPT ![t][d] = Append(files[t][d], call[c].row)]
        = [files EXCEPT ![t] = [files[t] EXCEPT ![d] = Append(files[t][d], call[c].row)]]
  BY <1>a, <1>2
<1>5. files' \in [Tickets -> [Days -> Seq(Row)]]
  BY <1>a, <1>c, <1>d, <1>4
<1> QED
  BY <1>2, <1>4, <1>5, IdleTyped DEF TypeOK

LEMMA CrashTyped ==
    ASSUME TypeOK, Crash
    PROVE  TypeOK'
<1>1. torn' \subseteq Days
  BY CallTyped DEF Crash, TypeOK
<1> QED
  BY <1>1, IdleTyped DEF Crash, TypeOK

LEMMA TickTyped ==
    ASSUME TypeOK, Tick
    PROVE  TypeOK'
  BY DayAssumption DEF Tick, TimePasses, TypeOK, Time

\* The rows of a trail, read back.
LEMMA TrailTyped ==
    ASSUME TypeOK, NEW t \in Tickets
    PROVE  files[t] \in Files(Row) /\ StoreRows(t) \in Seq(Row)
<1>1. files[t] \in Files(Row)
  BY DEF TypeOK, Files
<1> QED
  BY <1>1, ReadBackTyped DEF StoreRows

-----------------------------------------------------------------------------
(* The lifecycle trail: its rows *)

\* Along the table the rank rises.
LEMMA RankRises ==
    ASSUME NEW p \in TrailStates, NEW s \in ALLOWED_NEXT[p]
    PROVE  s \in RowStates /\ Rank[p] \in Nat /\ Rank[s] \in Nat /\ Rank[p] < Rank[s]
  BY DEF TrailStates, RowStates, LIFECYCLE_STATES, ALLOWED_NEXT, Rank

LEMMA RankTyped == \A s \in RowStates : s \in TrailStates /\ Rank[s] \in Nat
  BY DEF TrailStates, RowStates, LIFECYCLE_STATES, Rank

\* What append checks before it writes.
LEMMA AdmissibleFollows ==
    ASSUME NEW rows, NEW row, NEW ids, Admissible(rows, row, ids)
    PROVE  Readable /\ MayFollow(rows, row)
  BY DEF Admissible, TrailReason

GoodTrail(rows) == InTime(rows) /\ Climbs(rows) /\ Follows(rows)

\* A row that may follow makes a good trail longer.
LEMMA GoodAppend ==
    ASSUME NEW rows \in Seq(Row), NEW row \in Row, GoodTrail(rows), MayFollow(rows, row)
    PROVE  GoodTrail(Append(rows, row)) /\ Current(Append(rows, row)) = row.state
<1> DEFINE new == Append(rows, row)
           n == Len(rows)
<1>1. /\ new \in Seq(Row) /\ Len(new) = n + 1 /\ n \in Nat /\ new # <<>>
      /\ \A i \in 1..n : new[i] = rows[i]
      /\ new[n + 1] = row
  BY AppendProperties, LenProperties
<1>2. \A i \in 1..n : rows[i] \in Row
  BY ElementOfSeq
<1>3. Current(new) = row.state
  BY <1>1 DEF Current, Last
<1>4. n = 0 <=> rows = <<>>
  BY EmptySeq
<1> HIDE DEF new, n
<1>5. n > 0 => Current(rows) = rows[n].state /\ Last(rows) = rows[n] /\ n \in 1..n
  BY <1>1, <1>4 DEF Current, Last, n
<1>6. n = 0 => Current(rows) = "NONE"
  BY <1>4 DEF Current
<1>7. ASSUME NEW i \in 1..n PROVE rows[i].at <= row.at /\ Rank[rows[i].state] < Rank[row.state]
  <2>1. n > 0 /\ n \in 1..n /\ rows # <<>>
    BY <1>1, <1>4
  <2>2. rows[n].at <= row.at /\ row.state \in ALLOWED_NEXT[rows[n].state]
    BY <1>2, <1>5, <2>1 DEF MayFollow, Row, Time
  <2>3. rows[n].state \in TrailStates /\ rows[i].at \in Int /\ rows[n].at \in Int /\ row.at \in Int
    BY <1>2, <2>1, RankTyped, DayAssumption DEF Row, Time
  <2>4. Rank[rows[n].state] \in Nat /\ Rank[row.state] \in Nat /\ Rank[rows[n].state] < Rank[row.state]
    BY <2>2, <2>3, RankRises
  <2>5. CASE i = n
    BY <2>2, <2>4, <2>5
  <2>6. CASE i < n
    <3>1. rows[i].at <= rows[n].at /\ Rank[rows[i].state] < Rank[rows[n].state]
      BY <2>1, <2>6 DEF GoodTrail, InTime, Climbs, n
    <3>2. Rank[rows[i].state] \in Nat
      BY <1>2, RankTyped DEF Row
    <3> QED
      BY <2>2, <2>3, <2>4, <3>1, <3>2
  <2> QED
    BY <1>1, <2>5, <2>6
<1>8. InTime(new) /\ Climbs(new)
  <2> SUFFICES ASSUME NEW i \in 1..(n + 1), NEW j \in 1..(n + 1), i < j
               PROVE  new[i].at <= new[j].at /\ Rank[new[i].state] < Rank[new[j].state]
    BY <1>1 DEF InTime, Climbs
  <2>1. i \in 1..n /\ new[i] = rows[i]
    BY <1>1
  <2>2. CASE j = n + 1
    BY <1>1, <1>7, <2>1, <2>2
  <2>3. CASE j # n + 1
    <3>1. j \in 1..n /\ new[j] = rows[j]
      BY <1>1, <2>3
    <3> QED
      BY <2>1, <3>1 DEF GoodTrail, InTime, Climbs, n
  <2> QED
    BY <2>2, <2>3
<1>9. Follows(new)
  <2> SUFFICES ASSUME NEW i \in 1..(n + 1)
               PROVE  new[i].state \in ALLOWED_NEXT[IF i = 1 THEN "NONE" ELSE new[i - 1].state]
    BY <1>1 DEF Follows
  <2>1. CASE i = n + 1
    <3>1. row.state \in ALLOWED_NEXT[Current(rows)]
      BY DEF MayFollow
    <3>2. CASE n = 0
      BY <1>1, <1>6, <2>1, <3>1, <3>2
    <3>3. CASE n > 0
      <4>1. i # 1 /\ i - 1 = n /\ new[n] = rows[n]
        BY <1>1, <2>1, <3>3
      <4> QED
        BY <1>1, <1>5, <2>1, <3>1, <3>3, <4>1
    <3> QED
      BY <1>1, <3>2, <3>3
  <2>2. CASE i # n + 1
    <3>1. i \in 1..n /\ new[i] = rows[i] /\ (i # 1 => new[i - 1] = rows[i - 1])
      BY <1>1, <2>2
    <3>2. rows[i].state \in ALLOWED_NEXT[IF i = 1 THEN "NONE" ELSE rows[i - 1].state]
      BY <3>1 DEF GoodTrail, Follows, n
    <3> QED
      BY <3>1, <3>2
  <2> QED
    BY <2>1, <2>2
<1> QED
  BY <1>3, <1>8, <1>9 DEF GoodTrail, new

\* The reader finds nothing to reject in a good trail.
LEMMA GoodIsAccepted ==
    ASSUME NEW rows \in Seq(Row), GoodTrail(rows), Readable
    PROVE  TrailReason(rows) = "OK"
<1>1. Len(rows) \in Nat /\ \A i \in 1..Len(rows) : rows[i] \in Row
  BY LenProperties, ElementOfSeq
<1>2. \A i \in 1..Len(rows) : rows[i].at \in Int /\ Rank[rows[i].state] \in Nat
  BY <1>1, RankTyped, DayAssumption DEF Row, Time
<1>3. ASSUME NEW i \in 2..Len(rows) PROVE ~(rows[i].at < rows[i - 1].at)
  <2>1. i \in 1..Len(rows) /\ i - 1 \in 1..Len(rows) /\ i - 1 < i
    BY <1>1
  <2>2. rows[i - 1].at <= rows[i].at
    BY <2>1 DEF GoodTrail, InTime
  <2> QED
    BY <1>2, <2>1, <2>2
<1>4. ASSUME NEW i \in 1..Len(rows), NEW j \in 1..Len(rows), i # j PROVE rows[i].state # rows[j].state
  <2>1. i < j \/ j < i
    BY <1>1, <1>4
  <2>2. Rank[rows[i].state] # Rank[rows[j].state]
    BY <1>2, <2>1 DEF GoodTrail, Climbs
  <2> QED
    BY <2>2
<1>5. ~ \E i \in 1..Len(rows) :
          rows[i].state \notin ALLOWED_NEXT[IF i = 1 THEN "NONE" ELSE rows[i - 1].state]
  BY DEF GoodTrail, Follows
<1>6. /\ ~ \E i \in 2..Len(rows) : rows[i].at < rows[i - 1].at
      /\ ~ \E i, j \in 1..Len(rows) : i # j /\ rows[i].state = rows[j].state
  BY <1>3, <1>4
<1> QED
  BY <1>5, <1>6 DEF TrailReason

-----------------------------------------------------------------------------
(* The lifecycle trail: its steps *)

TrailIndInv == TypeOK /\ TrailInv

LEMMA GoodTrailOf ==
    ASSUME TrailIndInv, NEW t \in Tickets
    PROVE  GoodTrail(StoreRows(t))
  BY DEF TrailIndInv, TrailInv, TrailsAreGood, GoodTrail

\* When a row may follow a trail, no file of a later day than the row's has a row of the ticket.
LEMMA NoLaterRow ==
    ASSUME TrailIndInv, NEW t \in Tickets, NEW row \in Row, MayFollow(StoreRows(t), row),
           NEW e \in Days, e > Day(row.at)
    PROVE  files[t][e] = <<>>
<1> DEFINE rows == StoreRows(t)
<1> SUFFICES ASSUME files[t][e] # <<>> PROVE FALSE
  OBVIOUS
<1>1. files[t] \in Files(Row) /\ rows \in Seq(Row) /\ files[t][e] \in Seq(Row)
  BY TrailTyped DEF TrailIndInv, Files
<1> DEFINE x == files[t][e][1]
<1>2. 1 \in 1..Len(files[t][e]) /\ x \in Row
  <2>1. Len(files[t][e]) \in Nat \ {0}
    BY <1>1, EmptySeq
  <2>2. 1 \in 1..Len(files[t][e])
    BY <2>1
  <2> QED
    BY <1>1, <2>2, ElementOfSeq
<1>3. Day(x.at) = e
  BY <1>2 DEF TrailIndInv, TrailInv, RowsAreInTheirFile
<1>4. Holds(files[t][e], x)
  BY <1>2 DEF Holds
<1> HIDE DEF x
<1>5. Holds(rows, x)
  <2>1. Holds(ReadBack(files[t]), x)
    BY <1>1, <1>4, ReadBackHolds
  <2> QED
    BY <2>1 DEF StoreRows
<1>6. GoodTrail(rows)
  BY GoodTrailOf
<1>7. rows # <<>> => row.at >= Last(rows).at
  BY DEF MayFollow
<1> HIDE DEF rows
<1>8. PICK k \in 1..Len(rows) : rows[k] = x
  BY <1>5 DEF Holds
<1>9. Len(rows) \in Nat /\ Len(rows) \in 1..Len(rows) /\ rows # <<>>
  BY <1>1, <1>8, LenProperties, EmptySeq
<1>10. rows[Len(rows)] \in Row
  BY <1>1, <1>9, ElementOfSeq
<1>11. x.at \in Nat /\ row.at \in Nat /\ rows[Len(rows)].at \in Nat
  BY <1>2, <1>10, DayAssumption DEF Row, Time
<1>12. x.at <= rows[Len(rows)].at
  <2>1. CASE k = Len(rows)
    BY <1>8, <1>11, <2>1
  <2>2. CASE k # Len(rows)
    <3>1. k < Len(rows)
      BY <1>9, <2>2
    <3> QED
      BY <1>6, <1>8, <1>9, <3>1 DEF GoodTrail, InTime
  <2> QED
    BY <2>1, <2>2
<1>13. x.at <= row.at
  BY <1>7, <1>9, <1>11, <1>12 DEF Last
<1>14. Day(x.at) <= Day(row.at) /\ Day(x.at) \in Nat /\ Day(row.at) \in Nat
  BY <1>11, <1>13, DayMonotone, DayTyped
<1> QED
  BY <1>3, <1>14

\* The effect of a write: the ticket's file of the row's day and, read back, the end of its trail.
Wrote(t, row) ==
    /\ Appends(files[t], files'[t], Day(row.at), row)
    /\ ReadBack(files'[t]) = Append(ReadBack(files[t]), row)
    /\ \A u \in Tickets : u # t => files'[u] = files[u]

LEMMA WriteEffect ==
    ASSUME TrailIndInv, NEW c \in Callers, Write(c)
    PROVE  files' = files \/ Wrote(call[c].ticket, call[c].row)
<1> DEFINE t == call[c].ticket
           row == call[c].row
           d == Day(row.at)
<1>1. TypeOK /\ TypeOK' /\ call[c].pc = "write"
  BY WriteTyped DEF Write, TrailIndInv
<1>2. t \in Tickets /\ row \in Row /\ d \in Days
  BY <1>1, CallTyped
<1>3. MayFollow(StoreRows(t), row)
  BY <1>1 DEF TrailIndInv, TrailInv, WriterIsAlone
<1>4. files' = files \/ files' = [files EXCEPT ![t][d] = Append(@, row)]
  BY DEF Write
<1>5. \A e \in Days : e > d => files[t][e] = <<>>
  BY <1>2, <1>3, NoLaterRow
<1> HIDE DEF t, row, d
<1>6. CASE files' = [files EXCEPT ![t][d] = Append(@, row)]
  <2>1. Appends(files[t], files'[t], d, row) /\ \A u \in Tickets : u # t => files'[u] = files[u]
    BY <1>1, <1>2, <1>6 DEF TypeOK, Appends
  <2>2. files[t] \in Files(Row) /\ files'[t] \in Files(Row)
    BY <1>1, <1>2 DEF TypeOK, Files
  <2>3. ReadBack(files'[t]) = Append(ReadBack(files[t]), row)
    BY <1>2, <1>5, <2>1, <2>2, ReadBackAppend
  <2> QED
    BY <2>1, <2>3 DEF Wrote, t, row, d
<1> QED
  BY <1>4, <1>6

\* Only a write touches a file.
LEMMA OnlyWritesWrite ==
    ASSUME [Next]_vars, ~ \E c \in Callers : Write(c)
    PROVE  files' = files
  BY DEF Next, vars, Tick, Crash, Enter, Acquire

\* Rows that are not touched stay good, in their files.
LEMMA SameFiles ==
    ASSUME TrailIndInv, files' = files
    PROVE  TrailsAreGood' /\ RowsAreInTheirFile'
  BY DEF TrailIndInv, TrailInv, TrailsAreGood, RowsAreInTheirFile, StoreRows

LEMMA WriterStays ==
    ASSUME TrailIndInv, NEW b \in Callers, call'[b] = call[b], call[b].pc = "write",
           lock'[call[b].ticket] = lock[call[b].ticket],
           files'[call[b].ticket] = files[call[b].ticket]
    PROVE  /\ lock'[call'[b].ticket] = b
           /\ MayFollow(ReadBack(files'[call[b].ticket]), call'[b].row)
  BY DEF TrailIndInv, TrailInv, WriterIsAlone, StoreRows

LEMMA EnterTrail ==
    ASSUME TrailIndInv, NEW c \in Callers, NEW t \in Tickets, NEW s \in RowStates, NEW ids \in IdInputs,
           Enter(c, t, s, ids)
    PROVE  TrailInv'
<1>1. call'[c].pc = "enter" /\ \A b \in Callers : b # c => call'[b] = call[b]
  BY EnterTyped DEF TrailIndInv
<1>2. UNCHANGED <<files, lock>>
  BY DEF Enter
<1>3. WriterIsAlone'
  BY <1>1, <1>2, WriterStays DEF WriterIsAlone, StoreRows
<1> QED
  BY <1>2, <1>3, SameFiles DEF TrailInv

LEMMA AcquireTrail ==
    ASSUME TrailIndInv, NEW c \in Callers, Acquire(c)
    PROVE  TrailInv'
<1> DEFINE t == call[c].ticket
<1>1. TypeOK /\ call[c].pc = "enter" /\ UNCHANGED files /\ lock[t] = Free
  BY DEF TrailIndInv, Acquire, LockFree
<1>2. t \in Tickets /\ call[c] \in [pc : {"enter", "write"}, ticket : Tickets, row : Row, ids : IdInputs]
  BY <1>1, CallTyped
<1>3. \A b \in Callers : b # c => call'[b] = call[b]
  BY <1>1 DEF Acquire, TypeOK
<1>4. ASSUME NEW b \in Callers, b # c, call[b].pc = "write" PROVE call[b].ticket # t /\ call[b].ticket \in Tickets
  <2>1. lock[call[b].ticket] = b
    BY <1>4 DEF TrailIndInv, TrailInv, WriterIsAlone
  <2> QED
    BY <1>1, <1>4, <2>1, CallTyped, LifecycleAssumption
<1>5. CASE /\ Admissible(StoreRows(t), call[c].row, call[c].ids)
           /\ lock' = [lock EXCEPT ![t] = c] /\ call' = [call EXCEPT ![c].pc = "write"]
  <2>1. MayFollow(StoreRows(t), call[c].row)
    BY <1>5, AdmissibleFollows
  <2>2. call'[c].ticket = t /\ call'[c].row = call[c].row /\ lock'[t] = c
    BY <1>1, <1>2, <1>5 DEF TypeOK
  <2>3. \A u \in Tickets : u # t => lock'[u] = lock[u]
    BY <1>1, <1>2, <1>5 DEF TypeOK
  <2>4. ASSUME NEW b \in Callers, call'[b].pc = "write"
        PROVE  /\ lock'[call'[b].ticket] = b
               /\ MayFollow(ReadBack(files'[call[b].ticket]), call'[b].row) /\ call'[b].ticket = call[b].ticket
    <3>1. CASE b = c
      BY <1>1, <2>1, <2>2, <3>1 DEF StoreRows
    <3>2. CASE b # c
      <4>1. call'[b] = call[b] /\ call[b].pc = "write"
        BY <1>3, <2>4, <3>2
      <4>2. lock'[call[b].ticket] = lock[call[b].ticket]
        BY <1>4, <2>3, <3>2, <4>1
      <4> QED
        BY <1>1, <4>1, <4>2, WriterStays
    <3> QED
      BY <3>1, <3>2
  <2>5. WriterIsAlone'
    BY <2>4 DEF WriterIsAlone, StoreRows
  <2> QED
    BY <1>1, <2>5, SameFiles DEF TrailInv
<1>6. CASE call' = [call EXCEPT ![c] = Idle] /\ UNCHANGED lock
  <2>1. call'[c].pc = "idle"
    BY <1>1, <1>6, IdleTyped DEF TypeOK
  <2>2. WriterIsAlone'
    BY <1>1, <1>3, <1>6, <2>1, WriterStays DEF WriterIsAlone, StoreRows
  <2> QED
    BY <1>1, <2>2, SameFiles DEF TrailInv
<1> QED
  BY <1>5, <1>6 DEF Acquire

LEMMA WriteTrail ==
    ASSUME TrailIndInv, NEW c \in Callers, Write(c)
    PROVE  TrailInv'
<1> DEFINE t == call[c].ticket
           row == call[c].row
<1>1. TypeOK /\ call[c].pc = "write"
  BY DEF TrailIndInv, Write
<1>2. t \in Tickets /\ row \in Row /\ Day(row.at) \in Days
  BY <1>1, CallTyped
<1>3. /\ call'[c].pc = "idle" /\ \A b \in Callers : b # c => call'[b] = call[b]
      /\ \A u \in Tickets : u # t => lock'[u] = lock[u]
  BY <1>1, <1>2, IdleTyped DEF Write, TypeOK
<1>4. ASSUME NEW b \in Callers, b # c, call[b].pc = "write" PROVE call[b].ticket # t /\ call[b].ticket \in Tickets
  <2>1. lock[call[b].ticket] = b /\ lock[t] = c
    BY <1>1, <1>4 DEF TrailIndInv, TrailInv, WriterIsAlone
  <2> QED
    BY <1>1, <1>4, <2>1, CallTyped
<1>5. \A u \in Tickets : u # t => files'[u] = files[u]
  BY WriteEffect DEF Wrote
<1>6. WriterIsAlone'
  <2> SUFFICES ASSUME NEW b \in Callers, call'[b].pc = "write"
               PROVE  /\ lock'[call'[b].ticket] = b
                      /\ MayFollow(ReadBack(files'[call[b].ticket]), call'[b].row) /\ call'[b].ticket = call[b].ticket
    BY DEF WriterIsAlone, StoreRows
  <2>1. b # c /\ call'[b] = call[b] /\ call[b].pc = "write"
    BY <1>3
  <2>2. call[b].ticket # t /\ call[b].ticket \in Tickets
    BY <1>4, <2>1
  <2> QED
    BY <1>1, <1>3, <1>5, <2>1, <2>2, WriterStays
<1>7. CASE files' = files
  BY <1>6, <1>7, SameFiles DEF TrailInv
<1>8. CASE Wrote(t, row)
  <2>1. TrailsAreGood'
    <3>1. GoodTrail(ReadBack(files'[t]))
      <4>1. StoreRows(t) \in Seq(Row) /\ GoodTrail(StoreRows(t)) /\ MayFollow(StoreRows(t), row)
        BY <1>1, <1>2, TrailTyped, GoodTrailOf DEF TrailIndInv, TrailInv, WriterIsAlone
      <4>2. GoodTrail(Append(StoreRows(t), row))
        BY <1>2, <4>1, GoodAppend
      <4> QED
        BY <1>8, <4>2 DEF Wrote, StoreRows
    <3>2. ASSUME NEW u \in Tickets, u # t PROVE GoodTrail(ReadBack(files'[u]))
      <4>1. GoodTrail(ReadBack(files[u]))
        BY GoodTrailOf DEF StoreRows
      <4> QED
        BY <1>5, <3>2, <4>1
    <3>3. \A u \in Tickets : GoodTrail(ReadBack(files'[u]))
      BY <3>1, <3>2
    <3> QED
      BY <3>3 DEF TrailsAreGood, GoodTrail, StoreRows
  <2>2. RowsAreInTheirFile'
    <3> SUFFICES ASSUME NEW u \in Tickets, NEW e \in Days, NEW i \in 1..Len(files'[u][e])
                 PROVE  Day(files'[u][e][i].at) = e
      BY DEF RowsAreInTheirFile
    <3> HIDE DEF t, row
    <3>1. CASE files'[u][e] = files[u][e]
      BY <3>1 DEF TrailIndInv, TrailInv, RowsAreInTheirFile
    <3>2. CASE u = t /\ e = Day(row.at)
      <4>1. files[t][e] \in Seq(Row) /\ files'[t][e] = Append(files[t][e], row)
        BY <1>1, <1>2, <1>8, <3>2 DEF Wrote, Appends, TypeOK
      <4>2. /\ Len(files[t][e]) \in Nat /\ Len(files'[t][e]) = Len(files[t][e]) + 1
            /\ \A j \in 1..Len(files[t][e]) : files'[t][e][j] = files[t][e][j]
            /\ files'[t][e][Len(files[t][e]) + 1] = row
        <5>1. \A f \in Seq(Row) :
                /\ Len(f) \in Nat /\ Len(Append(f, row)) = Len(f) + 1
                /\ \A j \in 1..Len(f) : Append(f, row)[j] = f[j]
                /\ Append(f, row)[Len(f) + 1] = row
          BY <1>2, AppendProperties, LenProperties
        <5> QED
          BY <4>1, <5>1
      <4>3. CASE i = Len(files[t][e]) + 1
        BY <3>2, <4>2, <4>3
      <4>4. CASE i # Len(files[t][e]) + 1
        <5>1. i \in 1..(Len(files[t][e]) + 1)
          BY <3>2, <4>2
        <5>2. i \in 1..Len(files[t][e])
          BY <4>2, <4>4, <5>1
        <5>3. Day(files[t][e][i].at) = e
          BY <1>2, <5>2 DEF TrailIndInv, TrailInv, RowsAreInTheirFile
        <5> QED
          BY <3>2, <4>2, <5>2, <5>3
      <4> QED
        BY <4>3, <4>4
    <3> QED
      BY <1>2, <1>5, <1>8, <3>1, <3>2 DEF Wrote, Appends
  <2> QED
    BY <1>6, <2>1, <2>2 DEF TrailInv
<1> QED
  BY <1>7, <1>8, WriteEffect

LEMMA CrashTrail ==
    ASSUME TrailIndInv, Crash
    PROVE  TrailInv'
<1>1. WriterIsAlone'
  BY IdleTyped DEF Crash, WriterIsAlone
<1>2. files' = files
  BY DEF Crash
<1> QED
  BY <1>1, <1>2, SameFiles DEF TrailInv

LEMMA QuietTrail ==
    ASSUME TrailIndInv, UNCHANGED <<files, lock, call>>
    PROVE  TrailInv'
<1>1. WriterIsAlone'
  BY DEF TrailIndInv, TrailInv, WriterIsAlone, StoreRows
<1> QED
  BY <1>1, SameFiles DEF TrailInv

LEMMA NextTrail ==
    ASSUME TrailIndInv, [Next]_vars
    PROVE  TrailIndInv'
<1>1. CASE Tick
  BY <1>1, TickTyped, QuietTrail DEF Tick, TimePasses, TrailIndInv
<1>2. CASE UNCHANGED vars
  BY <1>2, QuietTrail DEF vars, TrailIndInv, TypeOK
<1>3. CASE Crash
  BY <1>3, CrashTyped, CrashTrail DEF TrailIndInv
<1>4. ASSUME NEW c \in Callers, NEW t \in Tickets, NEW s \in RowStates, NEW ids \in IdInputs,
             Enter(c, t, s, ids)
      PROVE  TrailIndInv'
  BY <1>4, EnterTyped, EnterTrail DEF TrailIndInv
<1>5. ASSUME NEW c \in Callers, Acquire(c) PROVE TrailIndInv'
  BY <1>5, AcquireTyped, AcquireTrail DEF TrailIndInv
<1>6. ASSUME NEW c \in Callers, Write(c) PROVE TrailIndInv'
  BY <1>6, WriteTyped, WriteTrail DEF TrailIndInv
<1> QED
  BY <1>1, <1>2, <1>3, <1>4, <1>5, <1>6 DEF Next

LEMMA InitTrails ==
    ASSUME Init
    PROVE  \A t \in Tickets : StoreRows(t) = <<>>
<1> SUFFICES ASSUME NEW t \in Tickets PROVE StoreRows(t) = <<>>
  OBVIOUS
<1>1. files[t] = [d \in Days |-> <<>>]
  BY DEF Init
<1>2. files[t] \in Files({}) /\ \A d \in Days : files[t][d] = <<>>
  BY <1>1, EmptySeq DEF Files
<1> QED
  BY <1>2, ReadBackEmpty DEF StoreRows

LEMMA InitTrail ==
    ASSUME Init
    PROVE  TrailIndInv
<1>1. TypeOK
  BY IdleTyped, DayAssumption, EmptySeq DEF Init, TypeOK, Time
<1>2. TrailsAreGood
  BY InitTrails, EmptySeq DEF TrailsAreGood, InTime, Climbs, Follows
<1>3. RowsAreInTheirFile
  BY EmptySeq DEF Init, RowsAreInTheirFile
<1>4. WriterIsAlone
  BY IdleTyped DEF Init, WriterIsAlone
<1> QED
  BY <1>1, <1>2, <1>3, <1>4 DEF TrailIndInv, TrailInv

\* Types, and rows that are in order, in their files and written only by who holds the ticket's lock
\* over a trail that is still the one it checked, in every behaviour (ExecutionLifecycle.append).
THEOREM TrailInvariance == Spec => [](TypeOK /\ TrailInv)
  BY InitTrail, NextTrail, PTL DEF Spec, TrailIndInv

\* The reader accepts every trail the writer made, unless a write tore a line (append, trail).
THEOREM ReaderAccepts == Spec => []ReaderAcceptsWriter
<1>1. TrailIndInv => ReaderAcceptsWriter
  <2> SUFFICES ASSUME TrailIndInv, Readable, NEW t \in Tickets
               PROVE  TrailReason(StoreRows(t)) = "OK"
    BY DEF ReaderAcceptsWriter
  <2>1. StoreRows(t) \in Seq(Row) /\ GoodTrail(StoreRows(t))
    BY TrailTyped, GoodTrailOf DEF TrailIndInv
  <2> QED
    BY <2>1, GoodIsAccepted
<1> QED
  BY <1>1, TrailInvariance, PTL DEF TrailIndInv

\* A closed ticket stays closed: the store stays unreadable, and append's re-read lets no caller in.
LEMMA StaysClosed ==
    ASSUME TrailIndInv, [Next]_vars, NEW t \in Tickets, Closed(t)
    PROVE  files'[t] = files[t] /\ Closed(t)'
<1>1. TypeOK /\ ~Readable /\ \A b \in Callers : call[b].pc = "write" => call[b].ticket # t
  BY DEF Closed, TrailIndInv
<1>2. torn \subseteq torn'
  BY DEF Next, vars, Tick, TimePasses, Crash, Enter, Acquire, Write
<1>3. ~Readable'
  BY <1>1, <1>2 DEF Readable
<1>4. CASE UNCHANGED <<files, call>>
  BY <1>1, <1>3, <1>4 DEF Closed
<1>5. CASE Crash
  BY <1>3, <1>5, IdleTyped DEF Crash, Closed
<1>6. ASSUME NEW c \in Callers, NEW u \in Tickets, NEW s \in RowStates, NEW ids \in IdInputs,
             Enter(c, u, s, ids)
      PROVE  files'[t] = files[t] /\ Closed(t)'
  <2>1. call'[c].pc = "enter" /\ \A b \in Callers : b # c => call'[b] = call[b]
    BY <1>1, <1>6, EnterTyped
  <2> QED
    BY <1>1, <1>3, <1>6, <2>1 DEF Enter, Closed
<1>7. ASSUME NEW c \in Callers, Acquire(c)
      PROVE  files'[t] = files[t] /\ Closed(t)'
  <2>1. ~Admissible(StoreRows(call[c].ticket), call[c].row, call[c].ids)
    BY <1>1, AdmissibleFollows
  <2>2. call' = [call EXCEPT ![c] = Idle] /\ UNCHANGED files
    BY <1>7, <2>1 DEF Acquire
  <2>3. call'[c].pc = "idle" /\ \A b \in Callers : b # c => call'[b] = call[b]
    BY <1>1, <2>2, IdleTyped DEF TypeOK
  <2> QED
    BY <1>1, <1>3, <2>2, <2>3 DEF Closed
<1>8. ASSUME NEW c \in Callers, Write(c)
      PROVE  files'[t] = files[t] /\ Closed(t)'
  <2>1. call[c].pc = "write" /\ call' = [call EXCEPT ![c] = Idle]
    BY <1>8 DEF Write
  <2>2. call'[c].pc = "idle" /\ \A b \in Callers : b # c => call'[b] = call[b]
    BY <1>1, <2>1, IdleTyped DEF TypeOK
  <2>3. files'[t] = files[t]
    BY <1>1, <1>8, <2>1, WriteEffect DEF Wrote
  <2> QED
    BY <1>1, <1>3, <2>2, <2>3 DEF Closed
<1> QED
  BY <1>4, <1>5, <1>6, <1>7, <1>8 DEF Next, vars, Tick

\* After a torn line a ticket with no append past its re-read never gets a row again, in any file, by
\* no caller, old clock or restart (ExecutionLifecycle.append, trail).
THEOREM TornStaysClosed == Spec => TornFailsClosed
<1>1. TrailIndInv /\ [Next]_vars
        => [\A t \in Tickets : Closed(t) => files'[t] = files[t] /\ Closed(t)']_vars
  BY StaysClosed
<1> QED
  BY <1>1, TrailInvariance, PTL DEF Spec, TornFailsClosed, TrailIndInv

\* What a step does to the trails as they are read back: nothing, or a row that may follow is added
\* at the end of one.
LEMMA TrailStep ==
    ASSUME TrailIndInv, [Next]_vars, files' # files
    PROVE  \E t \in Tickets, row \in Row :
             /\ ReadBack(files[t]) \in Seq(Row) /\ GoodTrail(ReadBack(files[t]))
             /\ MayFollow(ReadBack(files[t]), row)
             /\ ReadBack(files'[t]) = Append(ReadBack(files[t]), row)
             /\ \A u \in Tickets : u # t => files'[u] = files[u]
<1>1. PICK c \in Callers : Write(c)
  BY OnlyWritesWrite
<1> DEFINE t == call[c].ticket
           row == call[c].row
<1>2. TypeOK /\ call[c].pc = "write"
  BY <1>1 DEF TrailIndInv, Write
<1>3. t \in Tickets /\ row \in Row
  BY <1>2, CallTyped
<1>4. Wrote(t, row)
  BY <1>1, WriteEffect
<1>5. StoreRows(t) \in Seq(Row) /\ GoodTrail(StoreRows(t)) /\ MayFollow(StoreRows(t), row)
  BY <1>2, <1>3, TrailTyped, GoodTrailOf DEF TrailIndInv, TrailInv, WriterIsAlone
<1> HIDE DEF t, row
<1> QED
  BY <1>3, <1>4, <1>5 DEF Wrote, StoreRows

LEMMA AppendExtends ==
    ASSUME NEW S, NEW s \in Seq(S), NEW x \in S
    PROVE  IsPrefix(s, Append(s, x)) /\ IsPrefix(s, s)
<1>1. /\ Len(s) \in Nat /\ Len(Append(s, x)) = Len(s) + 1 /\ \A i \in 1..Len(s) : s[i] \in S
      /\ \A i \in 1..Len(s) : Append(s, x)[i] = s[i]
  BY AppendProperties, LenProperties, ElementOfSeq
<1>2. /\ SubSeq(s, 1, Len(s)) \in Seq(S) /\ Len(SubSeq(s, 1, Len(s))) = Len(s)
      /\ \A i \in 1..Len(s) : SubSeq(s, 1, Len(s))[i] = s[i]
  BY <1>1, SubSeqFull
<1>3. /\ SubSeq(Append(s, x), 1, Len(s)) \in Seq(S)
      /\ Len(SubSeq(Append(s, x), 1, Len(s))) = Len(s)
      /\ \A i \in 1..Len(s) : SubSeq(Append(s, x), 1, Len(s))[i] = s[i]
  <2> DEFINE a == Append(s, x)
  <2>1. \A i \in 1..Len(s) : a[i] \in S
    BY <1>1
  <2> HIDE DEF a
  <2>2. /\ SubSeq(a, 1, Len(s)) \in Seq(S)
        /\ Len(SubSeq(a, 1, Len(s))) = IF 1 <= Len(s) THEN Len(s) - 1 + 1 ELSE 0
        /\ \A i \in 1..(Len(s) - 1 + 1) : SubSeq(a, 1, Len(s))[i] = a[1 + i - 1]
    BY <1>1, <2>1, SubSeqProperties
  <2>3. \A i \in 1..Len(s) : SubSeq(a, 1, Len(s))[i] = a[i]
    BY <1>1, <2>2
  <2> QED
    BY <1>1, <2>2, <2>3 DEF a
<1>4. SubSeq(s, 1, Len(s)) = SubSeq(Append(s, x), 1, Len(s))
  BY <1>2, <1>3, SeqEqual
<1> QED
  BY <1>1, <1>4 DEF IsPrefix

\* A trail as it is read back only grows at its end (append: the row is no older than the last one,
\* so it goes to the last file that has a row of the ticket, or to a later one).
THEOREM TrailExtends == Spec => TrailOnlyExtends
<1>1. ASSUME TrailIndInv, [Next]_vars, NEW t \in Tickets
      PROVE  IsPrefix(ReadBack(files[t]), ReadBack(files'[t]))
  <2>1. ReadBack(files[t]) \in Seq(Row)
    BY <1>1, TrailTyped DEF TrailIndInv, StoreRows
  <2>2. CASE files'[t] = files[t]
    <3>1. IsPrefix(ReadBack(files[t]), ReadBack(files[t]))
      BY DEF IsPrefix
    <3> QED
      BY <2>2, <3>1
  <2>3. CASE files'[t] # files[t]
    <3>1. PICK row \in Row : ReadBack(files'[t]) = Append(ReadBack(files[t]), row)
      BY <1>1, <2>3, TrailStep
    <3>2. IsPrefix(ReadBack(files[t]), Append(ReadBack(files[t]), row))
      BY <2>1, AppendExtends
    <3> QED
      BY <3>1, <3>2
  <2> QED
    BY <2>2, <2>3
<1>2. TrailIndInv /\ [Next]_vars => [\A t \in Tickets : IsPrefix(StoreRows(t), StoreRows(t)')]_vars
  BY <1>1 DEF StoreRows
<1> QED
  BY <1>2, TrailInvariance, PTL DEF Spec, TrailOnlyExtends, TrailIndInv

\* The day files implement the abstract chain: what is read back of a ticket starts with nothing and
\* moves only along the table of legal successors (append, trail).
THEOREM TrailImplementsChain == Spec => ImplementsChain
<1> DEFINE state == [t \in Tickets |-> Current(StoreRows(t))]
<1>1. Init => Chain!ChainInit
  BY InitTrails DEF Chain!ChainInit, Current
<1>2. TrailIndInv /\ [Next]_vars => [Chain!ChainNext]_state
  <2> SUFFICES ASSUME TrailIndInv, [Next]_vars
               PROVE  [Chain!ChainNext]_state
    OBVIOUS
  <2>1. CASE files' = files
    BY <2>1 DEF StoreRows
  <2>2. CASE files' # files
    <3>1. PICK t \in Tickets, row \in Row :
             /\ ReadBack(files[t]) \in Seq(Row) /\ GoodTrail(ReadBack(files[t]))
             /\ MayFollow(ReadBack(files[t]), row)
             /\ ReadBack(files'[t]) = Append(ReadBack(files[t]), row)
             /\ \A u \in Tickets : u # t => files'[u] = files[u]
      BY <2>2, TrailStep
    <3>2. Current(ReadBack(files'[t])) = row.state
      BY <3>1, GoodAppend
    <3>3. row.state \in ALLOWED_NEXT[state[t]] /\ row.state \in RowStates
      BY <3>1 DEF MayFollow, StoreRows, Row
    <3>4. state' = [state EXCEPT ![t] = row.state]
      BY <3>1, <3>2 DEF StoreRows
    <3>5. Chain!ALLOWED_NEXT = ALLOWED_NEXT /\ Chain!RowStates = RowStates
      BY DEF Chain!ALLOWED_NEXT, Chain!RowStates, Chain!TrailStates, Chain!LIFECYCLE_STATES,
             ALLOWED_NEXT, RowStates, TrailStates, LIFECYCLE_STATES
    <3> HIDE DEF state
    <3>6. \E u \in Tickets, s \in Chain!RowStates :
             s \in Chain!ALLOWED_NEXT[state[u]] /\ state' = [state EXCEPT ![u] = s]
      BY <3>3, <3>4, <3>5
    <3> QED
      BY <3>6 DEF Chain!ChainNext, Chain!Advance, state
  <2> QED
    BY <2>1, <2>2
<1> QED
  BY <1>1, <1>2, TrailInvariance, PTL DEF Spec, ImplementsChain, Chain!ChainSpec, TrailIndInv

-----------------------------------------------------------------------------
(* The emergency stop *)

LatchIndInv == LatchTypeOK /\ LatchInv

LEMMA LatchTyped ==
    ASSUME LatchTypeOK
    PROVE  /\ latch \in Files(LatchRows) /\ RowsRead \in Seq(LatchRows)
           /\ clock \in Nat /\ Day(clock) \in Days /\ started \in Nat /\ Day(started) \in Days
<1>1. latch \in Files(LatchRows)
  BY DEF LatchTypeOK, Files
<1>2. clock \in Nat /\ started \in Nat
  BY DayAssumption DEF LatchTypeOK, Time
<1>3. Day(clock) \in Days /\ Day(started) \in Days
  BY DayOfTime DEF LatchTypeOK
<1> QED
  BY <1>1, <1>2, <1>3, ReadBackTyped DEF RowsRead

\* The last row of a list of latch rows is one of the two.
LEMMA LastLatchRow ==
    ASSUME NEW rows \in Seq(LatchRows), rows # <<>>
    PROVE  Last(rows) \in LatchRows
<1>1. Len(rows) \in 1..Len(rows)
  BY EmptySeq
<1> QED
  BY <1>1, ElementOfSeq DEF Last

\* A row written into the file of day d: where it is, and where it is read.
LEMMA WrittenEffect ==
    ASSUME LatchTypeOK, NEW result \in LatchRows, NEW n \in Time, Written(result, n)
    PROVE  /\ latch' \in Files(LatchRows) /\ Appends(latch, latch', Day(n), result)
           /\ Inserted(RowsRead, ReadBack(latch'), result)
<1>1. latch \in Files(LatchRows) /\ Day(n) \in Days
  BY LatchTyped, DayOfTime
<1>2. latch' = [latch EXCEPT ![Day(n)] = Append(@, result)]
  BY DEF Written
<1>3. latch' \in Files(LatchRows)
  BY <1>1, <1>2, AppendTyped
<1>4. Appends(latch, latch', Day(n), result)
  BY <1>1, <1>2 DEF Appends, Files
<1> QED
  BY <1>1, <1>3, <1>4, ReadBackInserted DEF RowsRead

\* A row that is no newer than the clock leaves the later files empty; on the clock's own day it is
\* read last.
LEMMA WrittenKeeps ==
    ASSUME LatchIndInv, NEW result \in LatchRows, NEW n \in Time, n <= clock, Written(result, n),
           UNCHANGED clock
    PROVE  /\ latch' \in [Days -> Seq(LatchRows)] /\ Len(ReadBack(latch')) <= MaxRows
           /\ last' \in LatchRows /\ crossed' \in BOOLEAN /\ UNCHANGED torn
           /\ LaterFilesAreEmpty' /\ LastWasRead'
<1>1. LatchTypeOK /\ LaterFilesAreEmpty /\ LastWasRead
  BY DEF LatchIndInv, LatchInv
<1>2. latch \in Files(LatchRows) /\ RowsRead \in Seq(LatchRows) /\ clock \in Nat /\ Day(clock) \in Nat /\ n \in Nat
  BY <1>1, LatchTyped, DayTyped, DayAssumption DEF Time
<1>3. /\ latch' \in Files(LatchRows) /\ Appends(latch, latch', Day(n), result)
      /\ Inserted(RowsRead, ReadBack(latch'), result)
  BY <1>1, WrittenEffect
<1>4. Len(ReadBack(latch')) <= MaxRows
  BY <1>2, <1>3, LatchAssumption, LenProperties DEF Written, Inserted
<1>5. last' = result /\ crossed' \in BOOLEAN /\ UNCHANGED torn
  BY <1>1 DEF Written, LatchTypeOK
<1>6. Day(n) \in Days /\ Day(n) \in Nat /\ Day(n) <= Day(clock)
  BY <1>2, DayOfTime, DayTyped, DayMonotone
<1>7. LaterFilesAreEmpty'
  <2> SUFFICES ASSUME NEW d \in Days, d > Day(clock) PROVE latch'[d] = <<>>
    BY DEF LaterFilesAreEmpty
  <2>1. d # Day(n)
    BY <1>2, <1>6, LastDay
  <2> QED
    BY <1>1, <1>3, <2>1 DEF LaterFilesAreEmpty, Appends
<1>8. ASSUME ~crossed' PROVE last' = IF ReadBack(latch') = <<>> THEN "NONE" ELSE Last(ReadBack(latch'))
  <2>1. Day(n) = Day(clock)
    BY <1>8 DEF Written
  <2>2. \A d \in Days : d > Day(n) => latch[d] = <<>>
    BY <1>1, <2>1 DEF LaterFilesAreEmpty
  <2>3. ReadBack(latch') = Append(RowsRead, result)
    BY <1>2, <1>3, <1>6, <2>2, ReadBackAppend DEF RowsRead
  <2>4. /\ Append(RowsRead, result) # <<>>
        /\ Len(Append(RowsRead, result)) = Len(RowsRead) + 1
        /\ Append(RowsRead, result)[Len(RowsRead) + 1] = result
    BY <1>2, AppendProperties
  <2>5. Last(Append(RowsRead, result)) = result
    BY <2>4 DEF Last
  <2> QED
    BY <1>5, <2>3, <2>4, <2>5
<1>9. LastWasRead'
  BY <1>8 DEF LastWasRead, RowsRead
<1> QED
  BY <1>3, <1>4, <1>5, <1>7, <1>9 DEF Files

\* Either way of a write: the row is there, or it is not and the file may have a part of it.
LEMMA WriteKeepsLatch ==
    ASSUME LatchIndInv, NEW result \in LatchRows, NEW n \in Time, n <= clock,
           Written(result, n) \/ NotWritten(n), UNCHANGED clock
    PROVE  /\ latch' \in [Days -> Seq(LatchRows)] /\ Len(ReadBack(latch')) <= MaxRows
           /\ last' \in LatchRows \cup {"NONE"} /\ crossed' \in BOOLEAN /\ torn' \subseteq Days
           /\ LaterFilesAreEmpty' /\ LastWasRead'
<1>1. CASE Written(result, n)
  BY <1>1, WrittenKeeps DEF LatchIndInv, LatchTypeOK
<1>2. CASE NotWritten(n)
  <2>1. Day(n) \in Days
    BY DayOfTime
  <2> QED
    BY <1>2, <2>1 DEF NotWritten, LatchIndInv, LatchInv, LatchTypeOK, LaterFilesAreEmpty, LastWasRead, RowsRead
<1> QED
  BY <1>1, <1>2

LEMMA NextLatch ==
    ASSUME LatchIndInv, [LatchNext]_latchVars
    PROVE  LatchIndInv'
<1> USE DEF LatchIndInv, LatchInv
<1>1. LatchTypeOK /\ clock \in Nat /\ started \in Nat /\ Day(clock) \in Days /\ Day(started) \in Days
  BY LatchTyped
<1>2. CASE LatchTick
  <2>1. clock' = clock + 1 /\ clock' \in Time /\ UNCHANGED <<torn, latch, cycle, started, last, crossed>>
    BY <1>1, <1>2, DayAssumption DEF LatchTick, TimePasses, LatchTypeOK, Time
  <2>2. Day(clock) <= Day(clock') /\ Day(clock) \in Nat /\ Day(clock') \in Nat
    BY <1>1, <2>1, DayMonotone, DayTyped
  <2>3. LaterFilesAreEmpty'
    BY <2>1, <2>2, LastDay DEF LaterFilesAreEmpty
  <2> QED
    BY <1>1, <2>1, <2>3 DEF LatchTypeOK, StartedBefore, LastWasRead, RowsRead
<1>3. CASE OwnerClear
  BY <1>1, <1>3, WriteKeepsLatch DEF OwnerClear, LatchTypeOK, LatchRows, StartedBefore, RowsRead
<1>4. CASE CycleStart
  BY <1>1, <1>4 DEF CycleStart, LatchTypeOK, LaterFilesAreEmpty, StartedBefore, LastWasRead, RowsRead
<1>5. CASE CycleCheck
  BY <1>1, <1>5, DayAssumption
     DEF CycleCheck, LatchTypeOK, LaterFilesAreEmpty, StartedBefore, LastWasRead, RowsRead, Time
<1>6. CASE CycleEngage
  <2>1. "ENGAGED" \in LatchRows /\ started \in Time /\ started <= clock
    BY <1>1 DEF LatchRows, LatchTypeOK, StartedBefore
  <2>2. UNCHANGED clock /\ cycle' = "idle" /\ started' = 0
    BY <1>6 DEF CycleEngage
  <2>3. /\ latch' \in [Days -> Seq(LatchRows)] /\ Len(ReadBack(latch')) <= MaxRows
        /\ last' \in LatchRows \cup {"NONE"} /\ crossed' \in BOOLEAN /\ torn' \subseteq Days
        /\ LaterFilesAreEmpty' /\ LastWasRead'
    BY <1>6, <2>1, <2>2, WriteKeepsLatch DEF CycleEngage
  <2>4. LatchTypeOK' /\ StartedBefore'
    BY <1>1, <2>2, <2>3, DayAssumption DEF LatchTypeOK, StartedBefore, RowsRead, Time
  <2> QED
    BY <2>3, <2>4
<1>7. CASE LatchCrash
  <2>1. torn' \subseteq Days
    BY <1>1, <1>7 DEF LatchCrash, LatchTypeOK
  <2> QED
    BY <1>1, <1>7, <2>1, DayAssumption
       DEF LatchCrash, LatchTypeOK, LaterFilesAreEmpty, StartedBefore, LastWasRead, RowsRead, Time
<1>8. CASE UNCHANGED latchVars
  BY <1>1, <1>8 DEF latchVars, LatchTypeOK, LaterFilesAreEmpty, StartedBefore, LastWasRead, RowsRead
<1> QED
  BY <1>2, <1>3, <1>4, <1>5, <1>6, <1>7, <1>8 DEF LatchNext

LEMMA InitLatch ==
    ASSUME LatchInit
    PROVE  LatchIndInv
<1>1. latch \in Files({}) /\ \A d \in Days : latch[d] = <<>>
  BY EmptySeq DEF LatchInit, Files
<1>2. RowsRead = <<>>
  BY <1>1, ReadBackEmpty DEF RowsRead
<1>3. LatchTypeOK
  <2>1. latch \in [Days -> Seq(LatchRows)]
    BY EmptySeq DEF LatchInit
  <2>2. Len(RowsRead) <= MaxRows
    BY <1>2, EmptySeq, LatchAssumption
  <2>3. clock \in Time /\ started \in Time
    BY DayAssumption DEF LatchInit, Time
  <2>4. /\ torn \subseteq Days /\ cycle \in {"idle", "running", "engage"}
        /\ last \in LatchRows \cup {"NONE"} /\ crossed \in BOOLEAN
    BY DEF LatchInit
  <2> QED
    BY <2>1, <2>2, <2>3, <2>4 DEF LatchTypeOK
<1>4. LatchInv
  BY <1>1, <1>2 DEF LatchInit, LatchInv, LaterFilesAreEmpty, StartedBefore, LastWasRead
<1> QED
  BY <1>3, <1>4 DEF LatchIndInv

\* The types of the stop, and no row in a file ahead of the clock, in every behaviour (emergency.py).
THEOREM LatchInvariance == LatchSpec => [](LatchTypeOK /\ LatchInv)
  BY InitLatch, NextLatch, PTL DEF LatchSpec, LatchIndInv

\* While no row went to the file of an earlier day, status answers what the last write said
\* (emergency.status, engage, clear).
THEOREM LatchTruth == LatchSpec => []LatchIsLastWrite
<1>1. LatchIndInv => LatchIsLastWrite
  <2> SUFFICES ASSUME LatchIndInv, ~crossed
               PROVE  Engaged <=> ~Readable \/ last = "ENGAGED"
    BY DEF LatchIsLastWrite
  <2>1. last = IF RowsRead = <<>> THEN "NONE" ELSE Last(RowsRead)
    BY DEF LatchIndInv, LatchInv, LastWasRead
  <2>2. RowsRead # <<>> => Last(RowsRead) \in LatchRows
    BY LatchTyped, LastLatchRow DEF LatchIndInv
  <2> QED
    BY <2>1, <2>2 DEF Engaged, LatchRows
<1> QED
  BY <1>1, LatchInvariance, PTL DEF LatchIndInv

\* Nothing but an owner's row releases the stop: a row of the monitor that is written late is read
\* last or leaves the last row, and no step repairs a torn file (emergency.status, clear).
THEOREM ReleasedByOwner == LatchSpec => OnlyOwnerReleases
<1>1. ASSUME LatchIndInv, [LatchNext]_latchVars, Engaged, ~Engaged'
      PROVE  last' = "CLEARED" /\ latch' # latch
  <2>1. torn \subseteq torn'
    BY <1>1 DEF LatchNext, latchVars, LatchTick, TimePasses, OwnerClear, Written, NotWritten, CycleStart,
       CycleCheck, CycleEngage, LatchCrash
  <2>2. /\ Readable /\ RowsRead # <<>> /\ Last(RowsRead) # "CLEARED"
        /\ ~(ReadBack(latch') # <<>> /\ Last(ReadBack(latch')) # "CLEARED")
    BY <1>1, <2>1 DEF Engaged, Readable, RowsRead
  <2>3. latch' # latch
    BY <2>2 DEF RowsRead
  <2>4. ASSUME CycleEngage PROVE FALSE
    <3>1. Written("ENGAGED", started) /\ "ENGAGED" \in LatchRows /\ started \in Time /\ LatchTypeOK
      BY <1>1, <2>3, <2>4 DEF CycleEngage, NotWritten, LatchRows, LatchIndInv, LatchTypeOK
    <3>2. Inserted(RowsRead, ReadBack(latch'), "ENGAGED") /\ latch' \in Files(LatchRows)
      BY <3>1, WrittenEffect
    <3>3. RowsRead \in Seq(LatchRows) /\ ReadBack(latch') \in Seq(LatchRows)
      BY <3>1, <3>2, LatchTyped, ReadBackTyped
    <3>4. ReadBack(latch') # <<>>
      <4>1. Len(ReadBack(latch')) > 0
        BY <3>2, <3>3, LenProperties DEF Inserted
      <4> QED
        BY <4>1, EmptySeq
    <3> QED
      BY <2>2, <3>2, <3>4 DEF Inserted
  <2>5. OwnerClear
    BY <1>1, <2>3, <2>4 DEF LatchNext, latchVars, LatchTick, TimePasses, CycleStart, CycleCheck, LatchCrash
  <2> QED
    BY <2>3, <2>5 DEF OwnerClear, Written, NotWritten
<1>2. LatchIndInv /\ [LatchNext]_latchVars =>
        [Engaged /\ ~Engaged' => last' = "CLEARED" /\ latch' # latch]_latchVars
  BY <1>1
<1> QED
  BY <1>2, LatchInvariance, PTL DEF LatchSpec, OnlyOwnerReleases, LatchIndInv
=============================================================================
