------------------------- MODULE LargeSmcWatch_proofs -------------------------
(***************************************************************************)
(* What LargeSmcWatch promises for any zones, opportunities and days, any  *)
(* number of transitions and of faults.                                    *)
(***************************************************************************)
EXTENDS LargeSmcWatch, SequenceTheorems, TLAPS

\* What poll collects: a transition before it is numbered.
Collected == [to : Reported, ref : Refs, expires : Nat]

\* What the run's locals must satisfy after a step.
RunInv ==
    /\ pc \in {"idle", "poll", "archive", "save", "claim", "send", "finish"}
    /\ now \in Nat /\ batch \in Seq(Transition) /\ at \in Nat /\ status \in Statuses
    /\ BatchIsCurrent /\ ClaimIsPending

\* What the durable state must satisfy after a step.
StoreInv ==
    /\ trk \in [state : TrackerStates, ref : Refs \cup {"none"}, expires : Nat, seq : Nat]
    /\ archive \subseteq Archived
    /\ ledger \in [Keys -> Statuses \cup {"absent", "PENDING"}]
    /\ chat \in [Keys -> Nat]
    /\ clock \in Nat
    /\ faults \in 0..MaxFaults
    /\ HeldIsNamed /\ AlertAtMostOnce /\ LedgerIsTrue /\ SaveIsArchived

LEMMA InvParts == WatchInv <=> RunInv /\ StoreInv
  BY DEF WatchInv, RunInv, StoreInv, TypeOK

LEMMA InvNext ==
    ASSUME RunInv', StoreInv'
    PROVE  WatchInv'
  BY DEF WatchInv, RunInv, StoreInv, TypeOK

LEMMA KeyTyped ==
    ASSUME NEW to \in Reported, NEW ref \in Refs
    PROVE  AlertKey(to, ref) \in Keys
  BY DEF Keys

\* The run that is over keeps nothing the invariant speaks of.
LEMMA EndKeeps ==
    ASSUME End
    PROVE  pc' = "idle" /\ RunInv'
  BY DEF End, RunInv, BatchIsCurrent, ClaimIsPending, Statuses, RETRYABLE_STATES

LEMMA NumberedTyped ==
    ASSUME trk.seq \in Nat, NEW s \in Seq(Collected)
    PROVE  /\ Numbered(s) \in Seq(Transition)
           /\ Len(Numbered(s)) = Len(s)
           /\ \A j \in 1..Len(s) : Numbered(s)[j].n = trk.seq + j
<1>1. ASSUME NEW j \in 1..Len(s)
      PROVE  [n |-> trk.seq + j, to |-> s[j].to, ref |-> s[j].ref, expires |-> s[j].expires] \in Transition
  <2>1. s[j] \in Collected
    BY ElementOfSeq
  <2>2. s[j].to \in Reported /\ s[j].ref \in Refs /\ s[j].expires \in Nat
    BY <2>1 DEF Collected
  <2>3. trk.seq + j \in Nat
    OBVIOUS
  <2> QED
    BY <2>2, <2>3 DEF Transition
<1>3. Len(s) \in Nat
  BY LenProperties
<1>4. Numbered(s) \in Seq(Transition)
  BY <1>1, <1>3, IsASeq DEF Numbered
<1>5. Len(Numbered(s)) = Len(s)
  BY <1>3 DEF Numbered
<1> QED
  BY <1>4, <1>5 DEF Numbered

\* _emit begins with the transitions poll collected, or poll had none and the run is over.
LEMMA EmitKeeps ==
    ASSUME TypeOK, BatchIsCurrent, pc = "poll", trk'.seq = trk.seq, NEW s \in Seq(Collected), Emit(s),
           UNCHANGED archive
    PROVE  RunInv'
<1>1. CASE End
  BY <1>1, EndKeeps
<1>2. CASE s # <<>> /\ batch' = Numbered(s) /\ Goto("archive") /\ UNCHANGED <<now, at, status>>
  <2>1. batch' \in Seq(Transition) /\ Len(batch') = Len(s) /\ \A j \in 1..Len(s) : batch'[j].n = trk.seq + j
    BY <1>2, NumberedTyped DEF TypeOK
  <2>2. Len(s) \in Nat \ {0}
    BY <1>2, LenProperties, EmptySeq
  <2>3. at = 1
    BY DEF BatchIsCurrent
  <2>4. BatchIsCurrent'
    BY <1>2, <2>1, <2>2, <2>3 DEF Goto, BatchIsCurrent
  <2> QED
    BY <1>2, <2>1, <2>4 DEF TypeOK, Goto, RunInv, ClaimIsPending
<1> QED
  BY <1>1, <1>2 DEF Emit

\* A batch's current transition is typed and names a key of the ledger.
LEMMA CurrentTyped ==
    ASSUME TypeOK, BatchIsCurrent, pc \notin {"idle", "poll"}
    PROVE  /\ batch[at] \in Transition /\ batch[Len(batch)] \in Transition /\ Len(batch) \in Nat \ {0}
           /\ Current \in Keys
<1>1. Len(batch) \in Nat /\ at \in 1..Len(batch)
  BY LenProperties DEF TypeOK, BatchIsCurrent
<1>2. batch[at] \in Transition /\ batch[Len(batch)] \in Transition
  BY <1>1, ElementOfSeq DEF TypeOK
<1>3. batch[at].to \in Reported /\ batch[at].ref \in Refs
  BY <1>2 DEF Transition
<1> QED
  BY <1>1, <1>2, <1>3, KeyTyped DEF Current

\* Going on to the next transition: the batch and the archive stay as they are.
LEMMA AdvanceKeeps ==
    ASSUME TypeOK, BatchIsCurrent, pc \in {"claim", "send", "finish"}, Advance, UNCHANGED <<trk, archive>>
    PROVE  RunInv' /\ pc' \in {"idle", "claim"}
<1>1. CASE End
  BY <1>1, EndKeeps
<1>2. CASE at < Len(batch) /\ at' = at + 1 /\ Goto("claim") /\ UNCHANGED <<now, batch, status>>
  <2>1. at' \in 1..Len(batch)
    BY <1>2, LenProperties DEF BatchIsCurrent, TypeOK
  <2> QED
    BY <1>2, <2>1 DEF TypeOK, Goto, RunInv, BatchIsCurrent, ClaimIsPending, IsArchived
<1> QED
  BY <1>1, <1>2 DEF Advance

\* The tracker and the archive stay, and so does what is said of them.
LEMMA StoreKept ==
    ASSUME StoreInv, UNCHANGED <<trk, archive, ledger, chat, clock>>, faults' \in 0..MaxFaults
    PROVE  StoreInv'
  BY DEF StoreInv, HeldIsNamed, Held, AlertAtMostOnce, LedgerIsTrue, SaveIsArchived

LEMMA EndingTyped ==
    ASSUME StoreInv, NEW end \in Ended \cup {"none"}
    PROVE  Ending(end) \in Seq(Collected)
<1>1. CASE Held /\ end \in Ended
  <2>1. [to |-> end, ref |-> trk.ref, expires |-> 0] \in Collected
    BY <1>1 DEF StoreInv, HeldIsNamed, Collected, Reported
  <2> QED
    BY <1>1, <2>1 DEF Ending
<1>2. CASE ~(Held /\ end \in Ended)
  BY <1>2 DEF Ending
<1> QED
  BY <1>1, <1>2

-----------------------------------------------------------------------------
(* poll *)

LEMMA PollStaleKeeps ==
    ASSUME WatchInv, PollStale
    PROVE  WatchInv'
<1>1. RunInv /\ StoreInv /\ TypeOK /\ BatchIsCurrent
  BY InvParts DEF WatchInv
<1> DEFINE s == IF trk.state = "SUSPENDED" /\ now >= trk.expires
                   THEN <<[to |-> "EXPIRED", ref |-> trk.ref, expires |-> 0]>> ELSE <<>>
<1>2. s \in Seq(Collected)
  <2>1. CASE trk.state = "SUSPENDED" /\ now >= trk.expires
    <3>1. [to |-> "EXPIRED", ref |-> trk.ref, expires |-> 0] \in Collected
      BY <1>1, <2>1 DEF StoreInv, HeldIsNamed, Held, Collected, Reported, Ended
    <3> QED
      BY <2>1, <3>1
  <2>2. CASE ~(trk.state = "SUSPENDED" /\ now >= trk.expires)
    BY <2>2
  <2> QED
    BY <2>1, <2>2
<1>3. /\ trk' \in [state : TrackerStates, ref : Refs \cup {"none"}, expires : Nat, seq : Nat]
      /\ trk'.seq = trk.seq /\ trk'.ref = trk.ref
      /\ trk'.state = trk.state \/ (trk.state \in ACTIVE_STATES /\ trk'.state = "SUSPENDED")
  BY <1>1 DEF PollStale, StoreInv, TrackerStates
<1>4. Emit(s) /\ pc = "poll" /\ UNCHANGED <<archive, ledger, chat, clock, faults>>
  BY DEF PollStale
<1> HIDE DEF s
<1>5. RunInv'
  BY <1>1, <1>2, <1>3, <1>4, EmitKeeps
<1>6. HeldIsNamed'
  BY <1>1, <1>3 DEF StoreInv, HeldIsNamed, Held
<1>7. SaveIsArchived'
  BY <1>1, <1>3, <1>4 DEF StoreInv, SaveIsArchived, Reported, Ended, ACTIVE_STATES
<1>8. StoreInv'
  BY <1>1, <1>3, <1>4, <1>6, <1>7 DEF StoreInv, AlertAtMostOnce, LedgerIsTrue
<1> QED
  BY <1>5, <1>8, InvNext

LEMMA PollIdleKeeps ==
    ASSUME WatchInv, PollIdle
    PROVE  WatchInv'
<1>1. RunInv /\ StoreInv /\ TypeOK /\ BatchIsCurrent
  BY InvParts DEF WatchInv
<1>2. PICK end \in Ended \cup {"none"} :
        /\ trk' = IF Held /\ end = "none" THEN [trk EXCEPT !.state = "IDLE", !.ref = "none"] ELSE trk
        /\ Emit(Ending(end))
  BY DEF PollIdle
<1>3. /\ trk' \in [state : TrackerStates, ref : Refs \cup {"none"}, expires : Nat, seq : Nat]
      /\ trk'.seq = trk.seq
      /\ trk' = trk \/ trk'.state = "IDLE"
  BY <1>1, <1>2 DEF StoreInv, TrackerStates
<1>4. pc = "poll" /\ UNCHANGED <<archive, ledger, chat, clock, faults>>
  BY DEF PollIdle
<1>5. RunInv'
  BY <1>1, <1>2, <1>3, <1>4, EndingTyped, EmitKeeps
<1>6. HeldIsNamed'
  BY <1>1, <1>3 DEF StoreInv, HeldIsNamed, Held, ACTIVE_STATES
<1>7. SaveIsArchived'
  BY <1>1, <1>3, <1>4 DEF StoreInv, SaveIsArchived, Reported, Ended, ACTIVE_STATES
<1>8. StoreInv'
  BY <1>1, <1>3, <1>4, <1>6, <1>7 DEF StoreInv, AlertAtMostOnce, LedgerIsTrue
<1> QED
  BY <1>5, <1>8, InvNext

LEMMA SetupTyped ==
    ASSUME NEW t \in Nat, NEW setup \in Setups(t)
    PROVE  setup \in Collected
<1>1. next_day_boundary(t) \in Nat
  BY WatchAssumption DEF next_day_boundary, trading_date
<1> QED
  BY <1>1 DEF Setups, Collected, Reported, ACTIVE_STATES, Refs

LEMMA PollSetupKeeps ==
    ASSUME WatchInv, PollSetup
    PROVE  WatchInv'
<1>1. RunInv /\ StoreInv /\ TypeOK /\ BatchIsCurrent
  BY InvParts DEF WatchInv
<1>2. PICK setup \in Setups(now), end \in Ended \cup {"none"} :
        \/ Emit(Append(Ending(end), setup))
        \/ Emit(Ending(end))
  BY DEF PollSetup
<1>3. Ending(end) \in Seq(Collected) /\ Append(Ending(end), setup) \in Seq(Collected)
  BY <1>1, EndingTyped, SetupTyped, AppendProperties DEF RunInv
<1>4. pc = "poll" /\ UNCHANGED <<trk, archive, ledger, chat, clock, faults>>
  BY DEF PollSetup
<1>5. RunInv'
  BY <1>1, <1>2, <1>3, <1>4, EmitKeeps
<1>6. StoreInv'
  BY <1>1, <1>4, StoreKept DEF StoreInv
<1> QED
  BY <1>5, <1>6, InvNext

-----------------------------------------------------------------------------
(* _emit *)

LEMMA ArchiveOneKeeps ==
    ASSUME WatchInv, ArchiveOne
    PROVE  WatchInv'
<1>1. RunInv /\ StoreInv /\ TypeOK /\ BatchIsCurrent /\ pc = "archive"
  BY InvParts DEF WatchInv, ArchiveOne
<1> DEFINE a == [n |-> batch[at].n, to |-> batch[at].to, ref |-> batch[at].ref]
<1>2. archive' = archive \cup {a} /\ UNCHANGED <<trk, ledger, chat, clock, now, batch, status, faults>>
  BY DEF ArchiveOne
<1>3. a \in Archived
  BY <1>1, CurrentTyped DEF Transition, Archived
<1>4. Len(batch) \in Nat \ {0} /\ at \in 1..Len(batch)
  BY <1>1, CurrentTyped DEF BatchIsCurrent
<1>5. \A j \in 1..at : IsArchived(batch[j])'
  <2>1. \A j \in 1..at - 1 : IsArchived(batch[j])
    BY <1>1 DEF BatchIsCurrent
  <2>2. a \in archive'
    BY <1>2
  <2>3. \A j \in 1..at : j \in 1..at - 1 \/ j = at
    BY <1>4
  <2> QED
    BY <1>2, <2>1, <2>2, <2>3 DEF IsArchived
<1>6. RunInv'
  <2>1. CASE at < Len(batch) /\ at' = at + 1 /\ UNCHANGED pc
    <3>1. at' \in 1..Len(batch') /\ at' \in Nat /\ \A j \in 1..at' - 1 : j \in 1..at
      BY <1>2, <1>4, <2>1
    <3>2. BatchIsCurrent'
      BY <1>1, <1>2, <1>5, <2>1, <3>1 DEF BatchIsCurrent
    <3> QED
      BY <1>1, <1>2, <2>1, <3>1, <3>2 DEF RunInv, ClaimIsPending
  <2>2. CASE ~(at < Len(batch)) /\ at' = 1 /\ Goto("save")
    <3>1. at = Len(batch) /\ at' \in 1..Len(batch')
      BY <1>2, <1>4, <2>2
    <3>2. BatchIsCurrent'
      BY <1>1, <1>2, <1>5, <2>2, <3>1 DEF BatchIsCurrent, Goto
    <3> QED
      BY <1>1, <1>2, <2>2, <3>1, <3>2 DEF RunInv, ClaimIsPending, Goto
  <2> QED
    BY <2>1, <2>2 DEF ArchiveOne
<1>7. SaveIsArchived'
  BY <1>1, <1>2 DEF StoreInv, SaveIsArchived
<1>8. StoreInv'
  BY <1>1, <1>2, <1>3, <1>7 DEF StoreInv, HeldIsNamed, Held, AlertAtMostOnce, LedgerIsTrue
<1> QED
  BY <1>6, <1>8, InvNext

LEMMA SaveKeeps ==
    ASSUME WatchInv, Save
    PROVE  WatchInv'
<1>1. RunInv /\ StoreInv /\ TypeOK /\ BatchIsCurrent /\ pc = "save"
  BY InvParts DEF WatchInv, Save
<1> DEFINE last == batch[Len(batch)]
<1>2. /\ trk' = [state |-> last.to, ref |-> last.ref, expires |-> last.expires, seq |-> last.n]
      /\ pc' = "claim" /\ UNCHANGED <<archive, ledger, chat, clock, now, batch, at, status, faults>>
  BY DEF Save, Goto
<1>3. last \in Transition /\ Len(batch) \in Nat \ {0}
  BY <1>1, CurrentTyped
<1>4. last.n = trk.seq + Len(batch) /\ trk'.seq = last.n /\ trk.seq \in Nat
  BY <1>1, <1>2, <1>3 DEF BatchIsCurrent, StoreInv
<1>5. \A j \in 1..Len(batch) : batch[j].n <= trk'.seq
  BY <1>1, <1>3, <1>4 DEF BatchIsCurrent
<1>6. RunInv'
  <2>1. BatchIsCurrent'
    BY <1>1, <1>2, <1>5 DEF BatchIsCurrent, IsArchived
  <2> QED
    BY <1>1, <1>2, <2>1 DEF RunInv, ClaimIsPending
<1>7. \A n \in 1..trk'.seq : \E a \in archive : a.n = n
  <2> SUFFICES ASSUME NEW n \in 1..trk'.seq PROVE \E a \in archive : a.n = n
    OBVIOUS
  <2>1. CASE n <= trk.seq
    BY <1>1, <1>4, <2>1 DEF StoreInv, SaveIsArchived
  <2>2. CASE n > trk.seq
    <3> DEFINE j == n - trk.seq
    <3>1. j \in 1..Len(batch) /\ n = trk.seq + j
      BY <1>3, <1>4, <2>2
    <3> HIDE DEF j
    <3>2. batch[j].n = n /\ IsArchived(batch[j])
      BY <1>1, <3>1 DEF BatchIsCurrent
    <3> QED
      BY <3>2 DEF IsArchived
  <2> QED
    BY <1>4, <2>1, <2>2
<1>8. SaveIsArchived'
  <2>1. IsArchived(last)
    BY <1>1, <1>3 DEF BatchIsCurrent
  <2> QED
    BY <1>2, <1>7, <2>1 DEF SaveIsArchived, IsArchived
<1>9. trk' \in [state : TrackerStates, ref : Refs \cup {"none"}, expires : Nat, seq : Nat] /\ HeldIsNamed'
  BY <1>2, <1>3 DEF Transition, TrackerStates, HeldIsNamed, Held
<1>10. StoreInv'
  BY <1>1, <1>2, <1>8, <1>9 DEF StoreInv, AlertAtMostOnce, LedgerIsTrue
<1> QED
  BY <1>6, <1>10, InvNext

-----------------------------------------------------------------------------
(* deliver_once *)

LEMMA ClaimKeeps ==
    ASSUME WatchInv, Claim
    PROVE  WatchInv'
<1>1. RunInv /\ StoreInv /\ TypeOK /\ BatchIsCurrent /\ pc = "claim"
  BY InvParts DEF WatchInv, Claim
<1>2. Current \in Keys
  BY <1>1, CurrentTyped
<1>3. UNCHANGED <<trk, archive, chat, clock, faults>>
  BY DEF Claim
<1>4. CASE /\ ledger[Current] \in {"absent"} \cup RETRYABLE_STATES
           /\ ledger' = [ledger EXCEPT ![Current] = "PENDING"]
           /\ Goto("send") /\ UNCHANGED <<now, batch, at, status>>
  <2>1. chat[Current] = 0 /\ ledger'[Current] = "PENDING"
    BY <1>1, <1>2, <1>4 DEF StoreInv, LedgerIsTrue
  <2>2. Current' = Current
    BY <1>4 DEF Current
  <2>3. BatchIsCurrent' /\ ClaimIsPending'
    BY <1>1, <1>3, <1>4, <2>1, <2>2 DEF BatchIsCurrent, ClaimIsPending, Goto, IsArchived
  <2>4. RunInv'
    BY <1>1, <1>4, <2>3 DEF RunInv, Goto
  <2>5. StoreInv'
    BY <1>1, <1>2, <1>3, <1>4
       DEF StoreInv, HeldIsNamed, Held, AlertAtMostOnce, LedgerIsTrue, SaveIsArchived, RETRYABLE_STATES
  <2> QED
    BY <2>4, <2>5, InvNext
<1>5. CASE ledger[Current] = "PENDING" /\ ledger' = [ledger EXCEPT ![Current] = "DELIVERY_UNCERTAIN"] /\ Advance
  <2>1. RunInv'
    BY <1>1, <1>3, <1>5, AdvanceKeeps
  <2>2. StoreInv'
    BY <1>1, <1>2, <1>3, <1>5
       DEF StoreInv, HeldIsNamed, Held, AlertAtMostOnce, LedgerIsTrue, SaveIsArchived, RETRYABLE_STATES, Statuses
  <2> QED
    BY <2>1, <2>2, InvNext
<1>6. CASE Advance /\ UNCHANGED ledger
  <2>1. RunInv'
    BY <1>1, <1>3, <1>6, AdvanceKeeps
  <2>2. StoreInv'
    BY <1>1, <1>3, <1>6, StoreKept DEF StoreInv
  <2> QED
    BY <2>1, <2>2, InvNext
<1> QED
  BY <1>4, <1>5, <1>6 DEF Claim

\* A send shows the message or not; "shown" tells which.
LEMMA SendKeeps ==
    ASSUME WatchInv, Send \/ SendTimesOut
    PROVE  WatchInv'
<1>1. RunInv /\ StoreInv /\ TypeOK /\ BatchIsCurrent /\ ClaimIsPending /\ pc = "send"
  BY InvParts DEF WatchInv, Send, SendTimesOut
<1>2. Current \in Keys /\ ledger[Current] = "PENDING" /\ chat[Current] = 0
  BY <1>1, CurrentTyped DEF ClaimIsPending
<1>3. /\ pc' = "finish" /\ UNCHANGED <<trk, archive, ledger, clock, now, batch, at>>
      /\ faults' \in 0..MaxFaults
      /\ status' \in Statuses
  BY <1>1, WatchAssumption DEF Send, SendTimesOut, Goto, StoreInv, Statuses, RETRYABLE_STATES
<1>4. /\ chat' \in [Keys -> Nat] /\ chat'[Current] \in {0, 1}
      /\ \A k \in Keys : k # Current => chat'[k] = chat[k]
      /\ status' = "SENT" => chat'[Current] = 1
      /\ status' = "FAILED" => chat'[Current] = 0
  BY <1>1, <1>2 DEF Send, SendTimesOut, StoreInv
<1>5. Current' = Current
  BY <1>3 DEF Current
<1>6. RunInv'
  <2>1. BatchIsCurrent'
    BY <1>1, <1>3 DEF BatchIsCurrent, IsArchived
  <2>2. ClaimIsPending'
    BY <1>2, <1>3, <1>4, <1>5 DEF ClaimIsPending
  <2> QED
    BY <1>1, <1>3, <2>1, <2>2 DEF RunInv
<1>7. AlertAtMostOnce' /\ LedgerIsTrue'
  BY <1>1, <1>2, <1>3, <1>4 DEF StoreInv, AlertAtMostOnce, LedgerIsTrue, RETRYABLE_STATES
<1>8. StoreInv'
  BY <1>1, <1>3, <1>4, <1>7 DEF StoreInv, HeldIsNamed, Held, SaveIsArchived
<1> QED
  BY <1>6, <1>8, InvNext

LEMMA FinishKeeps ==
    ASSUME WatchInv, Finish
    PROVE  WatchInv'
<1>1. RunInv /\ StoreInv /\ TypeOK /\ BatchIsCurrent /\ ClaimIsPending /\ pc = "finish"
  BY InvParts DEF WatchInv, Finish
<1>2. /\ Current \in Keys /\ status \in Statuses
      /\ status = "SENT" => chat[Current] = 1
      /\ status = "FAILED" => chat[Current] = 0
  BY <1>1, CurrentTyped DEF ClaimIsPending, RunInv
<1>3. ledger' = [ledger EXCEPT ![Current] = status] /\ Advance /\ UNCHANGED <<trk, archive, chat, clock, faults>>
  BY DEF Finish
<1>4. RunInv'
  BY <1>1, <1>3, AdvanceKeeps
<1>5. LedgerIsTrue'
  BY <1>1, <1>2, <1>3 DEF StoreInv, LedgerIsTrue, RETRYABLE_STATES, Statuses
<1>6. StoreInv'
  BY <1>1, <1>2, <1>3, <1>5 DEF StoreInv, HeldIsNamed, Held, AlertAtMostOnce, SaveIsArchived
<1> QED
  BY <1>4, <1>6, InvNext

-----------------------------------------------------------------------------
(* The theorems *)

LEMMA InitHolds == Init => WatchInv
  BY WatchAssumption
  DEF Init, WatchInv, TypeOK, HeldIsNamed, Held, ACTIVE_STATES, BatchIsCurrent, ClaimIsPending, AlertAtMostOnce,
      LedgerIsTrue, SaveIsArchived, TrackerStates, Reported, Ended, Statuses, RETRYABLE_STATES

LEMMA StepKeeps ==
    ASSUME WatchInv, [Next]_vars
    PROVE  WatchInv'
<1>1. RunInv /\ StoreInv /\ TypeOK /\ BatchIsCurrent
  BY InvParts DEF WatchInv
<1>2. CASE Tick
  BY <1>2 DEF Tick, WatchInv, TypeOK, HeldIsNamed, Held, BatchIsCurrent, ClaimIsPending, AlertAtMostOnce,
              LedgerIsTrue, SaveIsArchived, IsArchived, Current
<1>3. CASE Start
  <2>1. RunInv'
    BY <1>1, <1>3 DEF Start, Goto, RunInv, BatchIsCurrent, ClaimIsPending, StoreInv
  <2>2. StoreInv'
    BY <1>1, <1>3, StoreKept DEF Start, StoreInv
  <2> QED
    BY <2>1, <2>2, InvNext
<1>4. CASE PollClosed \/ Crash
  <2>1. RunInv'
    BY <1>4, EndKeeps DEF PollClosed, Crash
  <2>2. StoreInv'
    BY <1>1, <1>4, StoreKept, WatchAssumption DEF PollClosed, Crash, StoreInv
  <2> QED
    BY <2>1, <2>2, InvNext
<1>5. CASE LedgerFails
  <2>1. RunInv'
    BY <1>1, <1>5, AdvanceKeeps DEF LedgerFails
  <2>2. StoreInv'
    BY <1>1, <1>5, StoreKept, WatchAssumption DEF LedgerFails, StoreInv
  <2> QED
    BY <2>1, <2>2, InvNext
<1>6. CASE UNCHANGED vars
  BY <1>6 DEF vars, WatchInv, TypeOK, HeldIsNamed, Held, BatchIsCurrent, ClaimIsPending, AlertAtMostOnce,
              LedgerIsTrue, SaveIsArchived, IsArchived, Current
<1> QED
  BY <1>2, <1>3, <1>4, <1>5, <1>6, PollStaleKeeps, PollIdleKeeps, PollSetupKeeps, ArchiveOneKeeps, SaveKeeps,
     ClaimKeeps, SendKeeps, FinishKeeps
  DEF Next, Step, Poll

\* The inductive invariant holds in every state: a run's transitions are numbered on from the saved
\* record and archived before it, and a claim being sent is pending and unsent (_emit, deliver_once).
THEOREM WatchInvariance == Spec => []WatchInv
  BY InitHolds, StepKeeps, PTL DEF Spec

\* No alert appears twice, whatever runs die or time out (AlertLedger.claim, deliver_once).
THEOREM AlertOnce == Spec => []AlertAtMostOnce
<1>1. WatchInv => AlertAtMostOnce
  BY DEF WatchInv
<1> QED
  BY <1>1, WatchInvariance, PTL

\* The ledger's SENT was shown, and what it lets a run send again was not (AlertLedger.finish).
THEOREM LedgerTruth == Spec => []LedgerIsTrue
<1>1. WatchInv => LedgerIsTrue
  BY DEF WatchInv
<1> QED
  BY <1>1, WatchInvariance, PTL

\* The saved record never counts a transition that is not archived (WatchTracker._emit).
THEOREM SavedIsArchived == Spec => []SaveIsArchived
<1>1. WatchInv => SaveIsArchived
  BY DEF WatchInv
<1> QED
  BY <1>1, WatchInvariance, PTL

\* A message is of an archived, counted transition: only a send shows one, and it is past the save
\* (_watch_once, WatchTracker._emit).
THEOREM MessageBacked == Spec => MessageIsArchived
<1>1. ASSUME WatchInv, [Next]_vars
      PROVE  [\A k \in Keys : chat'[k] > chat[k] =>
                  \E a \in archive : a.n <= trk.seq /\ AlertKey(a.to, a.ref) = k]_vars
  <2> SUFFICES ASSUME NEW k \in Keys, chat'[k] > chat[k]
               PROVE  \E a \in archive : a.n <= trk.seq /\ AlertKey(a.to, a.ref) = k
    OBVIOUS
  <2>1. chat \in [Keys -> Nat] /\ TypeOK /\ BatchIsCurrent
    BY <1>1 DEF WatchInv, TypeOK
  <2>2. chat' # chat
    BY <2>1
  <2>3. pc = "send" /\ chat' \in {chat, [chat EXCEPT ![Current] = @ + 1]}
    BY <1>1, <2>2
    DEF Next, Step, Poll, vars, Tick, Start, PollClosed, PollStale, PollIdle, PollSetup, ArchiveOne, Save, Claim,
        Send, Finish, SendTimesOut, LedgerFails, Crash
  <2>4. k = Current
    BY <2>1, <2>3
  <2>5. at \in 1..Len(batch) /\ IsArchived(batch[at]) /\ batch[at].n <= trk.seq
    BY <2>1, <2>3 DEF BatchIsCurrent
  <2> QED
    BY <2>4, <2>5 DEF IsArchived, Current
<1> QED
  BY <1>1, WatchInvariance, PTL DEF Spec, MessageIsArchived

\* A step that touches one entry of the ledger is that entry's step of the courier.
LEMMA EntryStep ==
    ASSUME NEW k \in Keys, NEW s \in Statuses \cup {"absent", "PENDING"},
           ledger \in [Keys -> Statuses \cup {"absent", "PENDING"}],
           ledger' = [ledger EXCEPT ![k] = s], chat' = chat,
           \/ ledger[k] \in {"absent"} \cup RETRYABLE_STATES /\ s = "PENDING"
           \/ ledger[k] = "PENDING" /\ s = "DELIVERY_UNCERTAIN"
           \/ ledger[k] = "PENDING" /\ s = "SENT" /\ chat[k] = 1
           \/ ledger[k] = "PENDING" /\ s = "FAILED" /\ chat[k] = 0
    PROVE  Promise!CourierNext
<1> DEFINE record == [j \in Keys |-> RecordOf[ledger[j]]]
<1>1. record' = [record EXCEPT ![k] = RecordOf[s]]
  OBVIOUS
<1>2. CASE ledger[k] \in {"absent"} \cup RETRYABLE_STATES /\ s = "PENDING"
  <2>1. Promise!Take(k)
    BY <1>1, <1>2 DEF Promise!Take, Promise!Settled, RecordOf, RETRYABLE_STATES
  <2> QED
    BY <2>1 DEF Promise!CourierNext
<1>3. CASE ledger[k] = "PENDING" /\ s = "DELIVERY_UNCERTAIN"
  <2>1. Promise!Doubt({k})
    BY <1>1, <1>3 DEF Promise!Doubt, RecordOf
  <2> QED
    BY <2>1 DEF Promise!CourierNext
<1>4. CASE ledger[k] = "PENDING" /\ s = "SENT" /\ chat[k] = 1
  <2>1. Promise!Deliver(k)
    BY <1>1, <1>4 DEF Promise!Deliver, Promise!Settled, RecordOf
  <2> QED
    BY <2>1 DEF Promise!CourierNext
<1>5. CASE ledger[k] = "PENDING" /\ s = "FAILED" /\ chat[k] = 0
  <2>1. Promise!Retry(k)
    BY <1>1, <1>5 DEF Promise!Retry, Promise!Settled, RecordOf
  <2> QED
    BY <2>1 DEF Promise!CourierNext
<1> QED
  BY <1>2, <1>3, <1>4, <1>5

\* The alert ledger and the sends around it implement the courier: a claim before the message, one
\* message per claim, and an entry that says what is true (AlertLedger.claim, finish, deliver_once).
THEOREM WatchImplementsCourier == Spec => ImplementsCourier
<1> DEFINE record == [k \in Keys |-> RecordOf[ledger[k]]]
<1>1. Init => Promise!CourierInit
  BY DEF Init, Promise!CourierInit, RecordOf
<1>2. WatchInv /\ [Next]_vars => [Promise!CourierNext]_<<record, chat>>
  <2> SUFFICES ASSUME WatchInv, [Next]_vars, ~(ledger' = ledger /\ chat' = chat)
               PROVE  Promise!CourierNext
    OBVIOUS
  <2>1. /\ ledger \in [Keys -> Statuses \cup {"absent", "PENDING"}] /\ chat \in [Keys -> Nat]
        /\ status \in Statuses /\ ClaimIsPending
    BY DEF WatchInv, TypeOK
  <2>2. pc \in {"claim", "send", "finish"}
    BY DEF Next, Step, Poll, vars, Tick, Start, PollClosed, PollStale, PollIdle, PollSetup, ArchiveOne, Save,
        Claim, Send, Finish, SendTimesOut, LedgerFails, Crash
  <2>3. Current \in Keys
    BY <2>2, CurrentTyped DEF WatchInv
  <2>4. CASE Claim
    BY <2>1, <2>3, <2>4, EntryStep DEF Claim, Statuses
  <2>5. CASE Finish
    BY <2>1, <2>3, <2>5, EntryStep DEF Finish, ClaimIsPending, Statuses, RETRYABLE_STATES
  <2>6. CASE Send \/ SendTimesOut
    <3>1. /\ ledger[Current] = "PENDING" /\ chat[Current] = 0 /\ ledger' = ledger
          /\ chat' = [chat EXCEPT ![Current] = 1]
      BY <2>1, <2>6 DEF Send, SendTimesOut, ClaimIsPending
    <3>2. Promise!Show(Current)
      BY <2>3, <3>1 DEF Promise!Show, RecordOf
    <3> QED
      BY <2>3, <3>2 DEF Promise!CourierNext
  <2> QED
    BY <2>4, <2>5, <2>6
    DEF Next, Step, Poll, vars, Tick, Start, PollClosed, PollStale, PollIdle, PollSetup, ArchiveOne, Save,
        LedgerFails, Crash
<1> QED
  BY <1>1, <1>2, WatchInvariance, PTL DEF Spec, ImplementsCourier, Promise!CourierSpec

=============================================================================
