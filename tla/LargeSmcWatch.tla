---------------------------- MODULE LargeSmcWatch ----------------------------
(***************************************************************************)
(* The Large-SMC watch of one symbol: WatchTracker (large_smc_watch), the  *)
(* alert ledger (host_delivery.lsmc_alert_dedup) and the host run that     *)
(* drives them (live_candles_smoke.run_lsmc, _watch_once).                 *)
(*                                                                         *)
(* Runs of the two LSMC modes overlap, but all of this happens inside the  *)
(* MT5 access lock, which the operating system drops when a run ends or    *)
(* dies: one run at a time.  A run takes its time before it waits for the  *)
(* lock, so that time may be older than the previous run's.  What the      *)
(* strategy sees in the candles is the environment: any snapshot the       *)
(* tracker can be handed.                                                  *)
(***************************************************************************)
EXTENDS Integers, Sequences

CONSTANTS
    LockWait,       \* how long a run may have waited for the lock
    Pois, Opps,     \* the references of zones and of opportunities
    Sightings,      \* the states a snapshot shows them in; the code's are all of those below
    Confirmation(_),\* the confirmed setup behind an opportunity; siblings share it
    DayLength,      \* moments of a trading day
    MaxTime,        \* bound on the clock
    MaxSeq,         \* bound on the tracker's transition counter: no new setup from there on
    MaxFaults       \* bound on dead runs, timeouts and failed ledger writes

ASSUME WatchAssumption ==
    /\ Pois \cap Opps = {}
    /\ "none" \notin Pois \cup Opps
    /\ LockWait \in Nat /\ DayLength \in Nat \ {0} /\ MaxTime \in Nat /\ MaxSeq \in Nat /\ MaxFaults \in Nat

VARIABLES
    trk,        \* the tracker's saved record: state, ref, expires, seq
    archive,    \* the archived transitions
    ledger,     \* ledger[k]: state of the alert ledger's entry, "absent" without one
    chat,       \* chat[k]: how many messages of alert k appeared in the chat
    clock,
    pc,         \* where the run inside the lock is
    now,        \* the time it took when it started
    batch, at,  \* its transitions, and the one it is at
    status,     \* what its send brought back
    faults

vars == <<trk, archive, ledger, chat, clock, pc, now, batch, at, status, faults>>

ACTIVE_STATES == {"DEVELOPING", "NEAR_POI", "OPPORTUNITY"}
Ended == {"INVALIDATED", "EXPIRED"}
Reported == ACTIVE_STATES \cup Ended \cup {"REJECTED"}
TrackerStates == Reported \cup {"none", "IDLE", "SUSPENDED"}
Refs == Pois \cup Opps

\* confirmation_key, transition_key
AlertKey(to, ref) == IF to = "OPPORTUNITY" THEN <<to, Confirmation(ref)>> ELSE <<to, ref>>

Keys == {AlertKey(to, ref) : to \in Reported, ref \in Refs}

\* "FAILED" stands for every status of a message known not to be sent.
RETRYABLE_STATES == {"FAILED"}
Statuses == RETRYABLE_STATES \cup {"SENT", "DELIVERY_UNCERTAIN"}

trading_date(t) == t \div DayLength
next_day_boundary(t) == DayLength * (trading_date(t) + 1)

Transition == [n : Nat, to : Reported, ref : Refs, expires : Nat]

\* The identity of an archived transition.  The state it came from, which is part of the file's name, is
\* left out: transitions that differ in nothing else count as one.
Archived == [n : Nat, to : Reported, ref : Refs]

TypeOK ==
    /\ trk \in [state : TrackerStates, ref : Refs \cup {"none"}, expires : Nat, seq : Nat]
    /\ archive \subseteq Archived
    /\ ledger \in [Keys -> Statuses \cup {"absent", "PENDING"}]
    /\ chat \in [Keys -> Nat]
    /\ clock \in Nat
    /\ pc \in {"idle", "poll", "archive", "save", "claim", "send", "finish"}
    /\ now \in Nat
    /\ batch \in Seq(Transition)
    /\ at \in Nat
    /\ status \in Statuses
    /\ faults \in 0..MaxFaults

Init ==
    /\ trk = [state |-> "none", ref |-> "none", expires |-> 0, seq |-> 0]
    /\ archive = {}
    /\ ledger = [k \in Keys |-> "absent"]
    /\ chat = [k \in Keys |-> 0]
    /\ clock = 0
    /\ pc = "idle" /\ now = 0
    /\ batch = <<>> /\ at = 1 /\ status = "FAILED" /\ faults = 0

Goto(label) == pc' = label

\* The run ends and its locals with it.
End == pc' = "idle" /\ now' = 0 /\ batch' = <<>> /\ at' = 1 /\ status' = "FAILED"

-----------------------------------------------------------------------------
(* The host run *)

\* Only the start of a run reads the clock, so it advances between runs.
Tick ==
    /\ clock < MaxTime /\ pc = "idle"
    /\ clock' = clock + 1
    /\ UNCHANGED <<trk, archive, ledger, chat, pc, now, batch, at, status, faults>>

\* A run of the task scheduler gets the lock (mt5_access_lock); one that does not has no effect.
Start ==
    /\ pc = "idle"
    /\ now' \in {t \in 0..clock : t + LockWait >= clock}
    /\ Goto("poll")
    /\ UNCHANGED <<trk, archive, ledger, chat, clock, batch, at, status, faults>>

\* The run dies, is ended by its watchdog, or a fault of the archive or the tracker's store raises out of it.
Crash ==
    /\ faults < MaxFaults
    /\ pc # "idle"
    /\ faults' = faults + 1
    /\ End
    /\ UNCHANGED <<trk, archive, ledger, chat, clock>>

-----------------------------------------------------------------------------
(* WatchTracker.poll *)

Held == trk.state \in ACTIVE_STATES \cup {"SUSPENDED"}

\* The transitions in order, numbered on from the saved record.
Numbered(s) ==
    [j \in 1..Len(s) |-> [n |-> trk.seq + j, to |-> s[j].to, ref |-> s[j].ref, expires |-> s[j].expires]]

Emit(s) ==
    \/ s = <<>> /\ End
    \/ /\ s # <<>>
       /\ batch' = Numbered(s)
       /\ Goto("archive")
       /\ UNCHANGED <<now, at, status>>

PollClosed ==
    /\ pc = "poll"
    /\ End
    /\ UNCHANGED <<trk, archive, ledger, chat, clock, faults>>

\* Mutant: a watch suspended on stale data is left as it is.
PollStaleWaits ==
    /\ pc = "poll"
    /\ trk' = IF trk.state \in ACTIVE_STATES THEN [trk EXCEPT !.state = "SUSPENDED"] ELSE trk
    /\ Emit(<<>>)
    /\ UNCHANGED <<archive, ledger, chat, clock, faults>>

\* STALE or DATA_ERROR: an active watch is suspended, a suspended one expires on its own.
PollStale ==
    /\ pc = "poll"
    /\ trk' = IF trk.state \in ACTIVE_STATES THEN [trk EXCEPT !.state = "SUSPENDED"] ELSE trk
    /\ Emit(IF trk.state = "SUSPENDED" /\ now >= trk.expires
               THEN <<[to |-> "EXPIRED", ref |-> trk.ref, expires |-> 0]>> ELSE <<>>)
    /\ UNCHANGED <<archive, ledger, chat, clock, faults>>

\* The end of the reference it holds, when the snapshot names it ("none" when it does not).
Ending(end) ==
    IF Held /\ end \in Ended THEN <<[to |-> end, ref |-> trk.ref, expires |-> 0]>> ELSE <<>>

\* IDLE: nothing to watch; the held reference is dropped unless it just ended.
PollIdle ==
    /\ pc = "poll"
    /\ \E end \in Ended \cup {"none"} :
         /\ trk' = IF Held /\ end = "none" THEN [trk EXCEPT !.state = "IDLE", !.ref = "none"] ELSE trk
         /\ Emit(Ending(end))
    /\ UNCHANGED <<archive, ledger, chat, clock, faults>>

\* The active or rejected reference a snapshot of time t may show (evaluate_snapshot with its gate).  An
\* opportunity brings its own expiry, a zone has the day's.
Setups(t) ==
    {setup \in [to : {"DEVELOPING", "NEAR_POI"}, ref : Pois, expires : {next_day_boundary(t)}]
               \cup [to : {"OPPORTUNITY"}, ref : Opps, expires : t + 1 .. next_day_boundary(t)]
               \cup [to : {"REJECTED"}, ref : Opps, expires : {0}] : setup.to \in Sightings}

PollSetup ==
    /\ pc = "poll"
    /\ \E setup \in Setups(now), end \in Ended \cup {"none"} :
         LET ending == Ending(end)
             changed == ending # <<>> \/ setup.to # trk.state \/ setup.ref # trk.ref
             s == IF changed THEN Append(ending, setup) ELSE ending
         IN /\ end # "none" => setup.ref # trk.ref
            /\ trk.seq < MaxSeq \/ s = <<>>
            /\ Emit(s)
    /\ UNCHANGED <<trk, archive, ledger, chat, clock, faults>>

-----------------------------------------------------------------------------
(* WatchTracker._emit *)

\* Mutant: the archive file is named by the transition's number alone.
ArchiveOneByNumber ==
    /\ pc = "archive"
    /\ LET t == batch[at] IN
         archive' = IF \E a \in archive : a.n = t.n THEN archive
                    ELSE archive \cup {[n |-> t.n, to |-> t.to, ref |-> t.ref]}
    /\ IF at < Len(batch) THEN at' = at + 1 /\ UNCHANGED pc ELSE at' = 1 /\ Goto("save")
    /\ UNCHANGED <<trk, ledger, chat, clock, now, batch, status, faults>>

\* One transition is archived, unless the file of its identity is there.
ArchiveOne ==
    /\ pc = "archive"
    /\ LET t == batch[at] IN archive' = archive \cup {[n |-> t.n, to |-> t.to, ref |-> t.ref]}
    /\ IF at < Len(batch) THEN at' = at + 1 /\ UNCHANGED pc ELSE at' = 1 /\ Goto("save")
    /\ UNCHANGED <<trk, ledger, chat, clock, now, batch, status, faults>>

\* The last transition becomes the saved record.
Save ==
    /\ pc = "save"
    /\ LET t == batch[Len(batch)] IN
         trk' = [state |-> t.to, ref |-> t.ref, expires |-> t.expires, seq |-> t.n]
    /\ Goto("claim")
    /\ UNCHANGED <<archive, ledger, chat, clock, now, batch, at, status, faults>>

-----------------------------------------------------------------------------
(* deliver_once, for each transition in order *)

Current == AlertKey(batch[at].to, batch[at].ref)

\* On to the next transition, or out of the run.
Advance ==
    \/ at < Len(batch) /\ at' = at + 1 /\ Goto("claim") /\ UNCHANGED <<now, batch, status>>
    \/ at >= Len(batch) /\ End

\* Mutant: a claim left behind by a dead run is taken over.
ClaimAgain ==
    /\ pc = "claim"
    /\ \/ /\ ledger[Current] \in {"absent", "PENDING"} \cup RETRYABLE_STATES
          /\ ledger' = [ledger EXCEPT ![Current] = "PENDING"]
          /\ Goto("send") /\ UNCHANGED <<now, batch, at, status>>
       \/ /\ ledger[Current] \in {"SENT", "DELIVERY_UNCERTAIN"}
          /\ Advance /\ UNCHANGED ledger
    /\ UNCHANGED <<trk, archive, chat, clock, faults>>

\* AlertLedger.claim
Claim ==
    /\ pc = "claim"
    /\ \/ /\ ledger[Current] \in {"absent"} \cup RETRYABLE_STATES
          /\ ledger' = [ledger EXCEPT ![Current] = "PENDING"]
          /\ Goto("send") /\ UNCHANGED <<now, batch, at, status>>
       \/ /\ ledger[Current] = "PENDING"
          /\ ledger' = [ledger EXCEPT ![Current] = "DELIVERY_UNCERTAIN"]
          /\ Advance
       \/ /\ ledger[Current] \in {"SENT", "DELIVERY_UNCERTAIN"}
          /\ Advance /\ UNCHANGED ledger
    /\ UNCHANGED <<trk, archive, chat, clock, faults>>

\* _notify: the message is shown, or is known not to be.
Send ==
    /\ pc = "send"
    /\ \/ status' = "SENT" /\ chat' = [chat EXCEPT ![Current] = @ + 1]
       \/ status' = "FAILED" /\ UNCHANGED chat
    /\ Goto("finish")
    /\ UNCHANGED <<trk, archive, ledger, clock, now, batch, at, faults>>

\* Mutant: a timeout counts as a known failure.
SendTimesOutHopeful ==
    /\ faults < MaxFaults
    /\ pc = "send"
    /\ chat' \in {chat, [chat EXCEPT ![Current] = @ + 1]}
    /\ status' = "FAILED"
    /\ faults' = faults + 1
    /\ Goto("finish")
    /\ UNCHANGED <<trk, archive, ledger, clock, now, batch, at>>

\* _notify: a timeout or an unknown answer; the message may be in the chat or not.
SendTimesOut ==
    /\ faults < MaxFaults
    /\ pc = "send"
    /\ chat' \in {chat, [chat EXCEPT ![Current] = @ + 1]}
    /\ status' = "DELIVERY_UNCERTAIN"
    /\ faults' = faults + 1
    /\ Goto("finish")
    /\ UNCHANGED <<trk, archive, ledger, clock, now, batch, at>>

\* AlertLedger.finish
Finish ==
    /\ pc = "finish"
    /\ ledger' = [ledger EXCEPT ![Current] = status]
    /\ Advance
    /\ UNCHANGED <<trk, archive, chat, clock, faults>>

\* The ledger cannot be written: no claim, no send; no finish, and the claim stays pending.
LedgerFails ==
    /\ faults < MaxFaults
    /\ pc \in {"claim", "finish"}
    /\ Advance
    /\ faults' = faults + 1
    /\ UNCHANGED <<trk, archive, ledger, chat, clock>>

-----------------------------------------------------------------------------

Poll == PollStale \/ PollIdle \/ PollSetup

Step == PollClosed \/ Poll \/ ArchiveOne \/ Save \/ Claim \/ Send \/ Finish

Next == Tick \/ Start \/ Step \/ SendTimesOut \/ LedgerFails \/ Crash

Spec == Init /\ [][Next]_vars

\* The clock advances and a run goes on; runs that get the lock at once keep coming, also ones that
\* find the market open.
Fairness ==
    /\ SF_vars(Tick) /\ WF_vars(Step)
    /\ SF_vars(Start /\ now' = clock) /\ SF_vars(Poll /\ now = clock)

FairSpec == Spec /\ Fairness

-----------------------------------------------------------------------------
\* An alert appears in the chat at most once: over suspensions and re-entries, sibling sweeps of one
\* confirmation, failed and ambiguous sends, dead runs (confirmation_key, AlertLedger, deliver_once).
AlertAtMostOnce == \A k \in Keys : chat[k] <= 1

\* The ledger tells the truth about the chat: what it calls sent was shown, and what it lets a later
\* run send again was not (AlertLedger.claim, AlertLedger.finish, RETRYABLE_STATES).
LedgerIsTrue ==
    \A k \in Keys : /\ ledger[k] = "SENT" => chat[k] = 1
                    /\ ledger[k] \in {"absent"} \cup RETRYABLE_STATES => chat[k] = 0

RecordOf == [absent |-> "open", FAILED |-> "open", PENDING |-> "claimed", SENT |-> "delivered",
             DELIVERY_UNCERTAIN |-> "doubtful"]
Promise == INSTANCE Courier WITH
    Messages <- Keys,
    record <- [k \in Keys |-> RecordOf[ledger[k]]],
    shown <- chat

\* The alert ledger implements the courier: a known failure is open again, a claim met by a later
\* run is doubtful (AlertLedger.claim, deliver_once).
ImplementsCourier == Promise!CourierSpec

\* Every transition the tracker counts was archived before the record that counts it was saved, and
\* the saved state is the one the last of them led to (WatchTracker._emit).
SaveIsArchived ==
    /\ \A n \in 1..trk.seq : \E a \in archive : a.n = n
    /\ trk.state \in Reported =>
           \E a \in archive : a.n = trk.seq /\ a.to = trk.state /\ a.ref = trk.ref

\* The owner is never told of a transition that is not in the archive and in the saved count
\* (WatchTracker._emit before deliver_once in _watch_once).
MessageIsArchived ==
    [][\A k \in Keys : chat'[k] > chat[k] =>
           \E a \in archive : a.n <= trk.seq /\ AlertKey(a.to, a.ref) = k]_vars

\* A watch suspended on stale data does not stay suspended when the data stay stale: past its expiry
\* a run closes it (WatchTracker.poll, STALE_PAST_EXPIRY).
SuspensionEnds == trk.state = "SUSPENDED" /\ trk.expires <= MaxTime ~> trk.state # "SUSPENDED"

-----------------------------------------------------------------------------
(* The inductive invariant *)

HeldIsNamed == Held => trk.ref \in Refs

IsArchived(t) == [n |-> t.n, to |-> t.to, ref |-> t.ref] \in archive

\* A run between its poll and its end is at one of its transitions; until the save they are numbered
\* on from the saved record, and what lies behind the run is archived.
BatchIsCurrent ==
    /\ pc \in {"idle", "poll"} => at = 1
    /\ pc \notin {"idle", "poll"} => at \in 1..Len(batch)
    /\ pc \in {"archive", "save"} => \A j \in 1..Len(batch) : batch[j].n = trk.seq + j
    /\ pc = "archive" => \A j \in 1..at - 1 : IsArchived(batch[j])
    /\ pc \in {"save", "claim", "send", "finish"} => \A j \in 1..Len(batch) : IsArchived(batch[j])
    /\ pc \in {"claim", "send", "finish"} => \A j \in 1..Len(batch) : batch[j].n <= trk.seq

\* The claim of the alert being sent is pending, and the alert was not shown before.
ClaimIsPending ==
    /\ pc = "send" => ledger[Current] = "PENDING" /\ chat[Current] = 0
    /\ pc = "finish" => /\ ledger[Current] = "PENDING"
                        /\ status = "SENT" => chat[Current] = 1
                        /\ status = "FAILED" => chat[Current] = 0

WatchInv ==
    /\ TypeOK /\ HeldIsNamed /\ BatchIsCurrent /\ ClaimIsPending
    /\ AlertAtMostOnce /\ LedgerIsTrue /\ SaveIsArchived

=============================================================================
