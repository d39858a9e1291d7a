--------------------------- MODULE SessionSummary ---------------------------
(***************************************************************************)
(* The canonical FX host cycle of one instrument in one session and the    *)
(* session's summary (scripts/host/canonical_fx_delivery.py), delivered    *)
(* through the Sender of telegram_delivery/adapter.py.                     *)
(*                                                                         *)
(* Run n is the host run whose time `now' is n.  Up to Due, the end of the *)
(* trade window plus the grace, a run evaluates the session and delivers    *)
(* the ticket (run_canonical_fx_cycle); later runs deliver the summary     *)
(* (_process_due_summary, which the crypto and daily summaries share).     *)
(* Runs overlap: the one that finds MT5 busy works outside the             *)
(* single-instance lock.  TelegramSender has the details of the Sender     *)
(* that are left out here: rate limits and the owner's resends.            *)
(***************************************************************************)
EXTENDS Integers, FiniteSets

CONSTANTS
    MaxRun,         \* bound on the runs
    MaxOverlap,     \* bound on the runs under way at a time
    Due,            \* end_with_grace of the session
    MaxFaults       \* bound on dead runs, failed writes and failed reads

ASSUME SummaryAssumption == MaxRun \in Nat /\ MaxOverlap \in Nat /\ Due \in Nat /\ MaxFaults \in Nat

Runs == 1..MaxRun
Kinds == {"ticket", "session_summary"}

VARIABLES
    last,       \* the last run started
    started,    \* the time in the scheduler-start file, Absent without a file, Empty without a time
    evaluations,\* rows of the ticket store: time and decision
    intents,    \* runs whose INTENT event is in the session journal
    events,     \* RESULT events of the ticket: time, decision, state, whether it was stored
    results,    \* RESULT events of the summary: time, state, whether delivery was enabled
    row, held,  \* of each kind: its row in the Sender's journal, and who holds its key lock (0: nobody)
    chat,       \* chat[k]: how many times the message appeared in the chat
    pc, cfg,    \* pc[n], cfg[n]: where run n is, and whether its Sender is enabled
    decision,   \* decision[n]: the decision it evaluated, or read as the latest one
    outcome,    \* outcome[n]: its delivery_state
    bucket,     \* bucket[n]: what its digest counts the ticket's delivery as
    cut,        \* the runs that died or could not append to the session journal
    faults

vars == <<last, started, evaluations, intents, events, results, row, held, chat,
          pc, cfg, decision, outcome, bucket, cut, faults>>

journals == <<evaluations, intents, events, results>>
sender == <<row, held, chat>>
locals == <<decision, outcome, bucket>>

\* "failed" stands for delivery_exception too, which is counted and settles a summary in the same way;
\* "alert" stands for a decision send_ticket may send at once, "quiet" for the ones it always leaves to
\* the summary.
Decisions == {"alert", "quiet"}
RowStates == {"absent", "pending", "DELIVERED", "DELIVERY_FAILED", "DELIVERY_UNCERTAIN"}
States == {"none", "disabled", "blocked", "summary_only", "persistence_failed", "duplicate", "sent",
           "failed", "uncertain", "store_read_failed"}
Buckets == {"succeeded", "uncertain", "failed", "disabled", "blocked", "summary_only",
            "persistence_failed", "not_attempted"}
Absent == 0
Empty == -1
PCs == {"idle", "evaluate", "read", "attempts", "intent", "lock", "claim", "transport",
        "record", "result", "scheduler", "write_start", "done"}

TypeOK ==
    /\ last \in 0..MaxRun
    /\ started \in {Absent, Empty} \cup Runs
    /\ evaluations \subseteq [at : Runs, decision : Decisions]
    /\ intents \subseteq Runs
    /\ events \subseteq [at : Runs, decision : Decisions, state : States, stored : BOOLEAN]
    /\ results \subseteq [at : Runs, state : States, enabled : BOOLEAN]
    /\ row \in [Kinds -> RowStates] /\ held \in [Kinds -> 0..MaxRun] /\ chat \in [Kinds -> Nat]
    /\ pc \in [Runs -> PCs] /\ cfg \in [Runs -> BOOLEAN]
    /\ decision \in [Runs -> Decisions \cup {"none"}]
    /\ outcome \in [Runs -> States] /\ bucket \in [Runs -> Buckets \cup {"none"}]
    /\ cut \subseteq Runs /\ faults \in 0..MaxFaults

Init ==
    /\ last = 0 /\ started = Absent
    /\ evaluations = {} /\ intents = {} /\ events = {} /\ results = {}
    /\ row = [k \in Kinds |-> "absent"] /\ held = [k \in Kinds |-> 0] /\ chat = [k \in Kinds |-> 0]
    /\ pc = [n \in Runs |-> "idle"] /\ cfg = [n \in Runs |-> FALSE]
    /\ decision = [n \in Runs |-> "none"] /\ outcome = [n \in Runs |-> "none"]
    /\ bucket = [n \in Runs |-> "none"]
    /\ cut = {} /\ faults = 0

Goto(n, label) == pc' = [pc EXCEPT ![n] = label]

InWindow(n) == n <= Due

Kind(n) == IF InWindow(n) THEN "ticket" ELSE "session_summary"

\* The locals of a call or of a run that is over.
Forget(n) ==
    /\ decision' = [decision EXCEPT ![n] = "none"] /\ outcome' = [outcome EXCEPT ![n] = "none"]
    /\ bucket' = [bucket EXCEPT ![n] = "none"]

\* A fault the run notices, or its death, out of the bounded number of them.
Fault == faults < MaxFaults /\ faults' = faults + 1

-----------------------------------------------------------------------------
Active == {n \in Runs : pc[n] \notin {"idle", "done"}}

\* The next host run starts: active_cycles, and build_sender with the owner's gates as they are now.
Start ==
    /\ last < MaxRun /\ Cardinality(Active) < MaxOverlap
    /\ last' = last + 1
    /\ cfg' \in {[cfg EXCEPT ![last + 1] = e] : e \in BOOLEAN}
    /\ Goto(last + 1, IF InWindow(last + 1) THEN "evaluate" ELSE "scheduler")
    /\ UNCHANGED <<started, journals, sender, locals, cut, faults>>

-----------------------------------------------------------------------------
(* run_canonical_fx_cycle: evaluate, store, verify *)

\* The row is in the store and verified; or it is not, and nothing is sent.
Evaluate(n) ==
    /\ pc[n] = "evaluate"
    /\ \E d \in Decisions :
         /\ decision' = [decision EXCEPT ![n] = d]
         /\ \/ /\ evaluations' = evaluations \cup {[at |-> n, decision |-> d]}
               /\ Goto(n, "intent")
               /\ UNCHANGED <<outcome, faults>>
            \/ /\ Fault
               /\ outcome' = [outcome EXCEPT ![n] = "persistence_failed"]
               /\ Goto(n, "result")
               /\ UNCHANGED evaluations
    /\ UNCHANGED <<last, started, intents, events, results, sender, cfg, bucket, cut>>

-----------------------------------------------------------------------------
(* process_due_session_summaries and the head of _process_due_summary *)

\* ensure_scheduler_start: the first run that comes here creates the file and writes its time; a
\* later one reads it.  An empty file is an error, and no summary is processed.
Scheduler(n) ==
    /\ pc[n] = "scheduler"
    /\ \/ started = Absent /\ started' = Empty /\ Goto(n, "write_start")
       \/ started # Absent /\ UNCHANGED started
          /\ Goto(n, IF started # Empty /\ started < Due /\ ~InWindow(n) THEN "read" ELSE "done")
    /\ UNCHANGED <<last, journals, sender, cfg, locals, cut, faults>>

\* A session that was over before the first run is not reconciled.
WriteStart(n) ==
    /\ pc[n] = "write_start"
    /\ started' = n
    /\ Goto(n, "done")
    /\ UNCHANGED <<last, journals, sender, cfg, locals, cut, faults>>

SettledStates == {"sent", "duplicate", "uncertain", "failed"}

\* _latest_summary_result
Latest == {r \in results : \A s \in results : s.at <= r.at}

\* Mutant: a summary that was disabled is not taken up again.
ReopenedNever(n) == \A r \in Latest : r.state = "store_read_failed"

\* Whether run n takes the summary up: nothing settled it, and one that was not sent for the gates
\* is taken up only by a run that finds them newly open.
Reopened(n) ==
    \A r \in Latest :
        /\ r.state \notin SettledStates
        /\ r.state \in {"disabled", "blocked"} => cfg[n] /\ ~r.enabled

\* The evaluations build_session_summary finds: the stored ones, and the journalled failures to store.
Recorded ==
    evaluations \cup {[at |-> e.at, decision |-> e.decision] : e \in {f \in events : ~f.stored}}

\* The decision of the latest evaluation, "none" when the session was missed.
LatestDecision ==
    IF Recorded = {} THEN "none"
    ELSE (CHOOSE r \in Recorded : \A s \in Recorded : s.at <= r.at).decision

\* The state the session journal gives to the delivery of decision d.
JournalState(d) ==
    LET rs == {e \in events : e.decision = d} IN
    IF rs = {} THEN "not_attempted" ELSE (CHOOSE e \in rs : \A f \in rs : f.at <= e.at).state

\* _delivery_bucket
DeliveryBucket(state) ==
    CASE state \in {"sent", "DELIVERED"} -> "succeeded"
      [] state \in {"uncertain", "DELIVERY_UNCERTAIN", "pending"} -> "uncertain"
      [] state \in {"failed", "DELIVERY_FAILED"} -> "failed"
      [] state \in {"disabled", "blocked", "summary_only", "persistence_failed"} -> state
      [] OTHER -> "not_attempted"

\* The latest result of the summary, the ticket store and the session journal are read; a file that
\* cannot be read is a result of its own, taken up by the next run.
Read(n) ==
    /\ pc[n] = "read"
    /\ \/ /\ ~Reopened(n)
          /\ Goto(n, "done")
          /\ UNCHANGED <<locals, faults>>
       \/ /\ Reopened(n)
          /\ decision' = [decision EXCEPT ![n] = LatestDecision]
          /\ bucket' = [bucket EXCEPT ![n] = DeliveryBucket(JournalState(LatestDecision))]
          /\ Goto(n, "attempts")
          /\ UNCHANGED <<outcome, faults>>
       \/ /\ Fault
          /\ outcome' = [outcome EXCEPT ![n] = "store_read_failed"]
          /\ Goto(n, "result")
          /\ UNCHANGED <<decision, bucket>>
    /\ UNCHANGED <<last, started, journals, sender, cfg, cut>>

\* Mutant: the session journal has the last word, not the Sender's.
AttemptBucketJournal(n) == bucket[n]

\* The Sender's row of the latest decision overrides what the session journal says of it.
AttemptBucket(n) ==
    IF decision[n] = "alert" /\ row["ticket"] # "absent" THEN DeliveryBucket(row["ticket"]) ELSE bucket[n]

\* delivery_attempts, then list_uncertain, which turns the claims nobody is sending to uncertain.
Attempts(n) ==
    /\ pc[n] = "attempts"
    /\ bucket' = [bucket EXCEPT ![n] = AttemptBucket(n)]
    /\ row' = [k \in Kinds |-> IF row[k] = "pending" /\ held[k] = 0 THEN "DELIVERY_UNCERTAIN" ELSE row[k]]
    /\ Goto(n, "intent")
    /\ UNCHANGED <<last, started, journals, held, chat, cfg, decision, outcome, cut, faults>>

-----------------------------------------------------------------------------
(* What both have in common: intent, Sender._send, result *)

\* After the ticket the run goes on to the summaries that are due; its locals are gone.
Leave(n) ==
    /\ Goto(n, IF InWindow(n) THEN "scheduler" ELSE "done")
    /\ Forget(n)

\* The same without the event.
Unrecorded(n) == cut' = cut \cup {n} /\ Leave(n)

\* send_ticket, send_session_summary, and the refusals at the head of _send: what may come back
\* before the key lock is tried.  A message may fail to render or be too long, and a ticket's decision
\* may be outside the scope of this run's Sender, as it always is with the gates closed.
Refusals(n) ==
    IF InWindow(n) THEN {"failed", "blocked", "summary_only"}
    ELSE {"failed", IF cfg[n] THEN "blocked" ELSE "disabled"}

Send(n) ==
    \/ /\ outcome' \in {[outcome EXCEPT ![n] = s] : s \in Refusals(n)}
       /\ Goto(n, "result")
    \/ /\ cfg[n] /\ (InWindow(n) => decision[n] = "alert")
       /\ Goto(n, "lock")
       /\ UNCHANGED outcome

\* Mutant: a journal that cannot be written does not stop the delivery.
IntentAnyway(n) ==
    /\ pc[n] = "intent"
    /\ \/ intents' = intents \cup {n} /\ UNCHANGED faults
       \/ Fault /\ UNCHANGED intents
    /\ Send(n)
    /\ UNCHANGED <<last, started, evaluations, events, results, sender, cfg, decision, bucket, cut>>

\* append_session_event of the INTENT, and then the delivery: nothing is sent without an intent.
Intent(n) ==
    /\ pc[n] = "intent"
    /\ \/ intents' = intents \cup {n} /\ Send(n) /\ UNCHANGED <<decision, bucket, cut, faults>>
       \/ Fault /\ Unrecorded(n) /\ UNCHANGED intents
    /\ UNCHANGED <<last, started, evaluations, events, results, sender, cfg>>

\* _key_lock: another delivery of the message in progress makes this one a duplicate.
Lock(n) ==
    /\ pc[n] = "lock"
    /\ \/ /\ held[Kind(n)] = 0
          /\ held' = [held EXCEPT ![Kind(n)] = n]
          /\ Goto(n, "claim")
          /\ UNCHANGED outcome
       \/ /\ held[Kind(n)] # 0
          /\ outcome' = [outcome EXCEPT ![n] = "duplicate"]
          /\ Goto(n, "result")
          /\ UNCHANGED held
    /\ UNCHANGED <<last, started, journals, row, chat, cfg, decision, bucket, cut, faults>>

\* The delivery comes back with state s, and its key lock is free.
Return(n, s) ==
    /\ outcome' = [outcome EXCEPT ![n] = s]
    /\ held' = [k \in Kinds |-> IF held[k] = n THEN 0 ELSE held[k]]
    /\ Goto(n, "result")

\* Mutant: the claim a dead run left is taken over.
ClaimTakeover(n) ==
    /\ pc[n] = "claim"
    /\ \/ /\ row[Kind(n)] \in {"absent", "pending"}
          /\ row' = [row EXCEPT ![Kind(n)] = "pending"]
          /\ Goto(n, "transport")
          /\ UNCHANGED <<held, outcome>>
       \/ /\ row[Kind(n)] \notin {"absent", "pending"}
          /\ Return(n, "duplicate")
          /\ UNCHANGED row
    /\ UNCHANGED <<last, started, journals, chat, cfg, decision, bucket, cut, faults>>

\* The claim's transaction: a row that is there, also a recovered claim, makes it a duplicate.
Claim(n) ==
    /\ pc[n] = "claim"
    /\ \/ /\ row[Kind(n)] = "absent"
          /\ row' = [row EXCEPT ![Kind(n)] = "pending"]
          /\ Goto(n, "transport")
          /\ UNCHANGED <<held, outcome, faults>>
       \/ /\ row[Kind(n)] # "absent"
          /\ row' = [row EXCEPT ![Kind(n)] = IF @ = "pending" THEN "DELIVERY_UNCERTAIN" ELSE @]
          /\ Return(n, "duplicate")
          /\ UNCHANGED faults
       \/ Fault /\ Return(n, "failed") /\ UNCHANGED row
    /\ UNCHANGED <<last, started, journals, chat, cfg, decision, bucket, cut>>

\* Telegram shows the message and says so, refuses it, or leaves it open.  Assumed of Telegram: an
\* acceptance carries its message_id, for bot_api takes one without it for a refusal.
Transport(n) ==
    /\ pc[n] = "transport"
    /\ \E s \in {"sent", "failed", "uncertain"} :
         /\ outcome' = [outcome EXCEPT ![n] = s]
         /\ \E shown \in CASE s = "sent" -> {1} [] s = "failed" -> {0} [] OTHER -> {0, 1} :
              chat' = [chat EXCEPT ![Kind(n)] = @ + shown]
    /\ Goto(n, "record")
    /\ UNCHANGED <<last, started, journals, row, held, cfg, decision, bucket, cut, faults>>

RowOf == [sent |-> "DELIVERED", failed |-> "DELIVERY_FAILED", uncertain |-> "DELIVERY_UNCERTAIN"]

\* The outcome is written to the row; when it cannot be, the claim stays pending and the delivery
\* counts as failed.
Record(n) ==
    /\ pc[n] = "record"
    /\ \/ /\ row' = [row EXCEPT ![Kind(n)] = RowOf[outcome[n]]]
          /\ Return(n, outcome[n])
          /\ UNCHANGED faults
       \/ Fault /\ Return(n, "failed") /\ UNCHANGED row
    /\ UNCHANGED <<last, started, journals, chat, cfg, decision, bucket, cut>>

\* append_session_event of the RESULT.
Result(n) ==
    /\ pc[n] = "result"
    /\ \/ /\ IF InWindow(n)
             THEN /\ events' = events \cup {[at |-> n, decision |-> decision[n], state |-> outcome[n],
                                             stored |-> outcome[n] # "persistence_failed"]}
                  /\ UNCHANGED results
             ELSE /\ results' = results \cup {[at |-> n, state |-> outcome[n], enabled |-> cfg[n]]}
                  /\ UNCHANGED events
          /\ Leave(n)
          /\ UNCHANGED <<cut, faults>>
       \/ Fault /\ Unrecorded(n) /\ UNCHANGED <<events, results>>
    /\ UNCHANGED <<last, started, evaluations, intents, sender, cfg>>

\* The run dies; the operating system drops its key lock.
Crash(n) ==
    /\ pc[n] \notin {"idle", "done"}
    /\ Fault
    /\ cut' = cut \cup {n}
    /\ held' = [k \in Kinds |-> IF held[k] = n THEN 0 ELSE held[k]]
    /\ Goto(n, "done") /\ Forget(n)
    /\ UNCHANGED <<last, started, journals, row, chat, cfg>>

-----------------------------------------------------------------------------

Step(n) ==
    \/ Evaluate(n) \/ Scheduler(n) \/ WriteStart(n) \/ Read(n) \/ Attempts(n) \/ Intent(n)
    \/ Lock(n) \/ Claim(n) \/ Transport(n) \/ Record(n) \/ Result(n)

Next == Start \/ \E n \in Runs : Step(n) \/ Crash(n)

Spec == Init /\ [][Next]_vars

-----------------------------------------------------------------------------
\* Neither the ticket nor the summary appears twice in the chat: over runs that overlap, die or
\* cannot write, and whatever the session journal was left saying (_process_due_summary, _send).
MessageAtMostOnce == \A k \in Kinds : chat[k] <= 1

RecordOf == [absent |-> "open", pending |-> "claimed", DELIVERED |-> "delivered",
             DELIVERY_FAILED |-> "dropped", DELIVERY_UNCERTAIN |-> "doubtful"]
Promise == INSTANCE Courier WITH
    Messages <- Kinds,
    record <- [k \in Kinds |-> RecordOf[row[k]]],
    shown <- chat

\* The Sender as the host's runs use it implements the courier for the ticket and the summary, the
\* listing of uncertain claims by every summary included (_send, list_uncertain).
ImplementsCourier == Promise!CourierSpec

\* A message in the chat has a durable intent of a run that found the gates open, a ticket also its
\* stored evaluation; and a result that says "sent" is about a message in the chat
\* (run_canonical_fx_cycle: "persist before delivery", "no send without a durable intent record").
EventsAreTrue ==
    /\ \A k \in Kinds : chat[k] > 0 => \E n \in intents : Kind(n) = k /\ cfg[n]
    /\ chat["ticket"] > 0 => \E e \in evaluations : e.decision = "alert"
    /\ \A e \in events : e.state = "sent" => chat["ticket"] > 0
    /\ \A r \in results : r.state = "sent" => chat["session_summary"] > 0

\* What a digest is built to say: it calls a session missed only if every run of the window that is
\* over failed to journal its result, it counts as delivered only a ticket in the chat, and a ticket
\* in the chat as delivered or uncertain (build_session_summary).
DigestIsTrue ==
    [][\A n \in Runs :
        /\ pc[n] = "read" /\ pc'[n] = "attempts" /\ decision'[n] = "none" =>
               \A m \in Runs : InWindow(m) /\ pc[m] = "done" => m \in cut
        /\ pc[n] = "attempts" /\ pc'[n] = "intent" =>
               /\ bucket'[n] = "succeeded" => chat["ticket"] > 0
               /\ chat["ticket"] > 0 /\ decision[n] = "alert" => bucket'[n] \in {"succeeded", "uncertain"}]_vars

\* A result after which no run with the gates open takes the summary up.
Final(r) == r.state \in SettledStates \/ (r.state = "blocked" /\ r.enabled)

\* A run that came to a due summary with the gates open leaves it settled, unless it dies or cannot
\* write or read: whatever earlier runs left while the gates were closed, and whatever order the
\* results of overlapping runs arrive in (process_due_session_summaries: "Reconcile every due session
\* since deployment").
SummaryIsSettled ==
    [][\A n \in Runs : ~InWindow(n) /\ cfg[n] /\ pc[n] \notin {"scheduler", "write_start", "done"} /\ pc'[n] = "done" =>
           n \in cut' \/ \E r \in results' : Final(r) \/ (r.at = n /\ r.state = "store_read_failed")]_vars

-----------------------------------------------------------------------------
(* The inductive invariant *)

Sending == {"claim", "transport", "record"}

HoldsKey == \A n \in Runs : pc[n] \in Sending => held[Kind(n)] = n

HoldsClaim == \A n \in Runs : pc[n] \in Sending \ {"claim"} => row[Kind(n)] = "pending"

\* What a row says of the chat; the message of a claim is shown only by the request that follows it.
RowIsTrue ==
    /\ \A k \in Kinds : /\ row[k] \in {"absent", "DELIVERY_FAILED"} => chat[k] = 0
                        /\ row[k] = "DELIVERED" => chat[k] > 0
    /\ \A n \in Runs : pc[n] = "transport" => chat[Kind(n)] = 0

\* What a run is about to say of the chat.
OutcomeIsTrue ==
    \A n \in Runs :
        /\ pc[n] \in {"record", "result"} /\ outcome[n] = "sent" => chat[Kind(n)] > 0
        /\ pc[n] = "record" => /\ outcome[n] \in {"sent", "failed", "uncertain"}
                               /\ outcome[n] = "failed" => chat[Kind(n)] = 0

\* A run that sends has its intent, open gates, and for a ticket the stored evaluation.
SendIsBacked ==
    \A n \in Runs : pc[n] \in Sending \cup {"lock"} =>
        /\ n \in intents /\ cfg[n]
        /\ InWindow(n) => [at |-> n, decision |-> "alert"] \in evaluations

\* A run of the window that is past its evaluation has stored it, or is about to say it did not.
EvaluationIsRecorded ==
    \A n \in Runs : InWindow(n) =>
        /\ pc[n] \in Sending \cup {"intent", "lock", "result"} =>
               /\ decision[n] \in Decisions
               /\ \/ [at |-> n, decision |-> decision[n]] \in evaluations
                  \/ pc[n] = "result" /\ outcome[n] = "persistence_failed"
        /\ pc[n] \in {"scheduler", "write_start", "done"} /\ n \notin cut => \E e \in Recorded : e.at = n

\* The results of a summary: none is "disabled" with the gates open.
ResultIsOwn ==
    /\ \A n \in Runs : pc[n] = "result" /\ ~InWindow(n) =>
           /\ outcome[n] \in SettledStates \cup {"disabled", "blocked", "store_read_failed"}
           /\ outcome[n] = "disabled" => ~cfg[n]
    /\ \A r \in results : r.state = "disabled" => ~r.enabled

\* Where the runs of the window are not, and the others.
RightPlace ==
    /\ \A n \in Runs : pc[n] = "evaluate" => InWindow(n)
    /\ \A n \in Runs : pc[n] \in {"read", "attempts"} => ~InWindow(n)

BucketIsTrue == \A n \in Runs : pc[n] = "attempts" /\ bucket[n] = "succeeded" => chat["ticket"] > 0

\* Only a run that has started has left anything behind.
OnlyStarted == \A n \in Runs : n > last => pc[n] = "idle" /\ n \notin intents

SummaryInv ==
    /\ TypeOK /\ OnlyStarted /\ HoldsKey /\ HoldsClaim /\ RowIsTrue /\ OutcomeIsTrue /\ SendIsBacked
    /\ EvaluationIsRecorded /\ ResultIsOwn /\ RightPlace /\ BucketIsTrue
    /\ MessageAtMostOnce /\ EventsAreTrue

=============================================================================
