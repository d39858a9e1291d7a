# TLA+ verification of AG-profit-trading-assit

AG is a trading assistant: strategy engines turn market data into *tickets*, tickets are archived and
delivered to their owner, and a small, fail-closed part of the program may send a ticket as an order to a
MetaTrader 5 DEMO account. This directory models the parts of it that keep durable state and can go wrong
over several steps, checks them with TLC on small instances, and proves the most important results with
TLAPS for every size of the system. Paths below are relative to the repository root; `src/` there is the
Python package root.

## 1. The system

### 1.1 Components, their state and how they interact

| Component | State it keeps | Operations | Talks to |
|---|---|---|---|
| Ticket store (`src/ticket_store/store.py`) | append-only JSONL files, one per UTC day | append (deduplicated), read all | everything below |
| Lifecycle trail (`src/demo_execution/lifecycle.py`) | one row per state of a ticket, as outcome rows of the store | `append`, `trail` | guard, adapter, monitor |
| Claim ledger (`idempotency.py`) | claim rows of a ticket: SENDING, UNCERTAIN, RECONCILED | `inspect`, `reserve_before_send`, `record_unknown`, `record_reconciled` | guard, adapter, monitor |
| Owner confirmations (`confirmation.py`, `authority.py`) | confirmation rows and consumption rows | append, validate, check-and-consume | owner, gates, guard, adapter |
| Emergency stop (`emergency.py`) | latch rows | `status`, `engage`, `clear` | guard reads, monitor engages, owner clears |
| Guarded dispatch (`dispatch.py`, `guarded_adapter.py`) | none of its own | one attempt to send one ticket; post-trade records | all of the above, the adapter |
| Canonical adapter (`mt5_canonical_adapter.py`) | none of its own | `order_check`, `order_send`, `reconcile` | MT5 terminal |
| Gates (`admission.py`, `risk.py`, `risk_snapshot.py`, `authorization.py`, `notification.py`, `scope.py`) | files they read | evaluate | guard |
| Position monitor (`position_monitor.py`) | none of its own | `run_cycle`, `recover_after_restart` | MT5 terminal, trail, ledger, stop |
| Exactly-once ticket delivery (`src/ticket_delivery`, over `src/runtime_state`) | one record and one lock file per logical ticket | register, claim, send, mark, owner's resolve | scheduler, injected provider, archive |
| Telegram sender (`src/telegram_delivery/adapter.py`) | an sqlite journal row and a lock per message | `send_ticket`, `send_report`, `resend_ticket`, `list_uncertain` | Telegram, scheduled runs, owner's commands |
| Large-SMC watch (`src/large_smc_watch/watch.py`, `src/host_delivery/lsmc_alert_dedup.py`, run by `scripts/host/live_candles_smoke.py`) | the tracker's saved record, an archive of transitions, an alert ledger | poll a snapshot, archive, save, claim and send an alert | market data, Telegram |
| Manual tickets and owner decisions (`src/v1_tickets`, `src/host_delivery/telegram_confirm.py`, `scripts/manual_ticket_decision.py`) | archived versions of a ticket, the decision file, the outcome journal | archive and show a version, tap, command, expire, resolve | owner, host run, ticket store |
| Host FX cycle and session summaries (`scripts/host/canonical_fx_delivery.py`) | evaluations in the ticket store, a session journal of intents and results, the scheduler-start file | evaluate and deliver a session's ticket, deliver its summary when due | Telegram sender, ticket store |
| Opportunity engine and candidate store (`src/opportunity`) | one candidate per occurrence with its history of transitions | evaluate an event, persist | crypto scanner, runtime state |
| Proposal eligibility, bridge and ledger (`src/opportunity/proposal_eligibility.py`, `src/proposal_envelope`) | one entry per proposal: its current version and the superseded ones | assess, convert, record, correct | nothing calls them yet |
| Session scanner, strategy engines (`src/session_scanner`, `src/strategy_engine`, `src/large_smc_v11*`, `src/entry_confirmation`, `src/liquidity`, `src/mtf_control_shift`, `src/asian_sweep_v1_2`) | per-run automata over bars | evaluate a bar or a snapshot | market data, ticket store |
| Governors and guards (`src/post_asian_pilot`, `src/sizing_math`, `src/v1_tickets` gates) | daily counters, loss state | admit or refuse | engines |
| Research (`src/edge_discovery`, `src/btc_sweep_research`, `src/validation_framework`) | ledgers, registries | append, promote, freeze | offline |
| Market access and analysis (`src/mt5`, `src/execution_runtime`, `src/market_structure`, `src/supply_demand`) | none | fetch, compute | terminal, exchanges |

`PROJECT.json` lists them all with what is modelled of each.

### 1.2 Where it is hard

The execution part is where a mistake costs most and a test reaches least:

* attempts and the monitor are threads of one process over one store; each check is a read whose result is
  used some steps later (a confirmation validated and then consumed, a cap checked and then used, a stop read
  and then relied on);
* `mt5.order_send` is not idempotent and may take an order without answering;
* the process may die between any two durable writes, and a write may fail;
* the monitor decides from readings that are older than the state it writes to;
* every writer stamps rows with a `now` it captured earlier, and rows go into the file of that day.

Delivery is the second place: a message cannot be taken back, and nobody can be asked whether it arrived.

* the claim on a message is durable before the network is touched, and an answer may be lost after Telegram
  accepted the message, so neither "send again" nor "it was sent" can be concluded from silence;
* the sender's calls are processes of their own: the key lock and an open transaction die with them, the row does
  not; the ticket delivery's lock is a file, which outlives the thread that made it;
* the ticket delivery reads and writes its record in separate steps, and only the claim is protected by the lock;
* a rate limit is retried inside the call, with the journal's transaction still open.

What makes delivery correct: a message appears once, plus at most once for each time the owner forced it; a
record says "delivered" only of what is in the chat, and says "retry" or "failed" only of what is not; an
ambiguous outcome is settled by the owner and by nobody else; no claim is held for ever.

The host's own jobs are the third. They are started by a task scheduler, so runs may come late, overlap or be killed,
and each is a chain of small durable writes around a message that cannot be taken back:

* a watch run takes its time before it waits for the lock, archives its transitions, saves its record and only then
  claims and sends each alert: it may die, time out or meet a ledger it cannot write between any two of these;
* a tap in Telegram, a command line and the host's expiry job race for the one decision of a ticket, and a host run
  that loses the race ends there and then, with its other tickets undone;
* a session's summary is left behind by runs with the gates closed and taken up by whoever finds them open, while
  overlapping runs write their results in any order;
* a poller of an opportunity compares with the record it got and puts one made from it in a second step.

What makes them correct: an alert, a ticket and a summary appear once; what a ledger or a journal says of a message is
so; a transition is archived before it is counted and counted before it is told; a ticket has one decision, and its
outcome carries it; a summary is settled by the first run that could; a history is one chain; a suspension and an
undecided ticket come to an end.

What makes execution correct: an order is submitted at most once per ticket; a submitted order has its claim, its
SENT row and its consumed confirmation on disk; what is recorded as a result is what happened; a trail moves
only along its table and stays readable; nothing stays in flight or halted unnoticed; only the owner releases
the stop. The `hazards` of `PROJECT.json` name the line where each of these can break.

## 2. The modules

| Module | What it is |
|---|---|
| `LifecycleStates` | the states of a trail and the table of legal successors |
| `LifecycleChain` | abstract specification: a ticket holds one state and moves along the table |
| `DayFiles` | the store's outcome files as the trail and the stop share them: one file per day, read back in the order of the days, torn lines |
| `Lifecycle` | the trail down to day files, per-ticket lock and captured clocks; implements `LifecycleChain` |
| `ExecutionStore` | the durable state of execution: trail, claims, confirmations, stop, and the operations on it |
| `DemoWorld` | clock, owner and broker |
| `DemoDispatch` | `dispatch_demo_order` with the guard and the adapter, one action per access to shared state |
| `PositionMonitor` | `run_cycle` and `recover_after_restart` |
| `DemoExecution` | their composition with crashes; its properties and inductive invariant |
| `DemoExecution_proofs` | the theorems |
| `EmergencyLatch` | the stop down to day files, across midnight |
| `DayFiles_proofs` | the theorems of `Lifecycle` and `EmergencyLatch`, and the lemmas on reading day files back that both need |
| `Courier` | abstract specification of every path to the chat: claimed before shown, shown once, settled on what is true or doubted; four modules implement it |
| `TelegramSender` | `Sender`: claim, transport, retries, record, resend, `list_uncertain`; its properties and inductive invariant |
| `TelegramSender_proofs` | its theorems |
| `TicketDelivery` | `process_pair_result` over `TicketDeliveryStore`, for one logical ticket; its properties and inductive invariant |
| `TicketDelivery_proofs` | its theorems |
| `LargeSmcWatch` | the watch of one symbol: tracker, archive, alert ledger and the host run around them |
| `ManualDecision` | `record_decision` and everyone who calls it: taps, commands, the host's expiry, resolver and scan |
| `SessionSummary` | `run_canonical_fx_cycle` for one instrument and `_process_due_summary`, by runs that overlap |
| `OpportunityFunnel` | `evaluate_funnel` and `CandidateStore.persist`, as the crypto scanner runs them |
| `LargeSmcWatch_proofs`, `ManualDecision_proofs`, `SessionSummary_proofs`, `OpportunityFunnel_proofs` | the theorems of each; the modules hold their own inductive invariant, which TLC can check too |
| `MC...` | instances for TLC |

The execution modules extend each other (`LifecycleStates`, `ExecutionStore`, `DemoWorld`, `DemoDispatch` and
`PositionMonitor`, `DemoExecution`). `Lifecycle` and `EmergencyLatch` extend `DayFiles` and are the two file-level
views of the same store. The others stand alone: delivery shares no state with execution, the two delivery paths no
state with each other, and the watch, the decisions and the opportunities have files of their own. `SessionSummary`
uses the sender and has its claim, transport and record as steps of a run; rate limits and resends, which the host
cycle does not ask for, are in `TelegramSender` only.

### 2.1 State and actions against the code

*Trail.* In `Lifecycle` a trail is what `store.outcomes` returns: rows of the day files concatenated in the order of
the file names. `Enter` is the part of `append` before the lock (validation, `now` captured), `Acquire` the re-read
and the order and time checks under `_ticket_lock`, `Write` the append, which may raise with nothing, a part of the
line or (when only its fsync failed) the whole row on disk while the process lives on, and `Crash` may leave the last
line torn. In `ExecutionStore` the trail of a ticket is its current state (`lc`) and the time of each row (`at`), with
the evidence other code reads back: the attempt whose authority the guarded rows carry (`author`), `halted_from`,
`terminal_result`. That this is what the files hold is what `ImplementsChain` and `ReaderAcceptsWriter` of the
`lifecycle_trail` run show.

*Claims.* `claim[t]` is the set of kinds of claim rows. `Inspect` keeps the order in which the code tests them. With
`WritesMayFail` the append of a guarded row, of a claim or of a halt may raise although the row is durable: the caller
takes it for missing and every later reader finds it.

*Confirmations.* `confirmedAt[t][k]` is when confirmation `k` was given; `used[t]` the consumed ones. The
gates consume the latest unconsumed one, whichever the authority names; ties are a free choice.

*An attempt* is a program counter. Each label stands before one access to shared state: `check_identity` reads
trail, latch and ledger; `check_pretrade` validates the confirmation; `gates` runs the gates and consumes it;
`append_authorized`, `append_checked`, `append_sent` and `append_ack` are the guarded rows; `reserve` is the
claim; `adapter` the preflight; `order_send` the call; `halt`, `mark` the halt row and the unknown marker, with
the variants for a halt inside `record_broker_ack`, which the dispatcher may try once more. Every check on data
the model does not hold is a refusal that may always happen, so the model never assumes that a check passes
or fails for a reason it cannot see.

*The monitor* keeps what its cycle read: `seen` (trails), then `positions`, then `deals`, `exits` and
`refusals`, and works through `todo`. A terminal that cannot be read ends the cycle.

*The broker* (external) may lose, queue, fill or reject a request; a lost one is never shown. The answer to
`order_send` may be an acceptance, a bad answer or nothing, and says nothing reliable except that an acceptance
with an order id is for an order that exists.

*A crash* ends every attempt and the cycle and keeps the store. Recovery then visits every ticket before
anything else is started, as the host must call it.

*The Telegram sender.* `row[k]` is the state of a message's journal row; a key is a ticket or signal with its
status. A call is a program counter: `precheck` is `_signal_already_reported`, `lock` is `_key_lock`, `claim` the
one transaction that recovers a surviving pending row and claims the message or answers duplicate, `transport`
one HTTP request, `backoff` the answer to a rate limit, and `delivered`, `uncertain` and `failed` the three ways
of recording the outcome. `journal` is who has a write transaction open: after a rate limit it stays open while
the call sleeps, and whoever meets it raises. `Crash` ends one process and drops its locks. `list_uncertain` is a
process of its own with three actions (read the pending keys, lock one, recover it). `chat` counts the messages
Telegram showed and `forced` the times the owner forced one. Telegram (external) may show the message and say
so, refuse it, ask for a pause, or answer nothing useful whether or not it showed it.

*The ticket delivery.* `state` and `attempt` are the record of one logical ticket. Every `get` and `put` is atomic
under the path's lock and is an action of its own, because nothing joins two of them; `lock` is the claim's lock
file, created exclusively and removed only by `_release_lock`. `Begin` covers the archive, the catch-up check and
the rendering, each of which may end the call. `Die` is the end of the process or a store operation that raises.
The owner's `resolve_ambiguous_outcome` is three actions, as in the code. The provider (external) is the injected
`deliver`.

*The watch.* `trk` is the tracker's record in `runtime_state`, `archive` the transition files, `ledger` the alert ledger.
One run at a time is inside the MT5 access lock (`Start`), with a time `now` that may be up to `LockWait` old. A poll
is one action per kind of snapshot (`PollClosed`, `PollStale`, `PollIdle`, `PollSetup`) and yields a batch of
transitions; `ArchiveOne`, `Save`, `Claim`, `Send`, `Finish` are the writes of `_emit` and `deliver_once` in their order.
An alert's identity is its state and reference, for an opportunity the confirmed setup, which siblings share.
`Crash` stands for death, watchdog and every fault that raises; `LedgerFails` for the ledger faults that
`deliver_once` catches. Runs without notification and alerts without an identity are left out.

*The manual decisions.* `decisions[t]` are a ticket's lines of `owner_decisions.jsonl`, `outcomes[t]` its lines of the
outcome journal, `version[t]` what `_decision_version` picks. `RecordLock`, `RecordCheck` and `RecordAppend` are
`record_decision` for whoever calls it; `TapLook` and `TapReread` the two other readings of a tap. The host run is
`HostExpire` and `HostNext` (`expire_undecided`), `HostResolve`, `HostOutcome` and `HostMirror` (`resolve_day`, once a
day), `HostScan` (`run_fx`: version archived, buttons shown). A command records its decision or, with `--expire`, does
what the host's expiry does, in a process of its own (`CommandBegin`). A lost race raises out of `record_decision` and
ends the host run, as in the code. A tap's Accept is recorded as REFUSED, because `execution_handoff` lets none
through.

*The host cycle.* Run `n` has `now = n`. Up to `Due` it evaluates the session and delivers the ticket; from then on it
delivers the summary. `Evaluate` stores and verifies the row; `Scheduler` and `WriteStart` are
`ensure_scheduler_start`, which creates the file in one step and fills it in another; `Read` and `Attempts` build the
digest; `Intent`, `Lock`, `Claim`, `Transport`, `Record` and `Result` are what ticket and summary have in common. The
ticket store and the session journal are read as one step.

*The funnel.* `store` is the candidate's record. A poller's `Evaluate` reads the candidate and writes nothing; an ended
candidate, a semantic no-op and another market data mode end the poll there. `PersistGet` and `PersistPut` are the get
and the put of `persist`, each locked by itself. What a strategy projects is any stage, outcome and state; geometry and
evidence are stored along and decide nothing, so they are left out.

### 2.2 Assumptions

* One process per store root: the store is single-writer by contract (`src/ticket_store/store.py:14-16`), and
  the locks are process-local.
* `recover_after_restart` is called, and returns, before dispatch or the monitor is started.
* The clock does not go back.
* The tickets of a model are of one instrument, under one scope.
* The owner's `clear` carries the time it is given.
* The owner resolves an ambiguous ticket from what the chat shows.
* `FirstCycleAlone`: the calls for one ticket overlap only once the ticket has a record. The code does not ensure
  it; the run `overlap_sends_twice` shows what happens without it. Everything else checked and proved about
  `TicketDelivery` is under it.
* The rule on report classes is read before the key is locked, so it is a rule about successive calls, and
  `OneReportPerSignal` states it at the moment of the check; calls of different classes that overlap may both pass.
* `expires_at` is never set by `process_pair_result` nor by the engine, so neither a delivery record nor a candidate
  expires by its clock.
* Manual decisions: host runs exclude each other (`single_instance`); a run with `--canonical` does not scan, so it
  does less than the model allows.
* Telegram's acceptance carries a `message_id`. `bot_api` takes one without it for a refusal
  (`telegram_delivery/adapter.py:514-519`, and `:747-755` for the receipt), so the row of a message in the chat would say
  DELIVERY_FAILED. `JournalIsTrue`, `OneReportPerSignal`, the courier of the sender and what `SessionSummary` says of the
  chat rest on it.
* The operating system's locks (MT5 access, decision lock, key lock) end with their holder.

## 3. The runs

| Run | Checks | Instance | Shows |
|---|---|---|---|
| `lifecycle_trail` | `ReaderAcceptsWriter`, `TrailOnlyExtends`, `TornFailsClosed`, `ImplementsChain` | 1 ticket, 2 callers, 3 clock values over 2 days | concurrent appends with old clocks never make a trail the reader refuses, a torn line is never skipped, the files implement the chain |
| `exec_crash` | `AtMostOneSend`, `ResultIsTrue`, `ClaimIsConsistent` | 1 ticket, 2 attempts that need no confirmation, 1 crash, appends that fail with or without their row | one order at most; recorded results are true; claim rows agree |
| `exec_settles` | `TrailIsOrdered`, `NoStrandedClaim`, `SendIsBacked`, `HaltIsSettled`, `SendIsSettled` | 1 ticket, 1 attempt, 2 confirmations, 1 crash, 3 clock values | old clock readings do not disturb a trail; a crash strands no claim; an order has its evidence; sends and halts are settled |
| `latch` | `LatchIsLastWrite`, `OnlyOwnerReleases` | 3 days of 2 clock units, 4 rows | the stop is sticky; the one-bit view is right unless a row crosses midnight |
| `sender` | `NoUnaskedResend`, `JournalIsTrue`, `ImplementsCourier`, `OneReportPerSignal`, `PendingIsResolved` | 1 ticket and the 3 report classes of its signal, 2 processes in any mode, 2 requests per call, 2 crashes | no message the owner did not ask for; the journal is true; reports go the way of the abstract courier; one report per signal but for the upgrade from BLOCKED to CANDIDATE; no claim stays pending |
| `delivery` | `AtMostOneMessage`, `RecordIsTrue`, `ClaimIsOwn`, `SettledStays`, `LockIsReleased` | 4 calls, 2 deaths, the owner | one message; a true record; a claim is its caller's own; the lock is given back unless the outcome is ambiguous or a call died |
| `watch` | `AlertAtMostOnce`, `LedgerIsTrue`, `SaveIsArchived`, `MessageIsArchived`, `SuspensionEnds` | 1 zone, 2 sibling opportunities, 2 days of one moment, 1 fault | an alert once; a true ledger; nothing told or counted that is not archived; no suspension for ever |
| `decision` | `OneDecision`, `ReplyIsTrue`, `OutcomeCarriesDecision`, `ReadyIsDecided` | 2 tickets, a tap, a command, the host, 1 crash | one decision whoever races; true replies; outcomes with the decision that stands; a decision in the end |
| `summary` | `MessageAtMostOnce`, `EventsAreTrue`, `DigestIsTrue`, `SummaryIsSettled` | 4 runs, 2 at a time, 2 in the window, 1 fault anywhere | ticket and summary once; true events; a digest that agrees with the chat; a summary settled by the run that could |
| `funnel` | `HistoryIsLinked`, `EndedIsFinal` | 3 pollers, 2 modes, 2 stages, 2 outcomes, 2 states, 2 revisions | one chain; an end undone only by a write already under way |

*Bounds.* Two attempts are all that can race for one ticket in an essential way: the invariant ties a ticket to one
owning attempt, and a third would only be refused in the way the second is. One crash and one recovery at every point
cover each cut between two writes; the proofs cover any number. `Window = UnknownTimeout = 1` puts "before", "at" and
"after" each deadline inside the clock range. `exec_crash` runs without confirmations (`ConfirmRequired = FALSE`, the
scope's `per_order_confirm_required`), so that both attempts pass the gates and only trail and claim stand between
them. `exec_settles` has the two confirmations it takes for the validated and the consumed one to differ; the owner
does not revoke there (`MayRevoke = FALSE`), since a revocation only adds refusals, which may happen anyway.
`SendIsBacked` with failing appends is a matter of the theorem `BackedSend`. Symmetry is used over attempts, callers
and pollers only, in runs without liveness. Two sender processes, with the listing as a third, are what it takes to
race for a key and for the journal (an open transaction of one call disturbs another message's call), and to resend
after a crash; two requests per call show the first and the last rate limit. The proof covers any number of them. Four
delivery calls allow a claim, a failure, a retry and a latecomer, with two deaths between. Calls are finite and an
idle system may stop, so the `delivery` run does not check for deadlock; the sender's listing can always run. `MaxSeq
= 2` bounds the number from which no new setup is taken up, not the length of a batch: a watch takes up a reference,
and a later poll ends it and takes up another in one batch of two transitions. The second day is where an expiry falls
due; expiries inside a day are left to the proofs, and so is DEVELOPING, which `Sightings` leaves out of the run because
it is taken up, ended and suspended just as NEAR_POI is. Two tickets are what it takes for a lost race on one to leave the
other undone. In `summary` two runs fall into the window and two after it, so each phase overlaps itself and the
other; runs are numbered and end, so the run does not check for deadlock. Two revisions are what it takes to end an
opportunity and to bring it back through the gap between a get and a put. In `decision` a command records SKIPPED,
which the code admits whenever it admits TAKEN and for blocked tickets too, or expires.

*Fairness* (`FairSpec`): the threads of the process run on, the host calls the monitor again and again, recovery
runs to its end, time passes, and the broker decides what it queued: weak fairness of each. The terminal may
be unreachable for any number of cycles but not in all of them for ever: strong fairness of the two readings,
without which nothing about the broker can ever be learnt. Nothing is assumed of the owner, of the host's
post-trade calls, of crashes, or of starting an attempt. The model clock ends at `MaxTime`, so a deadline
counts in a liveness property only if it falls inside the clock. The run has appends that succeed: with a disk
that always fails nothing can be recorded.

In `TelegramSender` a call that has begun goes on (or its process dies), and `list_uncertain` is called again and
again, because every session summary calls it: weak fairness of both. In `TicketDelivery` a running call goes on,
and so does a resolution once the owner has begun it; that the owner resolves anything is not assumed.

In `LargeSmcWatch` the scheduler starts runs again and again, a run goes on unless it dies, and time passes between
runs: weak fairness of `Step`, strong fairness of `Tick`. Markets open again and locks are not always contended:
strong fairness of starting a run that gets the lock at once and of a poll that finds the market open. Nothing is
assumed of what a poll sees; the data may stay stale for ever. In `ManualDecision` time passes, the host is started
again and again, and a tap or command goes on once begun; the host's steps are strongly fair, because the decision
lock may be taken by others again and again but each gives it back. Nothing is assumed of the owner.

### 3.1 Disagreements between text and code

Two runs are expected to end in a violation; each states what a comment or document of the repository says,
and TLC shows how the code departs from it (`findings` quotes the lines).

| Run | Says | Does |
|---|---|---|
| `stop_before_send` | no new orders while the stop is engaged | the stop is read at the authorization only; engaged between it and the call it does not hold the order back |
| `overlap_sends_twice` | registration is idempotent; concurrent calls send once | a call that read "no record" may put READY_TO_DELIVER over another call's DELIVERED and send again |

`stop_before_send` breaks nothing that is proved below: it concerns when an order is sent, not how often, nor what is
recorded about it. `overlap_sends_twice` is what the assumption `FirstCycleAlone` of the delivery
theorems excludes.

Others met while modelling, which the models show or leave room for but no run is kept for:

* the open-position cap is checked and the order sent without excluding another ticket's send
  (`guarded_adapter.py:568`), so two tickets of one instrument may both be filled;
* a SENT row that cannot be written leaves a CHECKED trail with a claim (`guarded_adapter.py:598`), which the monitor
  reports as PENDING until a restart; `NoStrandedClaim` shows that a crash alone does not;
* a stop engaged with a clock reading from before midnight is read before the owner's clear of the new day
  (`emergency.py:47`) and is then not in force;
* the confirmation gate consumes the confirmation before the risk, cost, freshness and geometry gates
  (`src/demo_execution/admission.py:325`), though `guarded_adapter.py:321` says that a call that will be refused
  must not spend it;
* the monitor reads the trails before the positions (`position_monitor.py:150`, `:163`), so a ticket dispatched in
  between is reported as an orphan and engages the stop;
* the error code written on a rate limit (`telegram_delivery/adapter.py:770`) opens a transaction that stays open
  over the sleep and the next request, though `:624-625` says that other tickets are not blocked;
* a NOT_APPLICABLE record is kept by a later READY cycle of the same ticket (`delivery_store.py:126`), which is then
  neither sent nor recorded as due;
* a death between the retryable failure's record and the removal of the lock file (`delivery_store.py:225`) locks
  every retry out;
* a watch run that dies between archive and save, with the next run on another day, archives the transition a second
  time under the new date, against the "Exactly-once" of `large_smc_watch/watch.py:365`; one that dies after the save
  and before the claim never sends the alert;
* an outcome whose mirror into the ticket store fails, or whose run dies between the two appends
  (`v1_tickets/outcome.py:130-137`), stays out of the store for good, because the journal's line is what is looked at;
* a torn line of `owner_decisions.jsonl` makes every reader of it raise;
* a run that dies inside `ensure_scheduler_start` leaves an empty file, and every later run is blocked from every
  summary; a session whose first run falls exactly on its end plus grace is never summarised; a run that meets the
  key lock of a run about to die records a duplicate of a summary nobody sent. `SummaryIsSettled` counts these as
  settled or as not come to the summary, and says so;
* a poller between its get and its put overwrites what another put in between: a transition may be lost from the
  history and an ended candidate become active again, though `candidate_store.py:93` says "Atomically persist" and the
  history is called append-only. `EndedIsFinal` names that window and shows there is no other;
* `ProposalLedger.record_proposal` gets an entry and puts one made from it in a second locked step
  (`proposal_envelope/ledger.py:79-94`): of two calls that found no entry the later one replaces version 1 in place, and of
  two corrections one is lost, though `:17-25` calls the call safe across "scheduler overlap" and says that "original
  geometry is never overwritten in place". Nothing but tests calls it yet; it is not modelled;
* an accepted message without a `message_id` would be recorded as DELIVERY_FAILED
  (`telegram_delivery/adapter.py:518-519`), which the models assume away (2.2).

## 4. What is proved

`DemoExecution_proofs` holds, for every set of tickets and attempts, any number of confirmations and crashes,
any windows, and with appends that may fail:

| Theorem | Statement |
|---|---|
| `TypeCorrect` | `Spec => []TypeOK` |
| `Invariance` | `Spec => []IInv` |
| `SingleSend` | `Spec => []AtMostOneSend` |
| `BackedSend` | `Spec => []SendIsBacked` |
| `TrueResult` | `Spec => []ResultIsTrue` |
| `ConsistentClaim` | `Spec => []ClaimIsConsistent` |
| `OrderedTrail` | `Spec => []TrailIsOrdered` |
| `ClaimNotStranded` | `Spec => []NoStrandedClaim` |

The assumptions are `StoreAssumption` and `CrashAssumption`: the constants are numbers and Booleans, and
`NoAttempt` is not an attempt.

*The argument.* `AtMostOneSend` is not inductive: nothing in it says why a second attempt cannot reach the
call. `IInv` says it in five parts.
`AttemptInv`: an attempt past its AUTHORIZED row owns the ticket (that row is only admitted on an empty trail,
so no second attempt gets there), past the claim the claim is durable, past the SENT row that row is, and
from the claim on its own confirmation is consumed.
`SendInv`: a ticket that was sent has all of these and its owning attempt is past the call; one that was not has
no order at the broker.
`TrailInv`: a trail that is not past CHECKED, or was halted before SENT, has no SENT row; so "not sent" can be
concluded from `halted_from`.
`HistoryInv`: what the monitor read in the broker's history does not become false, because an order only moves
from waiting to filled or rejected and from filled to closed, and is created once.
`ClaimIsConsistent` needs no help.
`TimeInv` strengthens `TrailIsOrdered`: the current state has a row and no row is ranked or timed after it;
`Rank` numbers the states so that every step of the table goes up.
`StrandInv` is behind `NoStrandedClaim`. A claim over a CHECKED trail is left by a dead attempt, and recovery must still
have the ticket on its list (`StrandedInv`); while the process is down nothing else runs (`DownInv`). An attempt that
claimed must also get its SENT row admitted, which is a question of time: its reading of the clock is from after the
CHECKED row (`ReadInv`) and no row is of the future (`PastInv`), so neither it nor recovery is refused as too old.

`TelegramSender_proofs`, for any number of processes, messages, requests per call and crashes, from
`SenderAssumption` (`NoCall` and `Lister` are not calls, at least one request per call):

| Theorem | Statement |
|---|---|
| `SenderInvariance` | `Spec => []SenderInv` |
| `SentAtMostOnce` | `Spec => []NoUnaskedResend` |
| `JournalTruth` | `Spec => []JournalIsTrue` |
| `DeliveredStays` | `Spec => DeliveredIsFinal` |
| `ReportInvariance` | `Spec => []ReportInv` |
| `OneReport` | `Spec => OneReportPerSignal` |
| `SenderImplementsCourier` | `Spec => ImplementsCourier`, the refinement of `Courier` by the reports |

`NoUnaskedResend` counts messages but not the right to send one. `SenderInv` adds it: a call in the network part
holds its key (`HoldsKey`) and a pending row (`HoldsClaim`), so no other call and no listing touches that row; and
while a call is still asking, its own message is not yet in the count (`ShownIsPaidFor`): each claim pays for one
message, the first claim for the one that is free, every later claim is forced.
`OneReportPerSignal` needs to know that a class whose row says `DELIVERY_FAILED` is not in the chat, which is false for
tickets: an owner may reopen a delivered ticket and the second request may fail. `ReportInv` says why it is true for
reports: nobody forces a report (`ForcedIsTicket`, `ReportIsUnforced`), so its one claim pays for its one message, and a
call that records a definite failure has shown nothing (`RefusedIsUnsent`, `FailedIsUnsent`).

`TicketDelivery_proofs`, for any number of calls and deaths, from `DeliveryAssumption` and `FirstCycleAlone`:

| Theorem | Statement |
|---|---|
| `DeliveryInvariance` | `FirstCycleAlone => (Spec => []DeliveryInv)` |
| `SentAtMostOnce` | the same for `AtMostOneMessage` |
| `RecordTruth` | the same for `RecordIsTrue` |
| `OwnClaim` | the same for `ClaimIsOwn` |
| `SettledForGood` | the same for `SettledStays` |
| `DeliveryImplementsCourier` | the same for `ImplementsCourier` |

At most one call is inside the lock, and not while the owner is (`LockIsHeld`); an ambiguous record keeps its lock
file, so nobody is inside (`AmbiguousIsLocked`); what the call inside read under the lock is still current when it
writes (`InsideIsCurrent`, `ClaimIsOwn`); and a record that may be claimed has no message (`RecordIsTrue`).
`FirstIsAlone` is the part that needs the assumption: the put that creates a record finds none. A call that dies
leaves its lock file, which is why deaths cost deliveries and not duplicates.

`DayFiles_proofs`, for any tickets, callers, clock, day length and number of latch rows, from `DayAssumption` (a day has
at least one tick), `LifecycleAssumption` (`Free` is not a caller) and `LatchAssumption`:

| Theorem | Statement |
|---|---|
| `TrailInvariance` | `Spec => [](TypeOK /\ TrailInv)` |
| `ReaderAccepts` | `Spec => []ReaderAcceptsWriter` |
| `TrailExtends` | `Spec => TrailOnlyExtends` |
| `TornStaysClosed` | `Spec => TornFailsClosed` |
| `TrailImplementsChain` | `Spec => ImplementsChain`, the refinement of `LifecycleChain` by the files |
| `LatchInvariance` | `LatchSpec => [](LatchTypeOK /\ LatchInv)` |
| `LatchTruth` | `LatchSpec => []LatchIsLastWrite` |
| `ReleasedByOwner` | `LatchSpec => OnlyOwnerReleases` |

Both rest on what `ReadBack` does with a row appended to the file of day *d*. If the files of all later days are empty
the row is read last (`ReadBackAppend`); otherwise it is read somewhere before the rows of the later days
(`ReadBackInserted`), and the last row read does not change. `ReadBack` flattens a sequence of files, so these facts are
about every number of days. The prover cannot instantiate an induction theorem that takes a predicate, so they are proved
without one: `UpTo` says that a set of numbers that contains 0 and the successor of each of its members contains all of
them, from the well-foundedness of the order (`WFMin`), and each lemma applies it to the set of days it holds up to.

`TrailInv` is what makes the order of writing and the order of reading the same. The rows read back are in time, climb
the table (`Rank`: no state comes back) and follow it (`TrailsAreGood`); a row is in the file of its own day
(`RowsAreInTheirFile`); and a caller about to write holds the lock and has a row no earlier than the last one
(`WriterIsAlone`). Then no file of a later day has a row (`NoLaterRow`), for such a row would be read back later and have
a later day than the last row: so the write goes to the end of what is read, although its timestamp may be stale and its
file yesterday's. The same step gives the refinement: the last row read moves along the table. None of it needs readable
files: a write that tears a line of its own or of another ticket's file leaves every row that is there. After a torn line
the re-read of the whole store under the lock lets no append through to its write, so a ticket with no append past that
point is closed for good (`Closed`, `TornFailsClosed`); one past it may still add its row to an intact file.

`LatchInv` says that no file is ahead of the clock, so a row of today is read last. A row the monitor writes after
midnight into yesterday's file may be read before others, which is why `LatchIsLastWrite` excludes it; it is an ENGAGED
row, and `OnlyOwnerReleases` holds with it.

`LargeSmcWatch_proofs`, for any references, setups, days, lock waits and faults, from `WatchAssumption`:

| Theorem | Statement |
|---|---|
| `WatchInvariance` | `Spec => []WatchInv` |
| `AlertOnce` | `Spec => []AlertAtMostOnce` |
| `LedgerTruth` | `Spec => []LedgerIsTrue` |
| `SavedIsArchived` | `Spec => []SaveIsArchived` |
| `MessageBacked` | `Spec => MessageIsArchived` |
| `WatchImplementsCourier` | `Spec => ImplementsCourier` |

`WatchInv` adds where a run is with its batch (`BatchIsCurrent`): numbered on from the saved record until the save,
archived up to the place it is at, archived and counted after it; and that the alert being sent has a pending claim
and was not shown (`ClaimIsPending`). Since a pending claim is only ever turned to uncertain, never sent, the count
stays at one.

`ManualDecision_proofs`, for any tickets, taps, commands, clock and crashes, from `DecisionAssumption`:

| Theorem | Statement |
|---|---|
| `DecisionInvariance` | `Spec => []DecisionInv` |
| `DecidedOnce` | `Spec => []OneDecision` |
| `ReplyTruth` | `Spec => []ReplyIsTrue` |
| `OutcomeTruth` | `Spec => []OutcomeCarriesDecision` |

Whoever checks or appends holds the lock (`LockIsHeld`), so an append finds the file as it was checked
(`AppendIsFirst`). That an outcome carries the decision needs the order of the host's jobs: every ticket due is
decided or still in the expiry loop (`ExpiryIsUnderWay`), so none is undecided when the resolver reads; what it read
stays so because a decision is never replaced (`ResolverIsCurrent`); and no ticket becomes ready after its day
(`OutcomeIsLate`, `HostIsLate`).

`SessionSummary_proofs`, for any number of runs, overlaps and faults and any end of the window, from
`SummaryAssumption`:

| Theorem | Statement |
|---|---|
| `SummaryInvariance` | `Spec => []SummaryInv` |
| `SentAtMostOnce` | `Spec => []MessageAtMostOnce` |
| `EventTruth` | `Spec => []EventsAreTrue` |
| `DigestTruth` | `Spec => DigestIsTrue` |
| `SummarySettled` | `Spec => SummaryIsSettled` |
| `SummaryImplementsCourier` | `Spec => ImplementsCourier` |

A run in the network part holds the key and a pending row (`HoldsKey`, `HoldsClaim`), so nobody else touches either;
rows and outcomes tell the truth about the chat (`RowIsTrue`, `OutcomeIsTrue`), with an intent and a stored evaluation
behind every send (`SendIsBacked`). The digest's truth rests on `EvaluationIsRecorded` and `BucketIsTrue`. That a
summary is settled needs a latest result to exist: `HasLatest`, from the well-foundedness of the order on the numbers.

`OpportunityFunnel_proofs`, for any pollers, modes, projections and revisions, from `FunnelAssumption`:

| Theorem | Statement |
|---|---|
| `FunnelInvariance` | `Spec => []FunnelInv` |
| `LinkedHistory` | `Spec => []HistoryIsLinked` |
| `EndStands` | `Spec => EndedIsFinal` |

The history stays a chain although puts overwrite each other, because each put writes a whole record that is one: the
history read under the checks with the transition that continues it (`PersistIsNext`, `PutIsLinked`).

*One courier.* Sender, delivery store, alert ledger and host cycle are four pieces of code with four journals, and they
promise the owner the same thing. `Courier` states it: a message is open, claimed, delivered, dropped or doubtful; only a
claimed message that was not shown may be shown; only a shown one is delivered, only one that was not is dropped or opened
again; a claim nobody can say the fate of is doubted, and then not tried again. Each module maps its states to these
(`RecordOf`) and its count of messages in the chat, and each theorem shows step by step that an action is a step of
the courier or none: the actions on claims and rows become `Take`, `Deliver`, `Drop`, `Retry` and `Doubt`, the request
to Telegram becomes `Show`, and locks, re-reads, deaths and failed writes become nothing. The sender's tickets are left
out, since the owner may ask for one again; what bounds them is `NoUnaskedResend`. The run `sender` checks
`ImplementsCourier` on its instance; the runs of the other three check the invariants that follow from it, and the
refinement is theirs by proof.

*Only model-checked:* the six liveness properties `HaltIsSettled`, `SendIsSettled`, `PendingIsResolved`,
`LockIsReleased`, `SuspensionEnds` and `ReadyIsDecided`: fairness and `ENABLED` are outside the prover's reach. Every
invariant, action property and refinement that a passing run checks is also a theorem.

## 5. Not modelled

Arithmetic on prices and volumes, digests, signatures, formatting, logging, alerts and event sinks; the
server-day window of the history queries; the risk caps other than the open-position cap; configuration
files. Of delivery: rendering, the scope policy, the compatibility diagnostics, the archive and the catch-up policy (a
refusal each), and the attempt journal, which is only written. Of the watch: the date in an archive file's name and
the state a transition came from, and the ledger's `list_uncertain`, which has no caller. Of the manual tickets:
signatures and chat allow-lists (a refusal before anything is read), the daily report, and the freshness of
data as part of a version's hash. Of the host cycle: the compact cycle status and the compatibility diagnostics; a
delivery exception counts as a failure, as it does in the digest. Of the funnel: adapters, bindings and geometry; the
crypto scanner evaluates and persists, and is the only caller of either. Nothing but tests calls the eligibility rule,
the bridge to a canonical proposal or the proposal ledger, so they are left out.

Most of the repository's lines are out of reach for another reason: research, audit and replay scripts and
detection on price series, which compute numbers from a dataset in one pass. They have no steps that interleave and
no state that outlives a call, so a state machine has nothing to say about them, and their arithmetic is on
real numbers. Components that only fetch, compute or render are listed in `PROJECT.json` with status `not_modelled`
and the reason.

## 6. Plan

Sections 2 to 4 are done. What is left, in the order of what it would add:

1. The composed execution over the files: that `ExecutionStore`'s one state per ticket and one bit for the stop are what
   the day files say is shown by `ImplementsChain` and `LatchIsLastWrite` for each alone, not for the composition.
2. Two tickets in one execution: the open-position cap and the daily caps of `risk.py` over restarts.
3. The rest of delivery (`src/ticket_delivery/policy.py`): catch-up windows; that the sends of `SessionSummary` are those
   of `TelegramSender` with one request per call and nobody forcing.
4. Ticket store V2 and the file level of runtime state: index equals rebuild, atomic replace.
5. Governors and guards (`src/post_asian_pilot`, `src/sizing_math`): daily counters over restarts; pure operators against
   reference definitions.
6. Liquidity status, entry sequences, streaming engines (`src/liquidity`, `src/entry_confirmation`,
   `src/mtf_control_shift`): automata over abstract bars; streaming equals batch.
7. Research workflow (`src/edge_discovery`, `src/validation_framework`): promotion never skips a gate.
