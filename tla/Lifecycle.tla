----------------------------- MODULE Lifecycle -----------------------------
(***************************************************************************)
(* The durable lifecycle trail: ExecutionLifecycle.append and .trail over  *)
(* TicketStore's per-day outcome files (DayFiles).                         *)
(*                                                                         *)
(* A caller captures its `now' first and appends later, so rows reach the  *)
(* store with stale timestamps.  A row is written to the file of the day   *)
(* of its own timestamp, and a trail is read back file by file in day      *)
(* order, so the order of writing and the order of reading are different   *)
(* orders that append has to keep equal.  append re-reads and writes under *)
(* a per-ticket lock of the process; a write may raise, with nothing, a    *)
(* part of the line or all of it in the file, and a process may die while  *)
(* writing; a torn last line makes every later read of the store raise.    *)
(***************************************************************************)
EXTENDS DayFiles, LifecycleStates

CONSTANTS
    Tickets,    \* ticket ids
    Callers     \* threads of the one process that may write

Free == "free"

ASSUME LifecycleAssumption == Free \notin Callers

VARIABLES
    files,      \* files[t][d]: t's lifecycle rows in the outcome file of day d, in file order
    lock,       \* lock[t]: the caller inside append's critical section for t, or "free"
    call        \* call[c]: the append in progress in caller c

vars == <<clock, files, torn, lock, call>>

BrokerIds == {"order", "position", "deal"}
IdInputs == {{}, BrokerIds}                 \* the identifiers a caller may pass
Row == [state : RowStates, at : Time]
Idle == [pc |-> "idle"]
Calls == {Idle} \cup [pc : {"enter", "write"}, ticket : Tickets, row : Row, ids : IdInputs]

-----------------------------------------------------------------------------
(* Reading a trail *)

\* store.outcomes(ticket_id)
StoreRows(t) == ReadBack(files[t])

\* Mutant: the reader skips a truncated last line instead of raising.
TrailReasonSkipsTorn(rows) ==
    CASE \E i \in 2..Len(rows) : rows[i].at < rows[i - 1].at -> "LIFECYCLE_TIMESTAMP_OUT_OF_ORDER"
      [] OTHER -> "OK"

\* The reader's verdict on the rows: unreadable store, timestamps, duplicates, order.
TrailReason(rows) ==
    CASE ~Readable -> "LIFECYCLE_EVIDENCE_UNREADABLE"
      [] \E i \in 2..Len(rows) : rows[i].at < rows[i - 1].at -> "LIFECYCLE_TIMESTAMP_OUT_OF_ORDER"
      [] \E i, j \in 1..Len(rows) : i # j /\ rows[i].state = rows[j].state
            -> "LIFECYCLE_EVIDENCE_CONFLICT"
      [] \E i \in 1..Len(rows) :
            rows[i].state \notin ALLOWED_NEXT[IF i = 1 THEN "NONE" ELSE rows[i - 1].state]
            -> "LIFECYCLE_ORDER_INVALID"
      [] OTHER -> "OK"

\* LifecycleTrail.current
Current(rows) == IF rows = <<>> THEN "NONE" ELSE Last(rows).state

-----------------------------------------------------------------------------
(* Writing *)

\* Mutants: append without the comparison with the last timestamp; append that checks only
\* that the state was not recorded yet, not that it is the immediate next one.
AdmissibleAnyTime(rows, row, ids) ==
    TrailReason(rows) = "OK" /\ row.state \in ALLOWED_NEXT[Current(rows)]
AdmissibleAnyOrder(rows, row, ids) ==
    /\ TrailReason(rows) = "OK"
    /\ \A i \in 1..Len(rows) : rows[i].state # row.state
    /\ rows # <<>> => row.at >= Last(rows).at

\* The immediate next state, no earlier than the last row.
MayFollow(rows, row) ==
    /\ row.state \in ALLOWED_NEXT[Current(rows)]
    /\ rows # <<>> => row.at >= Last(rows).at

\* append's decision once the lock is held and the trail re-read: may `row' be written?
Admissible(rows, row, ids) ==
    /\ TrailReason(rows) = "OK"
    /\ MayFollow(rows, row)
    /\ row.state = "RECONCILED" /\ (\E i \in 1..Len(rows) : rows[i].state = "BROKER_ACK")
         => "order" \in ids

Init ==
    /\ clock = 0
    /\ files = [t \in Tickets |-> [d \in Days |-> <<>>]]
    /\ torn = {}
    /\ lock = [t \in Tickets |-> Free]
    /\ call = [c \in Callers |-> Idle]

Tick == TimePasses /\ UNCHANGED <<files, lock, call>>

\* append(t, s, now_utc) is called: the checks on the arguments alone, before the lock.
Enter(c, t, s, ids) ==
    /\ call[c] = Idle
    /\ REQUIRED_BROKER_IDS[s] \subseteq ids
    /\ call' = [call EXCEPT ![c] = [pc     |-> "enter",
                                    ticket |-> t,
                                    row    |-> [state |-> s, at |-> clock],
                                    ids    |-> ids]]
    /\ UNCHANGED <<clock, files, torn, lock>>

\* Mutant: the per-ticket lock is not taken.
LockIgnored(c, t) == TRUE

\* May c enter the critical section of ticket t?
LockFree(c, t) == lock[t] = Free

\* The lock is taken and the trail re-read; a refusal releases it at once.
Acquire(c) ==
    /\ call[c].pc = "enter"
    /\ LET t == call[c].ticket IN
         /\ LockFree(c, t)
         /\ IF Admissible(StoreRows(t), call[c].row, call[c].ids)
              THEN /\ lock' = [lock EXCEPT ![t] = c]
                   /\ call' = [call EXCEPT ![c].pc = "write"]
              ELSE /\ call' = [call EXCEPT ![c] = Idle]
                   /\ UNCHANGED lock
    /\ UNCHANGED <<clock, files, torn>>

\* store.append_outcome: the row goes to the file of its own day.  A torn file of that day makes the
\* duplicate scan raise.  A write that raises (LIFECYCLE_WRITE_FAILED) may have left nothing, a part
\* of the line, or, when only its fsync failed, the row; the process lives on.
Write(c) ==
    /\ call[c].pc = "write"
    /\ LET t == call[c].ticket
           d == Day(call[c].row.at) IN
         /\ \/ /\ d \notin torn
               /\ files' = [files EXCEPT ![t][d] = Append(@, call[c].row)]
               /\ UNCHANGED torn
            \/ UNCHANGED <<files, torn>>
            \/ torn' = torn \cup {d} /\ UNCHANGED files
         /\ lock' = [lock EXCEPT ![t] = Free]
    /\ call' = [call EXCEPT ![c] = Idle]
    /\ UNCHANGED clock

\* The process dies: its locks and calls are gone; a write under way may leave a torn line.
Crash ==
    /\ \E c \in Callers : call[c] # Idle
    /\ lock' = [t \in Tickets |-> Free]
    /\ call' = [c \in Callers |-> Idle]
    /\ \/ UNCHANGED torn
       \/ \E c \in Callers :
            /\ call[c].pc = "write"
            /\ torn' = torn \cup {Day(call[c].row.at)}
    /\ UNCHANGED <<clock, files>>

Next ==
    \/ Tick
    \/ Crash
    \/ \E c \in Callers, t \in Tickets, s \in RowStates, ids \in IdInputs : Enter(c, t, s, ids)
    \/ \E c \in Callers : Acquire(c) \/ Write(c)

Spec == Init /\ [][Next]_vars

-----------------------------------------------------------------------------
(* Properties *)

TypeOK ==
    /\ clock \in Time
    /\ files \in [Tickets -> [Days -> Seq(Row)]]
    /\ torn \subseteq Days
    /\ lock \in [Tickets -> Callers \cup {Free}]
    /\ call \in [Callers -> Calls]

\* The writer never produces a trail its own reader rejects: unless a write tore a line, every
\* ticket can still be read, hence still be halted and reconciled (append / trail).
ReaderAcceptsWriter ==
    Readable => \A t \in Tickets : TrailReason(StoreRows(t)) = "OK"

\* A trail as it is read back only ever grows at its end, by whole rows, whatever stale
\* timestamps the callers carried and whichever day files they went to.
TrailOnlyExtends ==
    [][\A t \in Tickets : IsPrefix(StoreRows(t), StoreRows(t)')]_vars

\* A line of some day file is torn and no append of t is past its re-read.
Closed(t) == ~Readable /\ \A c \in Callers : call[c].pc = "write" => call[c].ticket # t

\* Once a write tore a line of any day file no lifecycle row is ever written again, not even to the
\* intact file of another day, except by an append that had re-read the store before: append fails
\* closed at its re-read of the whole store, and a ticket that is closed so stays closed.
TornFailsClosed == [][\A t \in Tickets : Closed(t) => files'[t] = files[t] /\ Closed(t)']_vars

\* The trail implements the abstract chain.
Chain == INSTANCE LifecycleChain WITH state <- [t \in Tickets |-> Current(StoreRows(t))]
ImplementsChain == Chain!ChainSpec

\* How far a state is along the table, on every path: no state comes back.
Rank ==
    [s \in TrailStates |->
        CASE s = "NONE" -> 0 [] s = "AUTHORIZED" -> 1 [] s = "CHECKED" -> 2 [] s = "SENT" -> 3
          [] s = "BROKER_ACK" -> 4 [] s = "POSITION_TRACKED" -> 5 [] s = "CLOSED" -> 6
          [] s = "HALT" -> 7 [] s = "RECONCILED" -> 8]

InTime(rows) == \A i, j \in 1..Len(rows) : i < j => rows[i].at <= rows[j].at
Climbs(rows) == \A i, j \in 1..Len(rows) : i < j => Rank[rows[i].state] < Rank[rows[j].state]
Follows(rows) ==
    \A i \in 1..Len(rows) : rows[i].state \in ALLOWED_NEXT[IF i = 1 THEN "NONE" ELSE rows[i - 1].state]

TrailsAreGood == \A t \in Tickets : LET rows == StoreRows(t) IN InTime(rows) /\ Climbs(rows) /\ Follows(rows)
RowsAreInTheirFile ==
    \A t \in Tickets, d \in Days : \A i \in 1..Len(files[t][d]) : Day(files[t][d][i].at) = d
WriterIsAlone ==
    \A c \in Callers : call[c].pc = "write" =>
        /\ lock[call[c].ticket] = c
        /\ MayFollow(StoreRows(call[c].ticket), call[c].row)

\* The inductive invariant of the trail: what append checked still holds when it writes, and then
\* no file of a later day has a row.
TrailInv == TrailsAreGood /\ RowsAreInTheirFile /\ WriterIsAlone
=============================================================================
