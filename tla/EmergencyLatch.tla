--------------------------- MODULE EmergencyLatch ---------------------------
(***************************************************************************)
(* The emergency stop (emergency.py) down to the day files of the store.   *)
(*                                                                         *)
(* A latch row goes to the file of the day its own recorded_at falls on,   *)
(* and is read back in the order of the files.  The monitor stamps its row *)
(* with the now its cycle started with, so the row may be written after    *)
(* midnight into the file of the day before.  DemoExecution keeps the      *)
(* latch as one bit; this module says when that is what the files say.     *)
(***************************************************************************)
EXTENDS DayFiles

CONSTANT MaxRows    \* bound on the latch rows written

ASSUME LatchAssumption == MaxRows \in Nat

VARIABLES
    latch,      \* latch[d]: the latch rows in the file of day d, in file order
    cycle,      \* where the monitor's cycle is: "idle", "running" or "engage"
    started,    \* the now_utc of the cycle
    last,       \* the last row written (history)
    crossed     \* whether a row was ever written on a later day than its own (history)

latchVars == <<clock, torn, latch, cycle, started, last, crossed>>

LatchRows == {"ENGAGED", "CLEARED"}

\* The rows store.outcomes returns for the latch.
RowsRead == ReadBack(latch)

\* Mutant: an unreadable latch is taken for one that was never engaged.
EngagedIfReadable == Readable /\ RowsRead # <<>> /\ Last(RowsRead) # "CLEARED"

\* Mutant: the first row read decides.
EngagedByFirst == ~Readable \/ (RowsRead # <<>> /\ Head(RowsRead) # "CLEARED")

\* status: the last row read decides, no row is not engaged, an unreadable latch is engaged.
Engaged == ~Readable \/ (RowsRead # <<>> /\ Last(RowsRead) # "CLEARED")

LatchTypeOK ==
    /\ clock \in Time
    /\ torn \subseteq Days
    /\ latch \in [Days -> Seq(LatchRows)] /\ Len(RowsRead) <= MaxRows
    /\ cycle \in {"idle", "running", "engage"}
    /\ started \in Time
    /\ last \in LatchRows \cup {"NONE"}
    /\ crossed \in BOOLEAN

LatchInit ==
    /\ clock = 0
    /\ torn = {}
    /\ latch = [d \in Days |-> <<>>]
    /\ cycle = "idle"
    /\ started = 0
    /\ last = "NONE"
    /\ crossed = FALSE

LatchTick == TimePasses /\ UNCHANGED <<latch, cycle, started, last, crossed>>

-----------------------------------------------------------------------------
\* _write at time n: the store reads the day's file for a duplicate before it appends, so a torn
\* file refuses the row.
Written(result, n) ==
    /\ Len(RowsRead) < MaxRows
    /\ Day(n) \notin torn
    /\ latch' = [latch EXCEPT ![Day(n)] = Append(@, result)]
    /\ last' = result
    /\ crossed' = (crossed \/ Day(n) # Day(clock))
    /\ UNCHANGED torn

\* Any write may raise and _write return False: with nothing written, or with a part of the line; one
\* whose fsync alone failed has written its row.
NotWritten(n) ==
    /\ torn' \in {torn, torn \cup {Day(n)}}
    /\ UNCHANGED <<latch, last, crossed>>

\* clear: the owner's decision, at its own now; the latch need not be engaged.
OwnerClear ==
    /\ Written("CLEARED", clock) \/ NotWritten(clock)
    /\ UNCHANGED <<clock, cycle, started>>

CycleStart ==
    /\ cycle = "idle"
    /\ cycle' = "running"
    /\ started' = clock
    /\ UNCHANGED <<clock, latch, torn, last, crossed>>

\* The end of run_cycle: the latch is read, and engaged if there are problems and it is not.
CycleCheck ==
    /\ cycle = "running"
    /\ \/ ~Engaged /\ cycle' = "engage" /\ UNCHANGED started
       \/ cycle' = "idle" /\ started' = 0
    /\ UNCHANGED <<clock, latch, torn, last, crossed>>

CycleEngage ==
    /\ cycle = "engage"
    /\ Written("ENGAGED", started) \/ NotWritten(started)
    /\ cycle' = "idle" /\ started' = 0
    /\ UNCHANGED clock

\* The process dies; the write that was under way, of the latch or of any other row of the day, may
\* leave a torn line.
LatchCrash ==
    /\ \/ \E d \in {Day(clock)} \cup (IF cycle = "engage" THEN {Day(started)} ELSE {}) :
            torn' = torn \cup {d}
       \/ UNCHANGED torn
    /\ cycle' = "idle" /\ started' = 0
    /\ UNCHANGED <<clock, latch, last, crossed>>

LatchNext == LatchTick \/ OwnerClear \/ CycleStart \/ CycleCheck \/ CycleEngage \/ LatchCrash

LatchSpec == LatchInit /\ [][LatchNext]_latchVars

-----------------------------------------------------------------------------
\* As long as no row was written into the file of an earlier day, the files say what the last write
\* said, and a torn file says engaged: the one bit DemoExecution keeps.
LatchIsLastWrite == ~crossed => (Engaged <=> ~Readable \/ last = "ENGAGED")

\* Nothing but an owner's CLEARED row releases the stop: not time, a crash, a torn file, or a late
\* row of the monitor.
OnlyOwnerReleases ==
    [][Engaged /\ ~Engaged' => last' = "CLEARED" /\ latch' # latch]_latchVars

LaterFilesAreEmpty == \A d \in Days : d > Day(clock) => latch[d] = <<>>
StartedBefore == started <= clock
LastWasRead == ~crossed => last = IF RowsRead = <<>> THEN "NONE" ELSE Last(RowsRead)

\* The inductive invariant of the stop: no file is ahead of the clock, so a row of today is read last.
LatchInv == LaterFilesAreEmpty /\ StartedBefore /\ LastWasRead
=============================================================================
