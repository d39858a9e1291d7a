------------------------------ MODULE DayFiles ------------------------------
(***************************************************************************)
(* TicketStore's outcome files, as the lifecycle trail and the emergency   *)
(* stop share them: one file per UTC day, a row in the file of the day of  *)
(* its own timestamp, read back file by file in the order of the days.  A  *)
(* torn last line of any file makes every read of the store raise.         *)
(***************************************************************************)
EXTENDS Integers, Sequences, SequencesExt

CONSTANTS
    MaxTime,    \* bound on the clock
    DayLen      \* ticks per UTC day file

ASSUME DayAssumption == MaxTime \in Nat /\ DayLen \in Nat \ {0}

VARIABLES
    clock,      \* the wall clock
    torn        \* the days whose file has a truncated last line

Time == 0..MaxTime
Day(n) == n \div DayLen
Days == 0..Day(MaxTime)

\* store.outcomes, of the rows fs[d] that each day's file holds: sorted files, each in file order.
ReadBack(fs) == FlattenSeq([i \in 1..(Day(MaxTime) + 1) |-> fs[i - 1]])

\* read_jsonl raises on a truncated line, of whichever write and whether its process died or lives.
Readable == torn = {}

TimePasses ==
    /\ clock < MaxTime
    /\ clock' = clock + 1
    /\ UNCHANGED torn
=============================================================================
