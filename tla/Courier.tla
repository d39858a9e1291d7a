------------------------------ MODULE Courier ------------------------------
(***************************************************************************)
(* What every path to the owner's chat promises: a message is claimed in a *)
(* durable record before it is shown, a claim shows it at most once, and   *)
(* the record settles on what is true of the chat; when nobody knows, it   *)
(* says so and the message is not tried again.  Nothing about processes,   *)
(* locks, requests, crashes or failed writes.                              *)
(***************************************************************************)
EXTENDS Naturals

CONSTANT Messages

VARIABLES
    record,     \* record[m]: "open", "claimed", "delivered", "dropped" or "doubtful"
    shown       \* shown[m]: how many times m appeared in the chat

CourierInit ==
    /\ record = [m \in Messages |-> "open"]
    /\ shown = [m \in Messages |-> 0]

Settled(m, s) == record' = [record EXCEPT ![m] = s] /\ UNCHANGED shown

Take(m) == record[m] = "open" /\ Settled(m, "claimed")

Show(m) ==
    /\ record[m] = "claimed" /\ shown[m] = 0
    /\ shown' = [shown EXCEPT ![m] = 1]
    /\ UNCHANGED record

\* The message is known to be in the chat.
Deliver(m) == record[m] \in {"claimed", "doubtful"} /\ shown[m] = 1 /\ Settled(m, "delivered")

\* The message is known not to be in the chat, and is given up.
Drop(m) == record[m] \in {"open", "claimed", "doubtful"} /\ shown[m] = 0 /\ Settled(m, "dropped")

\* The same, and it may be claimed again.
Retry(m) == record[m] = "claimed" /\ shown[m] = 0 /\ Settled(m, "open")

\* Claims that nobody can say the fate of.
Doubt(ms) ==
    /\ \A m \in ms : record[m] = "claimed"
    /\ record' = [m \in Messages |-> IF m \in ms THEN "doubtful" ELSE record[m]]
    /\ UNCHANGED shown

CourierNext ==
    \/ \E m \in Messages : Take(m) \/ Show(m) \/ Deliver(m) \/ Drop(m) \/ Retry(m)
    \/ \E ms \in SUBSET Messages : Doubt(ms)

CourierSpec == CourierInit /\ [][CourierNext]_<<record, shown>>

=============================================================================
