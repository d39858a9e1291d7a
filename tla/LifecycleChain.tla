--------------------------- MODULE LifecycleChain ---------------------------
(***************************************************************************)
(* What the lifecycle component promises: every ticket holds one state,    *)
(* moves only along the table of legal successors, and never moves again   *)
(* once reconciled.  Nothing about files, locks, timestamps or failures.   *)
(***************************************************************************)
EXTENDS LifecycleStates

CONSTANT Tickets

VARIABLE state

ChainInit == state = [t \in Tickets |-> "NONE"]

\* One recorded transition of one ticket.
Advance(t, s) ==
    /\ s \in ALLOWED_NEXT[state[t]]
    /\ state' = [state EXCEPT ![t] = s]

ChainNext == \E t \in Tickets, s \in RowStates : Advance(t, s)

ChainSpec == ChainInit /\ [][ChainNext]_state
=============================================================================
