-------------------------- MODULE LifecycleStates --------------------------
(***************************************************************************)
(* The vocabulary of the ticket lifecycle (src/demo_execution/lifecycle.py) *)
(* shared by the store-level model, its abstract chain and the composed    *)
(* dispatch model.                                                         *)
(***************************************************************************)

\* The ordered states of one attempt; HALT is outside the order.
LIFECYCLE_STATES ==
    {"AUTHORIZED", "CHECKED", "SENT", "BROKER_ACK", "POSITION_TRACKED", "CLOSED", "RECONCILED"}

RowStates == LIFECYCLE_STATES \cup {"HALT"}

\* "NONE" stands for Python's None: a ticket with an empty trail.
TrailStates == RowStates \cup {"NONE"}

\* The table of legal successors; an empty trail may only start with AUTHORIZED.
ALLOWED_NEXT ==
    [s \in TrailStates |->
        CASE s = "NONE"             -> {"AUTHORIZED"}
          [] s = "AUTHORIZED"       -> {"CHECKED", "HALT"}
          [] s = "CHECKED"          -> {"SENT", "HALT"}
          [] s = "SENT"             -> {"BROKER_ACK", "HALT"}
          [] s = "BROKER_ACK"       -> {"POSITION_TRACKED", "HALT"}
          [] s = "POSITION_TRACKED" -> {"CLOSED", "HALT"}
          [] s = "CLOSED"           -> {"RECONCILED", "HALT"}
          [] s = "HALT"             -> {"RECONCILED"}
          [] s = "RECONCILED"       -> {}]

\* Broker identifiers a row of a given state must carry.
REQUIRED_BROKER_IDS ==
    [s \in RowStates |-> CASE s = "BROKER_ACK"       -> {"order"}
                           [] s = "POSITION_TRACKED" -> {"position"}
                           [] s = "CLOSED"           -> {"deal"}
                           [] OTHER                  -> {}]
=============================================================================
