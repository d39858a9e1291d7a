--------------------------- MODULE DemoExecution ---------------------------
(***************************************************************************)
(* DEMO execution as a whole: dispatch attempts, the reconciliation        *)
(* monitor, restart recovery, the owner and the broker over one durable    *)
(* store.                                                                  *)
(*                                                                         *)
(* The attempts and the monitor are threads of one process (the store is   *)
(* single-writer per root).  A crash ends all of them at any point between *)
(* two steps and keeps the store; recovery then runs to its end before     *)
(* anything else is started.                                               *)
(***************************************************************************)
EXTENDS DemoDispatch, PositionMonitor

CONSTANT MaxCrashes     \* bound on the number of crashes

ASSUME CrashAssumption == MaxCrashes \in Nat

VARIABLE crashes

vars == <<store, world, dispatch, monitor, crashes>>

TypeOK ==
    /\ StoreTypeOK
    /\ WorldTypeOK
    /\ DispatchTypeOK
    /\ MonitorTypeOK
    /\ crashes \in 0..MaxCrashes

Init ==
    /\ StoreInit
    /\ WorldInit
    /\ DispatchInit
    /\ MonitorInit
    /\ crashes = 0

\* The process dies.
Crash ==
    /\ crashes < MaxCrashes
    /\ crashes' = crashes + 1
    /\ pc' = [a \in Attempts |-> IF pc[a] = "idle" THEN "idle" ELSE "done"]
    /\ MonitorCrash
    /\ UNCHANGED <<tkt, cid, when, store, world>>

Next ==
    \/ WorldNext /\ UNCHANGED <<dispatch, monitor, crashes>>
    \/ \E a \in Attempts : up /\ Start(a) /\ UNCHANGED <<monitor, crashes>>
    \/ \E a \in Attempts : AttemptStep(a) /\ UNCHANGED <<monitor, crashes>>
    \/ \E t \in Tickets : up /\ HostStep(t) /\ UNCHANGED <<monitor, crashes>>
    \/ MonitorStep /\ UNCHANGED <<dispatch, crashes>>
    \/ RecoveryStep /\ UNCHANGED <<dispatch, crashes>>
    \/ Crash

Spec == Init /\ [][Next]_vars

\* The host keeps its threads running, calls the monitor again and again, and runs recovery to its
\* end; time passes and the broker executes what it accepted.  The terminal may be unreachable for
\* any number of cycles but not in every one from some point on.
Fairness ==
    /\ WF_vars(Tick /\ UNCHANGED <<dispatch, monitor, crashes>>)
    /\ \A t \in Tickets : WF_vars(BrokerExecute(t) /\ UNCHANGED <<dispatch, monitor, crashes>>)
    /\ \A a \in Attempts : WF_vars(AttemptStep(a) /\ UNCHANGED <<monitor, crashes>>)
    /\ WF_vars(MonitorStep /\ UNCHANGED <<dispatch, crashes>>)
    /\ SF_vars(CyclePositions /\ mon' = "history" /\ UNCHANGED <<dispatch, crashes>>)
    /\ SF_vars(CycleHistory /\ mon' = "tickets" /\ UNCHANGED <<dispatch, crashes>>)
    /\ WF_vars(RecoveryStep /\ UNCHANGED <<dispatch, crashes>>)

FairSpec == Spec /\ Fairness

-----------------------------------------------------------------------------
(* Safety *)

\* An order is submitted for a ticket at most once, over all attempts, threads and restarts.
AtMostOneSend == \A t \in Tickets : sends[t] <= 1

\* Every order the broker was ever asked for is backed by durable evidence written before it: a
\* send claim, a SENT row, and the consumed owner confirmation its attempt named.
SendIsBacked ==
    \A t \in Tickets : sends[t] > 0 =>
        /\ "SENDING" \in claim[t]
        /\ HasRow(t, "SENT")
        /\ ConfirmRequired => cid[author[t]] \in used[t]

\* A recorded terminal result is what happened at the broker: FILLED and REJECTED agree with the
\* order, and a ticket recorded NOT_SENT never reaches the broker, then or later.
ResultIsTrue ==
    \A t \in Tickets :
        /\ result[t] = "FILLED" => order[t] \in {"filled", "closed"}
        /\ result[t] = "REJECTED" => order[t] = "rejected"
        /\ result[t] = "NOT_SENT" => sends[t] = 0

\* The claim ledger never holds both an unknown marker and a settlement, nor either without the
\* claim itself, whichever of halt, reconcile, monitor and recovery wrote last.
ClaimIsConsistent ==
    \A t \in Tickets : claim[t] \in {{}, {"SENDING"}, {"SENDING", "UNCERTAIN"}, {"SENDING", "RECONCILED"}}

\* The timestamps of a trail follow its order, so it stays readable, although every writer
\* appends with a `now' it captured before.
TrailIsOrdered ==
    \A t \in Tickets : \A r, s \in RowStates :
        HasRow(t, r) /\ HasRow(t, s) /\ s \in ALLOWED_NEXT[r] => at[t][r] <= at[t][s]

\* As long as writes do not fail, a crash between the claim and the SENT row strands nothing: while
\* the process is up, a claim whose trail still says CHECKED belongs to an attempt about to write
\* SENT; one left by a dead attempt was halted by recovery before anything was started again.
NoStrandedClaim ==
    \A t \in Tickets : ~WritesMayFail /\ up /\ lc[t] = "CHECKED" /\ "SENDING" \in claim[t] =>
        \E a \in Attempts : pc[a] = "append_sent" /\ tkt[a] = t

-----------------------------------------------------------------------------
(* The inductive invariant behind the safety properties. *)

\* An attempt that recorded AUTHORIZED owns its ticket's trail: no other attempt's row is on it.
Owning == PCs \ {"idle", "check_identity", "check_pretrade", "gates", "gates_refused",
                 "append_authorized", "done"}

\* Owning, and mt5.order_send not yet called.
Unsent == {"broker_check", "order_checked", "append_checked", "send_identity", "send_pretrade",
           "reserve", "append_sent", "adapter", "order_send"}

\* The send claim is durable; the SENT row is durable too.
AfterClaim == {"append_sent", "adapter", "order_send", "ack", "ack_bad", "append_ack",
               "halt_in_ack", "mark_in_ack", "halt", "mark"}
AfterSentRow == AfterClaim \ {"append_sent"}

\* What an attempt's position tells about its ticket.
Backed(a) ==
    /\ pc[a] \in Owning => author[tkt[a]] = a /\ lc[tkt[a]] # "NONE"
    /\ pc[a] \in AfterClaim => "SENDING" \in claim[tkt[a]]
    /\ pc[a] \in AfterSentRow => HasRow(tkt[a], "SENT")
    /\ pc[a] \in AfterClaim \cup {"reserve"} /\ ConfirmRequired => cid[a] \in used[tkt[a]]

AttemptInv == \A a \in Attempts : Backed(a)

\* What a call of mt5.order_send tells about its ticket.
SendInv ==
    \A t \in Tickets :
        /\ sends[t] \in {0, 1}
        /\ sends[t] = 0 => order[t] = "none"
        /\ sends[t] = 1 =>
             /\ "SENDING" \in claim[t]
             /\ HasRow(t, "SENT")
             /\ author[t] \in Attempts
             /\ pc[author[t]] \notin Unsent
             /\ ConfirmRequired => cid[author[t]] \in used[t]

\* A trail's rows come from an attempt on that ticket, it has a SENT row only past CHECKED, and a
\* HALT row tells the truth about it.
TrailInv ==
    \A t \in Tickets :
        /\ author[t] # NoAttempt => tkt[author[t]] = t
        /\ lc[t] \in {"NONE", "AUTHORIZED", "CHECKED"} => ~HasRow(t, "SENT")
        /\ haltedFrom[t] \in {"AUTHORIZED", "CHECKED"} =>
             lc[t] \in {"HALT", "RECONCILED"} /\ ~HasRow(t, "SENT")
        /\ result[t] = "NOT_SENT" => lc[t] = "RECONCILED" /\ ~HasRow(t, "SENT")

\* What the monitor read in the broker's history is still so.
HistoryInv ==
    /\ \A t \in deals : order[t] \in {"filled", "closed"}
    /\ \A t \in refusals : order[t] = "rejected"
    /\ \A t \in Tickets :
         /\ result[t] = "FILLED" => order[t] \in {"filled", "closed"}
         /\ result[t] = "REJECTED" => order[t] = "rejected"

\* The claim of a send, its rows and its attempt move together through every thread of the system
\* and every crash; this is what makes the safety properties below inductive.
IInv == AttemptInv /\ SendInv /\ TrailInv /\ HistoryInv /\ ClaimIsConsistent

\* The order in which the states of a trail can follow each other.
Rank == [s \in TrailStates |->
            CASE s = "NONE" -> 0 [] s = "AUTHORIZED" -> 1 [] s = "CHECKED" -> 2 [] s = "SENT" -> 3
              [] s = "BROKER_ACK" -> 4 [] s = "POSITION_TRACKED" -> 5 [] s = "CLOSED" -> 6
              [] s = "HALT" -> 7 [] s = "RECONCILED" -> 8]

\* The current state has a row, and no row is ranked or timed after it: what makes TrailIsOrdered
\* inductive.
TimeInv ==
    \A t \in Tickets :
        /\ lc[t] # "NONE" => HasRow(t, lc[t])
        /\ \A s \in RowStates : HasRow(t, s) =>
             lc[t] # "NONE" /\ Rank[s] <= Rank[lc[t]] /\ at[t][s] <= at[t][lc[t]]

\* A claim's attempt is past the claim; rows and clock readings are not of the future; an attempt
\* about to claim or to write SENT read the clock after the CHECKED row; nothing runs while the
\* process is down; and a claim over a CHECKED trail has its attempt or is still to be recovered:
\* what makes NoStrandedClaim inductive.
BeforeClaim == {"broker_check", "order_checked", "append_checked", "send_identity", "send_pretrade",
                "reserve"}
ClaimedInv ==
    \A t \in Tickets : claim[t] # {} =>
        lc[t] # "NONE" /\ author[t] \in Attempts /\ pc[author[t]] \notin BeforeClaim
PastInv ==
    /\ \A t \in Tickets, s \in RowStates : at[t][s] <= clock
    /\ \A a \in Attempts : when[a] <= clock
    /\ mnow <= clock
ReadInv ==
    \A a \in Attempts : pc[a] \in {"send_pretrade", "reserve", "append_sent"} =>
        lc[tkt[a]] \notin {"NONE", "AUTHORIZED"} /\ at[tkt[a]]["CHECKED"] <= when[a]
DownInv == ~up => mon = "idle" /\ \A a \in Attempts : pc[a] \in {"idle", "done"}
StrandedInv ==
    \A t \in Tickets : ~WritesMayFail /\ lc[t] = "CHECKED" /\ "SENDING" \in claim[t] =>
        \/ ~up /\ t \in todo
        \/ \E a \in Attempts : pc[a] = "append_sent" /\ tkt[a] = t
StrandInv == ClaimedInv /\ PastInv /\ ReadInv /\ DownInv /\ StrandedInv

-----------------------------------------------------------------------------
(* Liveness.  The clock of a model stops at MaxTime, so a deadline counts only if it falls before. *)

\* A halted ticket does not stay halted unnoticed: it is reconciled from broker history, or the
\* emergency stop is engaged once it has been unknown for the timeout (_resolve_unknown, run_cycle).
HaltIsSettled ==
    \A t \in Tickets :
        lc[t] = "HALT" /\ at[t]["HALT"] + UnknownTimeout <= MaxTime
            ~> lc[t] = "RECONCILED" \/ stop

\* A send does not stay in flight: after its window it is acknowledged or halted, by its own
\* attempt, by the monitor, or by recovery after a crash.
SendIsSettled ==
    \A t \in Tickets :
        lc[t] = "SENT" /\ at[t]["SENT"] + Window <= MaxTime ~> lc[t] # "SENT"

-----------------------------------------------------------------------------
(* What comments and documents of the repository say, and the code does not keep. *)

\* emergency.py: "no new orders while engaged".
NoSendWhileStopped ==
    [][\A t \in Tickets : sends'[t] > sends[t] => ~stop]_vars
=============================================================================
