--------------------------- MODULE TelegramSender ---------------------------
(***************************************************************************)
(* Sender of telegram_delivery/adapter.py: delivery of a message to the    *)
(* owner's chat at most once, with a durable claim before the network.     *)
(*                                                                         *)
(* Each call is a process of its own (scheduled runs and the owner's       *)
(* resend command share the journal file).  A message is identified by its *)
(* key; the key's lock is held from the claim to the end of the call, the  *)
(* journal's write lock only inside a transaction, and the operating       *)
(* system drops both when the process dies.                                *)
(***************************************************************************)
EXTENDS Integers, FiniteSets

CONSTANTS
    Calls,          \* calls of send_ticket, send_report and resend_ticket
    Signals,        \* ticket ids and signal ids
    Statuses,       \* the statuses in use: report classes, and "TICKET" for a ticket's decision
    NoCall,         \* nobody
    Lister,         \* the process that runs list_uncertain
    MaxAttempts,    \* Sender.attempts
    MaxCrashes      \* bound on the calls that die

ReportClasses == {"BLOCKED", "CANDIDATE", "WATCH"}

ASSUME SenderAssumption ==
    /\ NoCall \notin Calls /\ Lister \notin Calls /\ NoCall # Lister
    /\ Statuses \subseteq ReportClasses \cup {"TICKET"}
    /\ MaxAttempts \in Nat \ {0} /\ MaxCrashes \in Nat

Keys == Signals \X Statuses

VARIABLES
    row,        \* row[k]: the state of k's row in the journal, "absent" without one
    keyLock,    \* keyLock[k]: who holds the lock of k
    journal,    \* who has a write transaction open on the journal
    pc,         \* pc[c]: where call c is
    key,        \* key[c]: the message it is about
    mode,       \* mode[c]: "send", or the owner's "force" or "allow_duplicate"
    tries,      \* tries[c]: how many requests of it were refused for rate
    listed,     \* the keys list_uncertain has still to look at
    crashes,    \* how many calls died
    chat,       \* chat[k]: how many times the message appeared in the chat
    forced      \* forced[k]: how many times the owner forced it (history)

vars == <<row, keyLock, journal, pc, key, mode, tries, listed, crashes, chat, forced>>

RowValues == {"absent", "pending", "DELIVERED", "DELIVERY_UNCERTAIN", "DELIVERY_FAILED"}
PCs == {"idle", "precheck", "lock", "claim", "transport", "backoff",
        "delivered", "uncertain", "failed", "done"}

TypeOK ==
    /\ row \in [Keys -> RowValues]
    /\ keyLock \in [Keys -> Calls \cup {NoCall, Lister}]
    /\ journal \in Calls \cup {NoCall}
    /\ pc \in [Calls -> PCs]
    /\ key \in [Calls -> Keys]
    /\ mode \in [Calls -> {"send", "force", "allow_duplicate"}]
    /\ tries \in [Calls -> 0..(MaxAttempts - 1)]
    /\ listed \subseteq Keys
    /\ crashes \in 0..MaxCrashes
    /\ chat \in [Keys -> Nat]
    /\ forced \in [Keys -> Nat]

\* Only a ticket can be resent by the owner.
Init ==
    /\ row = [k \in Keys |-> "absent"]
    /\ keyLock = [k \in Keys |-> NoCall]
    /\ journal = NoCall
    /\ pc = [c \in Calls |-> "idle"]
    /\ key \in [Calls -> Keys]
    /\ mode \in [Calls -> {"send", "force", "allow_duplicate"}]
    /\ \A c \in Calls : mode[c] # "send" => key[c][2] = "TICKET"
    /\ tries = [c \in Calls |-> 0]
    /\ listed = {}
    /\ crashes = 0
    /\ chat = [k \in Keys |-> 0]
    /\ forced = [k \in Keys |-> 0]

Goto(c, label) == pc' = [pc EXCEPT ![c] = label]

\* The key lock and an open transaction end with the call.
Released(c) ==
    /\ keyLock' = [k \in Keys |-> IF keyLock[k] = c THEN NoCall ELSE keyLock[k]]
    /\ journal' = IF journal = c THEN NoCall ELSE journal

Finished(c) == Goto(c, "done") /\ Released(c)

\* A write waits for another process's transaction; after the connection's timeout it raises.
CanWrite(c) == journal \in {NoCall, c}

-----------------------------------------------------------------------------
(* send_ticket, send_report, resend_ticket, and the head of _send *)

\* A report about a signal is first looked up under the other classes of the signal.
Begin(c) ==
    /\ pc[c] = "idle"
    /\ Goto(c, IF key[c][2] \in ReportClasses THEN "precheck" ELSE "lock")
    /\ UNCHANGED <<row, keyLock, journal, key, mode, tries, listed, crashes, chat, forced>>

\* Scope, disabled delivery, missing credentials or length refuse before anything is touched.
Refuse(c) ==
    /\ pc[c] = "idle"
    /\ Goto(c, "done")
    /\ UNCHANGED <<row, keyLock, journal, key, mode, tries, listed, crashes, chat, forced>>

\* Mutant: only a delivered report counts as a prior one.
PriorClassesDelivered(s, class) ==
    {d \in (Statuses \cap ReportClasses) \ {class} : row[<<s, d>>] = "DELIVERED"}

\* The other classes under which signal s has a row that is sent, pending or uncertain.
PriorClasses(s, class) ==
    {d \in (Statuses \cap ReportClasses) \ {class} :
        row[<<s, d>>] \in {"DELIVERED", "pending", "DELIVERY_UNCERTAIN"}}

\* _signal_already_reported: one report per signal, but BLOCKED may be upgraded once to a CANDIDATE
\* that is still fresh.
Precheck(c) ==
    /\ pc[c] = "precheck"
    /\ LET prior == PriorClasses(key[c][1], key[c][2]) IN
         \/ prior = {} /\ Goto(c, "lock")
         \/ key[c][2] = "CANDIDATE" /\ prior = {"BLOCKED"} /\ Goto(c, "lock")
         \/ prior # {} /\ Goto(c, "done")
    /\ UNCHANGED <<row, keyLock, journal, key, mode, tries, listed, crashes, chat, forced>>

\* Mutant: a key whose lock is held is claimed all the same.
AcquireKeyAlways(c) ==
    /\ pc[c] = "lock"
    /\ keyLock' = [keyLock EXCEPT ![key[c]] = c]
    /\ Goto(c, "claim")
    /\ UNCHANGED <<row, journal, key, mode, tries, listed, crashes, chat, forced>>

\* _key_lock: a lock that is held means the delivery is in progress, a duplicate.
AcquireKey(c) ==
    /\ pc[c] = "lock"
    /\ \/ /\ keyLock[key[c]] = NoCall
          /\ keyLock' = [keyLock EXCEPT ![key[c]] = c]
          /\ Goto(c, "claim")
       \/ /\ keyLock[key[c]] # NoCall
          /\ Goto(c, "done")
          /\ UNCHANGED keyLock
    /\ UNCHANGED <<row, journal, key, mode, tries, listed, crashes, chat, forced>>

\* Mutant: a surviving pending claim is left alone.
RecoveredNever(k) == row[k]

\* The row as the claim's transaction sees it: a pending claim nobody is sending is uncertain.
Recovered(k) == IF row[k] = "pending" THEN "DELIVERY_UNCERTAIN" ELSE row[k]

\* Whether a call of mode m may claim a message whose row is r.
MayClaim(m, r) ==
    \/ r = "absent" /\ m = "send"
    \/ r \in {"DELIVERY_UNCERTAIN", "DELIVERY_FAILED"} /\ m \in {"force", "allow_duplicate"}
    \/ r = "DELIVERED" /\ m = "allow_duplicate"

\* One transaction: recover a surviving claim, then claim, or answer duplicate or refused.
Claim(c) ==
    /\ pc[c] = "claim"
    /\ LET k == key[c]
           r == Recovered(k) IN
         \/ /\ CanWrite(c)
            /\ MayClaim(mode[c], r)
            /\ row' = [row EXCEPT ![k] = "pending"]
            /\ forced' = IF mode[c] = "send" THEN forced ELSE [forced EXCEPT ![k] = @ + 1]
            /\ Goto(c, "transport")
            /\ UNCHANGED <<keyLock, journal>>
         \/ /\ CanWrite(c)
            /\ ~MayClaim(mode[c], r)
            /\ row' = [row EXCEPT ![k] = r]
            /\ Finished(c)
            /\ UNCHANGED forced
         \/ /\ ~CanWrite(c)
            /\ Finished(c)
            /\ UNCHANGED <<row, forced>>
    /\ UNCHANGED <<key, mode, tries, listed, crashes, chat>>

-----------------------------------------------------------------------------
(* The network *)

\* What Telegram may do with a request: how often it shows the message, and what the call is told.
\* A refusal is definite; a server error or no answer at all may follow acceptance.  Assumed of Telegram:
\* an acceptance carries its message_id.  bot_api would take one without it for a refusal, and the row of
\* a message in the chat would say DELIVERY_FAILED.
Answers ==
    {<<1, "delivered">>, <<0, "failed">>, <<0, "backoff">>, <<1, "uncertain">>, <<0, "uncertain">>}

\* Mutant: a server error is retried like a rate limit.
TransportRetried(c) ==
    /\ pc[c] = "transport"
    /\ \E shown \in BOOLEAN, label \in {"delivered", "failed", "backoff", "uncertain"} :
         /\ label = "delivered" => shown
         /\ label = "failed" => ~shown
         /\ chat' = IF shown THEN [chat EXCEPT ![key[c]] = @ + 1] ELSE chat
         /\ Goto(c, IF label = "backoff" /\ tries[c] + 1 = MaxAttempts THEN "failed" ELSE label)
    /\ UNCHANGED <<row, keyLock, journal, key, mode, tries, listed, crashes, forced>>

\* One request; the last rate limit of a call is a failure.
Transport(c) ==
    /\ pc[c] = "transport"
    /\ \E answer \in Answers :
         /\ chat' = [chat EXCEPT ![key[c]] = @ + answer[1]]
         /\ Goto(c, IF answer[2] = "backoff" /\ tries[c] + 1 = MaxAttempts
                      THEN "failed" ELSE answer[2])
    /\ UNCHANGED <<row, keyLock, journal, key, mode, tries, listed, crashes, forced>>

\* A rate limit: the error code is written, and the transaction it opens stays open while the
\* call sleeps and asks again.
Backoff(c) ==
    /\ pc[c] = "backoff"
    /\ \/ /\ CanWrite(c)
          /\ journal' = c
          /\ tries' = [tries EXCEPT ![c] = @ + 1]
          /\ Goto(c, "transport")
          /\ UNCHANGED keyLock
       \/ /\ ~CanWrite(c)
          /\ Finished(c)
          /\ UNCHANGED tries
    /\ UNCHANGED <<row, key, mode, listed, crashes, chat, forced>>

\* Mutant: an uncertain outcome is recorded as delivered.
OutcomeStateHopeful == [delivered |-> "DELIVERED", uncertain |-> "DELIVERED", failed |-> "DELIVERY_FAILED"]

\* The row state each outcome is recorded as.
OutcomeState == [delivered |-> "DELIVERED", uncertain |-> "DELIVERY_UNCERTAIN", failed |-> "DELIVERY_FAILED"]

\* The outcome is recorded.  A receipt that cannot be written is treated as uncertain; an uncertain
\* or failed outcome that cannot be written leaves the claim pending.
Record(c) ==
    /\ pc[c] \in {"delivered", "uncertain", "failed"}
    /\ \/ /\ CanWrite(c)
          /\ row' = [row EXCEPT ![key[c]] = OutcomeState[pc[c]]]
          /\ Finished(c)
       \/ /\ ~CanWrite(c) /\ pc[c] = "delivered"
          /\ Goto(c, "uncertain")
          /\ UNCHANGED <<row, keyLock, journal>>
       \/ /\ ~CanWrite(c) /\ pc[c] # "delivered"
          /\ Finished(c)
          /\ UNCHANGED row
    /\ UNCHANGED <<key, mode, tries, listed, crashes, chat, forced>>

\* The process of a call dies; what it had committed stays.
Crash(c) ==
    /\ crashes < MaxCrashes
    /\ pc[c] \notin {"idle", "done"}
    /\ crashes' = crashes + 1
    /\ Finished(c)
    /\ UNCHANGED <<row, key, mode, tries, listed, chat, forced>>

-----------------------------------------------------------------------------
(* list_uncertain, run for every session summary *)

ListStart ==
    /\ listed = {}
    /\ listed' = {k \in Keys : row[k] = "pending"}
    /\ UNCHANGED <<row, keyLock, journal, pc, key, mode, tries, crashes, chat, forced>>

\* A key whose lock is held has an active request, not a crash-left claim.
ListLock(k) ==
    /\ k \in listed /\ \A j \in Keys : keyLock[j] # Lister
    /\ \/ /\ keyLock[k] = NoCall
          /\ keyLock' = [keyLock EXCEPT ![k] = Lister]
          /\ UNCHANGED listed
       \/ /\ keyLock[k] # NoCall
          /\ listed' = listed \ {k}
          /\ UNCHANGED keyLock
    /\ UNCHANGED <<row, journal, pc, key, mode, tries, crashes, chat, forced>>

\* _recover_pending under the key lock; a journal that stays busy ends the listing.
ListRecover(k) ==
    /\ keyLock[k] = Lister
    /\ \/ /\ journal = NoCall
          /\ row' = [row EXCEPT ![k] = Recovered(k)]
          /\ listed' = listed \ {k}
       \/ /\ journal # NoCall
          /\ listed' = {}
          /\ UNCHANGED row
    /\ keyLock' = [keyLock EXCEPT ![k] = NoCall]
    /\ UNCHANGED <<journal, pc, key, mode, tries, crashes, chat, forced>>

ListStep == ListStart \/ \E k \in Keys : ListLock(k) \/ ListRecover(k)

CallStep(c) ==
    Precheck(c) \/ AcquireKey(c) \/ Claim(c) \/ Transport(c) \/ Backoff(c) \/ Record(c)

Next ==
    \/ \E c \in Calls : Begin(c) \/ Refuse(c) \/ CallStep(c) \/ Crash(c)
    \/ ListStep

Spec == Init /\ [][Next]_vars

\* A call goes on until it ends or its process dies, and every session asks for the uncertain
\* deliveries.
Fairness ==
    /\ \A c \in Calls : WF_vars(CallStep(c))
    /\ WF_vars(ListStep)

FairSpec == Spec /\ Fairness

-----------------------------------------------------------------------------
\* The message of a key appears in the chat once, plus at most once for each time the owner forced
\* it, over all processes, retries, ambiguous answers and crashes (_send).
NoUnaskedResend == \A k \in Keys : chat[k] <= 1 + forced[k]

\* A row says DELIVERED only of a message that is in the chat, and there is no message without a
\* row (_send: durable claim before network).
JournalIsTrue ==
    \A k \in Keys :
        /\ row[k] = "DELIVERED" => chat[k] > 0
        /\ row[k] = "absent" => chat[k] = 0

\* A delivered row is reopened only by the owner's allow-duplicate (resend_ticket).
DeliveredIsFinal ==
    [][\A k \in Keys : row[k] = "DELIVERED" /\ row'[k] # "DELIVERED" =>
          \E c \in Calls : key[c] = k /\ mode[c] = "allow_duplicate" /\ keyLock[k] = c]_vars

\* A report passes the signal check only if no other class of its signal is in the chat, except
\* BLOCKED before CANDIDATE, after crashes and uncertain outcomes too (_signal_already_reported).
OneReportPerSignal ==
    [][\A c \in Calls : pc[c] = "precheck" /\ pc'[c] = "lock" =>
          \A d \in (Statuses \cap ReportClasses) \ {key[c][2]} :
              chat[<<key[c][1], d>>] > 0 => d = "BLOCKED" /\ key[c][2] = "CANDIDATE"]_vars

\* The reports, which nobody can force, as messages of a courier.
Reports == {k \in Keys : k[2] # "TICKET"}
RecordOf == [absent |-> "open", pending |-> "claimed", DELIVERED |-> "delivered",
             DELIVERY_FAILED |-> "dropped", DELIVERY_UNCERTAIN |-> "doubtful"]
Promise == INSTANCE Courier WITH
    Messages <- Reports,
    record <- [k \in Reports |-> RecordOf[row[k]]],
    shown <- [k \in Reports |-> chat[k]]

\* The sender implements the courier for its reports: however processes race, wait, die or cannot
\* write, each step of theirs is a step of the courier or none (_send, _recover_pending).
ImplementsCourier == Promise!CourierSpec

\* A claim does not stay pending: its call records an outcome, or after a crash it is reported as
\* uncertain (list_uncertain).
PendingIsResolved == \A k \in Keys : row[k] = "pending" ~> row[k] # "pending"

Network == {"transport", "backoff", "delivered", "uncertain", "failed"}

\* The claim of a call that is still asking has not shown its message yet.
Asking(k) == \E c \in Calls : key[c] = k /\ pc[c] \in {"transport", "backoff"}

HoldsKey == \A c \in Calls : pc[c] \in Network \cup {"claim"} => keyLock[key[c]] = c
HoldsClaim == \A c \in Calls : pc[c] \in Network => row[key[c]] = "pending"
HasTriesLeft == \A c \in Calls : pc[c] = "backoff" => tries[c] + 1 < MaxAttempts
ReceiptIsTrue == \A c \in Calls : pc[c] = "delivered" => chat[key[c]] > 0
UnclaimedIsUnsent == \A k \in Keys : row[k] = "absent" => chat[k] = 0 /\ forced[k] = 0
DeliveredIsShown == \A k \in Keys : row[k] = "DELIVERED" => chat[k] > 0
ShownIsPaidFor == \A k \in Keys : chat[k] <= IF Asking(k) THEN forced[k] ELSE 1 + forced[k]

\* The inductive invariant: a call in the network part of _send holds its key and a pending claim,
\* and the messages shown are paid for by the claims made.
SenderInv ==
    /\ HoldsKey /\ HoldsClaim /\ HasTriesLeft
    /\ ReceiptIsTrue /\ UnclaimedIsUnsent /\ DeliveredIsShown /\ ShownIsPaidFor

ForcedIsTicket == \A c \in Calls : mode[c] # "send" => key[c][2] = "TICKET"
ReportIsUnforced == \A k \in Keys : k[2] # "TICKET" => forced[k] = 0
FailedIsUnsent == \A k \in Keys : k[2] # "TICKET" /\ row[k] = "DELIVERY_FAILED" => chat[k] = 0
RefusedIsUnsent == \A c \in Calls : key[c][2] # "TICKET" /\ pc[c] = "failed" => chat[key[c]] = 0

\* Inductive relative to SenderInv: a report is never forced, so one whose failure is definite is
\* not in the chat.
ReportInv == ForcedIsTicket /\ ReportIsUnforced /\ FailedIsUnsent /\ RefusedIsUnsent

=============================================================================
