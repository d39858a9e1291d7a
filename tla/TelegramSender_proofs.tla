----------------------- MODULE TelegramSender_proofs -----------------------
(***************************************************************************)
(* Proofs about the Telegram sender, for any number of calls, messages,    *)
(* attempts and crashes.  The argument: the key's lock makes the claim,    *)
(* the requests and the record of one message exclusive, so a message is   *)
(* shown only by the call whose claim paid for it.                         *)
(***************************************************************************)
EXTENDS TelegramSender, TLAPS

IndInv == TypeOK /\ SenderInv

\* The answers of Telegram, spelled out for the provers.
LEMMA AnswerShape ==
    ASSUME NEW a \in Answers
    PROVE  \/ a[1] = 1 /\ a[2] \in {"delivered", "uncertain"}
           \/ a[1] = 0 /\ a[2] \in {"failed", "backoff", "uncertain"}
  BY DEF Answers

\* Initially nothing is claimed, held or shown.
LEMMA InitIndInv == Init => IndInv
  <1> SUFFICES ASSUME Init PROVE IndInv
    OBVIOUS
  <1>1. TypeOK
    BY SenderAssumption DEF Init, TypeOK, RowValues, PCs
  <1>2. SenderInv
    BY <1>1 DEF Init, SenderInv, HoldsKey, HoldsClaim, HasTriesLeft, ReceiptIsTrue,
       UnclaimedIsUnsent, DeliveredIsShown, ShownIsPaidFor, Network, TypeOK
  <1> QED BY <1>1, <1>2 DEF IndInv

\* Every step keeps the types (all of the actions of Sender).
LEMMA NextTypeOK == ASSUME IndInv, [Next]_vars PROVE TypeOK'
  <1> USE SenderAssumption DEF IndInv, TypeOK, RowValues, PCs, Goto, Finished, Released
  <1>1. ASSUME NEW c \in Calls, Begin(c) \/ Refuse(c) PROVE TypeOK'
    BY <1>1 DEF Begin, Refuse
  <1>2. ASSUME NEW c \in Calls, Precheck(c) PROVE TypeOK'
    BY <1>2 DEF Precheck
  <1>3. ASSUME NEW c \in Calls, AcquireKey(c) PROVE TypeOK'
    BY <1>3 DEF AcquireKey
  <1>4. ASSUME NEW c \in Calls, Claim(c) PROVE TypeOK'
    BY <1>4 DEF Claim, Recovered
  <1>5. ASSUME NEW c \in Calls, Transport(c) PROVE TypeOK'
    BY <1>5, AnswerShape DEF Transport
  <1>6. ASSUME NEW c \in Calls, Backoff(c) PROVE TypeOK'
    BY <1>6 DEF Backoff, SenderInv, HasTriesLeft
  <1>7. ASSUME NEW c \in Calls, Record(c) PROVE TypeOK'
    BY <1>7 DEF Record, OutcomeState
  <1>8. ASSUME NEW c \in Calls, Crash(c) PROVE TypeOK'
    BY <1>8 DEF Crash
  <1>9. ASSUME ListStart PROVE TypeOK'
    BY <1>9 DEF ListStart
  <1>10. ASSUME NEW k \in Keys, ListLock(k) PROVE TypeOK'
    BY <1>10 DEF ListLock
  <1>11. ASSUME NEW k \in Keys, ListRecover(k) PROVE TypeOK'
    BY <1>11 DEF ListRecover, Recovered
  <1>12. CASE UNCHANGED vars
    BY <1>12 DEF vars
  <1> QED
    BY <1>1, <1>2, <1>3, <1>4, <1>5, <1>6, <1>7, <1>8, <1>9, <1>10, <1>11, <1>12
       DEF Next, CallStep, ListStep

\* A call that holds a key is the only one past that key's lock.
LEMMA KeyIsExclusive ==
    ASSUME IndInv, NEW c \in Calls, NEW d \in Calls, key[c] = key[d],
           pc[c] \in Network \cup {"claim"}, pc[d] \in Network \cup {"claim"}
    PROVE  c = d
  BY DEF IndInv, SenderInv, HoldsKey

\* A call that steps outside the claim and the network part, having written at most the outcome of
\* its own claim, keeps the invariant (every return of _send, and the steps before its claim).
LEMMA CallOutside ==
    ASSUME IndInv, NEW c \in Calls,
           NEW label \in {"precheck", "lock", "done"}, Goto(c, label),
           UNCHANGED <<key, tries, chat, forced>>,
           \A k \in Keys : keyLock[k] # c => keyLock'[k] = keyLock[k],
           \/ row' = row
           \/ /\ pc[c] \in Network \cup {"claim"}
              /\ \E r \in RowValues \ {"absent"} :
                   /\ row' = [row EXCEPT ![key[c]] = r]
                   /\ r = "DELIVERED" => chat[key[c]] > 0
    PROVE  SenderInv'
  <1> USE DEF IndInv, SenderInv
  <1>1. \A d \in Calls : pc'[d] \in Network \cup {"claim"} => d # c /\ pc'[d] = pc[d]
    BY DEF Goto, TypeOK, Network, PCs
  <1>2. HoldsKey'
    BY <1>1 DEF HoldsKey, TypeOK
  <1>3. ASSUME NEW d \in Calls, pc'[d] \in Network PROVE row'[key[d]] = row[key[d]]
    <2>1. pc[d] \in Network /\ d # c
      BY <1>1, <1>3
    <2>2. pc[c] \in Network \cup {"claim"} => key[d] # key[c]
      BY <2>1, KeyIsExclusive
    <2> QED BY <2>2 DEF TypeOK
  <1>4. HoldsClaim' /\ HasTriesLeft' /\ ReceiptIsTrue'
    BY <1>1, <1>3 DEF HoldsClaim, HasTriesLeft, ReceiptIsTrue, Network
  <1>5. UnclaimedIsUnsent' /\ DeliveredIsShown'
    BY DEF UnclaimedIsUnsent, DeliveredIsShown, TypeOK
  <1>6. \A k \in Keys : Asking(k)' => Asking(k)
    BY <1>1 DEF Asking, Network
  <1>7. ShownIsPaidFor'
    BY <1>6 DEF ShownIsPaidFor, TypeOK
  <1> QED BY <1>2, <1>4, <1>5, <1>7

\* The claim of a message is free, or paid for by the owner's command (_send, lines of the claim).
LEMMA ClaimSenderInv == ASSUME IndInv, NEW c \in Calls, Claim(c) PROVE SenderInv'
  <1> USE DEF IndInv, SenderInv
  <1> DEFINE k == key[c]
             r == Recovered(k)
  <1>1. k \in Keys /\ pc[c] = "claim" /\ UNCHANGED <<key, tries, chat>>
    BY DEF Claim, TypeOK
  <1>2. CASE /\ MayClaim(mode[c], r)
             /\ row' = [row EXCEPT ![k] = "pending"]
             /\ forced' = IF mode[c] = "send" THEN forced ELSE [forced EXCEPT ![k] = @ + 1]
             /\ Goto(c, "transport")
             /\ UNCHANGED keyLock
    <2>1. \A d \in Calls : d # c => pc'[d] = pc[d]
      BY <1>2 DEF Goto, TypeOK
    <2>2. pc'[c] = "transport"
      BY <1>2 DEF Goto, TypeOK
    <2>3. \A d \in Calls : d # c /\ pc[d] \in Network => key[d] # k
      BY <1>1, KeyIsExclusive
    <2>4. HoldsKey'
      BY <1>1, <1>2, <2>1, <2>2 DEF HoldsKey, Network
    <2>5. HoldsClaim'
      BY <1>1, <1>2, <2>1, <2>2, <2>3 DEF HoldsClaim, TypeOK
    <2>6. HasTriesLeft' /\ ReceiptIsTrue'
      BY <1>1, <2>1, <2>2 DEF HasTriesLeft, ReceiptIsTrue
    <2>7. UnclaimedIsUnsent' /\ DeliveredIsShown'
      BY <1>1, <1>2 DEF UnclaimedIsUnsent, DeliveredIsShown, TypeOK
    <2>8. ~Asking(k)
      BY <1>1, <2>3 DEF Asking, Network
    <2>9. chat[k] <= 1 + forced[k]
      BY <1>1, <2>8 DEF ShownIsPaidFor
    <2>10. chat'[k] <= forced'[k]
      <3>1. CASE mode[c] = "send"
        BY <1>1, <1>2, <3>1 DEF MayClaim, Recovered, UnclaimedIsUnsent, TypeOK
      <3>2. CASE mode[c] # "send"
        BY <1>1, <1>2, <2>9, <3>2 DEF TypeOK
      <3> QED BY <3>1, <3>2
    <2>11. ASSUME NEW j \in Keys, j # k
           PROVE  chat'[j] <= IF Asking(j)' THEN forced'[j] ELSE 1 + forced'[j]
      <3>1. Asking(j)' => Asking(j)
        BY <1>1, <2>1, <2>11 DEF Asking
      <3>2. forced'[j] = forced[j]
        BY <1>1, <1>2, <2>11 DEF TypeOK
      <3> QED BY <1>1, <3>1, <3>2 DEF ShownIsPaidFor, TypeOK
    <2>12. forced'[k] \in Nat
      BY <1>1, <1>2 DEF TypeOK
    <2>13. ShownIsPaidFor'
      BY <1>1, <2>10, <2>11, <2>12 DEF ShownIsPaidFor, TypeOK
    <2> QED BY <2>4, <2>5, <2>6, <2>7, <2>13
  <1>3. CASE /\ ~MayClaim(mode[c], r)
             /\ row' = [row EXCEPT ![k] = r]
             /\ Finished(c)
             /\ UNCHANGED forced
    <2>1. \/ row' = row
          \/ \E q \in RowValues \ {"absent"} :
                 row' = [row EXCEPT ![k] = q] /\ (q = "DELIVERED" => chat[k] > 0)
      <3>1. CASE row[k] = "pending"
        <4>1. r = "DELIVERY_UNCERTAIN"
          BY <3>1 DEF Recovered
        <4>2. row' = [row EXCEPT ![k] = "DELIVERY_UNCERTAIN"]
          BY <1>3, <4>1
        <4>3. "DELIVERY_UNCERTAIN" \in RowValues \ {"absent"} /\ "DELIVERY_UNCERTAIN" # "DELIVERED"
          BY DEF RowValues
        <4> HIDE DEF k
        <4> QED BY <4>2, <4>3, Zenon
      <3>2. CASE row[k] # "pending"
        BY <1>1, <1>3, <3>2 DEF Recovered, TypeOK
      <3> QED BY <3>1, <3>2
    <2> QED BY <1>1, <1>3, <2>1, CallOutside DEF Finished, Released, TypeOK
  <1>4. CASE Finished(c) /\ UNCHANGED <<row, forced>>
    BY <1>1, <1>4, CallOutside DEF Finished, Released, TypeOK
  <1> QED BY <1>2, <1>3, <1>4 DEF Claim

\* A request shows its message only for the one call that asks, and ends its asking when it does.
LEMMA TransportSenderInv == ASSUME IndInv, NEW c \in Calls, Transport(c) PROVE SenderInv'
  <1> USE DEF IndInv, SenderInv
  <1> DEFINE k == key[c]
  <1>1. PICK a \in Answers :
           /\ chat' = [chat EXCEPT ![k] = @ + a[1]]
           /\ Goto(c, IF a[2] = "backoff" /\ tries[c] + 1 = MaxAttempts THEN "failed" ELSE a[2])
    BY DEF Transport
  <1>2. /\ pc[c] = "transport" /\ k \in Keys
        /\ UNCHANGED <<row, keyLock, key, tries, forced>>
    BY DEF Transport, TypeOK
  <1>3. \/ a[1] = 1 /\ a[2] \in {"delivered", "uncertain"}
        \/ a[1] = 0 /\ a[2] \in {"failed", "backoff", "uncertain"}
    BY AnswerShape
  <1>4. \A d \in Calls : d # c => pc'[d] = pc[d]
    BY <1>1 DEF Goto, TypeOK
  <1>5. pc'[c] = IF a[2] = "backoff" /\ tries[c] + 1 = MaxAttempts THEN "failed" ELSE a[2]
    BY <1>1 DEF Goto, TypeOK
  <1>6. pc'[c] \in Network
    BY <1>3, <1>5 DEF Network
  <1>7. HoldsKey' /\ HoldsClaim'
    BY <1>2, <1>4, <1>6 DEF HoldsKey, HoldsClaim, Network
  <1>8. HasTriesLeft'
    BY <1>2, <1>4, <1>5, SenderAssumption DEF HasTriesLeft, TypeOK
  <1>9. \A j \in Keys : chat'[j] = IF j = k THEN chat[j] + a[1] ELSE chat[j]
    BY <1>1, <1>2 DEF TypeOK
  <1>10. ReceiptIsTrue'
    <2>1. \A d \in Calls : key[d] \in Keys /\ chat[key[d]] \in Nat
      BY DEF TypeOK
    <2>2. ASSUME NEW d \in Calls, pc'[d] = "delivered", d # c PROVE chat'[key[d]] > 0
      BY <1>3, <1>4, <1>9, <2>1, <2>2 DEF ReceiptIsTrue
    <2>3. pc'[c] = "delivered" => chat'[k] > 0
      BY <1>3, <1>5, <1>9, <2>1
    <2> QED BY <1>2, <2>2, <2>3 DEF ReceiptIsTrue
  <1>11. UnclaimedIsUnsent' /\ DeliveredIsShown'
    <2>1. row[k] = "pending"
      BY <1>2 DEF HoldsClaim, Network
    <2> QED BY <1>2, <1>9, <2>1 DEF UnclaimedIsUnsent, DeliveredIsShown, TypeOK
  <1>12. chat[k] <= forced[k]
    <2>1. Asking(k)
      BY <1>2 DEF Asking
    <2> QED BY <1>2, <2>1 DEF ShownIsPaidFor
  <1>13. Asking(k)' => a[1] = 0
    <2> SUFFICES ASSUME NEW d \in Calls, key[d] = k, pc'[d] \in {"transport", "backoff"} PROVE a[1] = 0
      BY <1>2 DEF Asking
    <2>1. d = c
      BY <1>2, <1>4, KeyIsExclusive DEF Network
    <2> QED BY <1>3, <1>5, <2>1
  <1>14. \A j \in Keys : j # k => (Asking(j)' => Asking(j))
    BY <1>2, <1>4 DEF Asking
  <1>15. ShownIsPaidFor'
    BY <1>2, <1>3, <1>9, <1>12, <1>13, <1>14 DEF ShownIsPaidFor, TypeOK
  <1> QED BY <1>7, <1>8, <1>10, <1>11, <1>15

\* Sleeping after a rate limit changes only the count of requests and the journal's lock.
LEMMA BackoffSenderInv == ASSUME IndInv, NEW c \in Calls, Backoff(c) PROVE SenderInv'
  <1> USE DEF IndInv, SenderInv
  <1>1. CASE tries' = [tries EXCEPT ![c] = @ + 1] /\ Goto(c, "transport") /\ UNCHANGED keyLock
    <2>1. pc[c] = "backoff" /\ UNCHANGED <<row, key, chat, forced>>
      BY DEF Backoff
    <2>2. \A d \in Calls : IF d = c THEN pc'[d] = "transport"
                           ELSE pc'[d] = pc[d] /\ tries'[d] = tries[d]
      BY <1>1 DEF Goto, TypeOK
    <2>3. HoldsKey' /\ HoldsClaim' /\ HasTriesLeft' /\ ReceiptIsTrue'
      BY <1>1, <2>1, <2>2 DEF HoldsKey, HoldsClaim, HasTriesLeft, ReceiptIsTrue, Network
    <2>4. UnclaimedIsUnsent' /\ DeliveredIsShown'
      BY <2>1 DEF UnclaimedIsUnsent, DeliveredIsShown
    <2>5. \A k \in Keys : Asking(k)' => Asking(k)
      BY <2>1, <2>2 DEF Asking
    <2>6. ShownIsPaidFor'
      BY <2>1, <2>5 DEF ShownIsPaidFor, TypeOK
    <2> QED BY <2>3, <2>4, <2>6
  <1>2. CASE Finished(c) /\ UNCHANGED tries
    BY <1>2, CallOutside DEF Backoff, Finished, Released, TypeOK
  <1> QED BY <1>1, <1>2 DEF Backoff

\* The record of an outcome is about the call's own claim, and DELIVERED has a receipt.
LEMMA RecordSenderInv == ASSUME IndInv, NEW c \in Calls, Record(c) PROVE SenderInv'
  <1> USE DEF IndInv, SenderInv
  <1>1. /\ pc[c] \in {"delivered", "uncertain", "failed"} /\ key[c] \in Keys
        /\ UNCHANGED <<key, tries, chat, forced>>
    BY DEF Record, TypeOK
  <1>2. CASE row' = [row EXCEPT ![key[c]] = OutcomeState[pc[c]]] /\ Finished(c)
    <2>1. /\ OutcomeState[pc[c]] \in RowValues \ {"absent"}
          /\ OutcomeState[pc[c]] = "DELIVERED" => chat[key[c]] > 0
      BY <1>1 DEF OutcomeState, RowValues, ReceiptIsTrue
    <2>2. pc[c] \in Network
      BY <1>1 DEF Network
    <2> QED BY <1>1, <1>2, <2>1, <2>2, CallOutside DEF Finished, Released, TypeOK
  <1>3. CASE pc[c] = "delivered" /\ Goto(c, "uncertain") /\ UNCHANGED <<row, keyLock, journal>>
    <2>1. \A d \in Calls : IF d = c THEN pc'[d] = "uncertain" ELSE pc'[d] = pc[d]
      BY <1>3 DEF Goto, TypeOK
    <2>2. HoldsKey' /\ HoldsClaim' /\ HasTriesLeft' /\ ReceiptIsTrue'
      BY <1>1, <1>3, <2>1 DEF HoldsKey, HoldsClaim, HasTriesLeft, ReceiptIsTrue, Network
    <2>3. UnclaimedIsUnsent' /\ DeliveredIsShown'
      BY <1>1, <1>3 DEF UnclaimedIsUnsent, DeliveredIsShown
    <2>4. \A k \in Keys : Asking(k)' => Asking(k)
      BY <1>1, <2>1 DEF Asking
    <2>5. ShownIsPaidFor'
      BY <1>1, <2>4 DEF ShownIsPaidFor, TypeOK
    <2> QED BY <2>2, <2>3, <2>5
  <1>4. CASE Finished(c) /\ UNCHANGED row
    BY <1>1, <1>4, CallOutside DEF Finished, Released, TypeOK
  <1> QED BY <1>2, <1>3, <1>4 DEF Record

\* list_uncertain takes only a key nobody holds, and writes only a row nobody is sending.
LEMMA ListSenderInv == ASSUME IndInv, ListStep PROVE SenderInv'
  <1> USE DEF IndInv, SenderInv
  <1>1. UNCHANGED <<pc, key, tries, chat, forced>>
    BY DEF ListStep, ListStart, ListLock, ListRecover
  <1>2. \A c \in Calls, k \in Keys : keyLock[k] = c => keyLock'[k] = c /\ row'[k] = row[k]
    BY SenderAssumption DEF ListStep, ListStart, ListLock, ListRecover, TypeOK
  <1>3. \A k \in Keys : row'[k] = row[k] \/ (row[k] = "pending" /\ row'[k] = "DELIVERY_UNCERTAIN")
    BY DEF ListStep, ListStart, ListLock, ListRecover, Recovered, TypeOK
  <1>4. \A c \in Calls : key[c] \in Keys
    BY DEF TypeOK
  <1>5. HoldsKey' /\ HoldsClaim'
    BY <1>1, <1>2, <1>4 DEF HoldsKey, HoldsClaim
  <1>6. HasTriesLeft' /\ ReceiptIsTrue'
    BY <1>1 DEF HasTriesLeft, ReceiptIsTrue
  <1>7. UnclaimedIsUnsent' /\ DeliveredIsShown'
    BY <1>1, <1>3 DEF UnclaimedIsUnsent, DeliveredIsShown
  <1>8. ShownIsPaidFor'
    BY <1>1 DEF ShownIsPaidFor, Asking
  <1> QED BY <1>5, <1>6, <1>7, <1>8

\* Every step keeps the invariant of the sender.
LEMMA NextSenderInv == ASSUME IndInv, [Next]_vars PROVE SenderInv'
  <1>1. ASSUME NEW c \in Calls, Begin(c) \/ Refuse(c) PROVE SenderInv'
    BY <1>1, CallOutside DEF Begin, Refuse
  <1>2. ASSUME NEW c \in Calls, Precheck(c) PROVE SenderInv'
    BY <1>2, CallOutside DEF Precheck
  <1>3. ASSUME NEW c \in Calls, AcquireKey(c) PROVE SenderInv'
    <2> USE DEF IndInv, SenderInv
    <2>1. CASE keyLock[key[c]] = NoCall /\ keyLock' = [keyLock EXCEPT ![key[c]] = c] /\ Goto(c, "claim")
      <3>1. pc[c] = "lock" /\ UNCHANGED <<row, key, tries, chat, forced>> /\ key[c] \in Keys
        BY <1>3 DEF AcquireKey, TypeOK
      <3>2. \A d \in Calls : IF d = c THEN pc'[d] = "claim" ELSE pc'[d] = pc[d]
        BY <2>1 DEF Goto, TypeOK
      <3>3. HoldsKey'
        BY <2>1, <3>1, <3>2, SenderAssumption DEF HoldsKey, TypeOK
      <3>4. HoldsClaim' /\ HasTriesLeft' /\ ReceiptIsTrue'
        BY <3>1, <3>2 DEF HoldsClaim, HasTriesLeft, ReceiptIsTrue, Network
      <3>5. UnclaimedIsUnsent' /\ DeliveredIsShown'
        BY <3>1 DEF UnclaimedIsUnsent, DeliveredIsShown
      <3>6. \A k \in Keys : Asking(k)' => Asking(k)
        BY <3>1, <3>2 DEF Asking
      <3>7. ShownIsPaidFor'
        BY <3>1, <3>6 DEF ShownIsPaidFor, TypeOK
      <3> QED BY <3>3, <3>4, <3>5, <3>7
    <2>2. CASE Goto(c, "done") /\ UNCHANGED keyLock
      BY <1>3, <2>2, CallOutside DEF AcquireKey
    <2> QED BY <1>3, <2>1, <2>2 DEF AcquireKey
  <1>4. ASSUME NEW c \in Calls, Crash(c) PROVE SenderInv'
    BY <1>4, CallOutside DEF Crash, Finished, Released, IndInv, TypeOK
  <1>5. CASE UNCHANGED vars
    BY <1>5 DEF vars, IndInv, SenderInv, HoldsKey, HoldsClaim, HasTriesLeft, ReceiptIsTrue,
       UnclaimedIsUnsent, DeliveredIsShown, ShownIsPaidFor, Asking
  <1> QED
    BY <1>1, <1>2, <1>3, <1>4, <1>5, ClaimSenderInv, TransportSenderInv, BackoffSenderInv,
       RecordSenderInv, ListSenderInv
       DEF Next, CallStep

\* The types and the invariant of the sender hold in every behaviour.
THEOREM SenderInvariance == Spec => [](TypeOK /\ SenderInv)
  <1>1. IndInv /\ [Next]_vars => IndInv'
    BY NextTypeOK, NextSenderInv DEF IndInv
  <1> QED BY InitIndInv, <1>1, PTL DEF Spec, IndInv

\* The chat shows a message once, plus once for each time the owner forced it, whatever crashes,
\* retries, ambiguous answers and concurrent processes there are (Sender._send).
THEOREM SentAtMostOnce == Spec => []NoUnaskedResend
  <1>1. TypeOK /\ SenderInv => NoUnaskedResend
    BY DEF TypeOK, SenderInv, ShownIsPaidFor, NoUnaskedResend
  <1> QED BY <1>1, SenderInvariance, PTL

\* The journal never claims a delivery that did not happen nor misses one that did (Sender._send:
\* the claim is durable before the network).
THEOREM JournalTruth == Spec => []JournalIsTrue
  <1>1. TypeOK /\ SenderInv => JournalIsTrue
    BY DEF SenderInv, UnclaimedIsUnsent, DeliveredIsShown, JournalIsTrue
  <1> QED BY <1>1, SenderInvariance, PTL

\* A delivered message is reopened only under the owner's allow-duplicate (Sender.resend_ticket).
THEOREM DeliveredStays == Spec => DeliveredIsFinal
  <1>1. ASSUME IndInv, [Next]_vars, NEW k \in Keys, row[k] = "DELIVERED", row'[k] # "DELIVERED"
        PROVE  \E c \in Calls : key[c] = k /\ mode[c] = "allow_duplicate" /\ keyLock[k] = c
    <2> USE DEF IndInv, SenderInv
    <2>1. ASSUME NEW c \in Calls, Claim(c)
          PROVE  key[c] = k /\ mode[c] = "allow_duplicate" /\ keyLock[k] = c
      <3>1. key[c] = k /\ MayClaim(mode[c], Recovered(k))
        BY <1>1, <2>1 DEF Claim, Recovered, TypeOK
      <3>2. mode[c] = "allow_duplicate"
        BY <1>1, <3>1 DEF MayClaim, Recovered
      <3>3. keyLock[k] = c
        BY <1>1, <2>1, <3>1 DEF Claim, HoldsKey
      <3> QED BY <3>1, <3>2, <3>3
    <2>2. ASSUME NEW c \in Calls, Record(c) PROVE FALSE
      BY <1>1, <2>2 DEF Record, HoldsClaim, Network, TypeOK
    <2>3. ASSUME ListStep PROVE FALSE
      BY <1>1, <2>3 DEF ListStep, ListStart, ListLock, ListRecover, Recovered, TypeOK
    <2>4. ASSUME UNCHANGED row PROVE FALSE
      BY <1>1, <2>4
    <2> QED
      BY <1>1, <2>1, <2>2, <2>3, <2>4
         DEF Next, CallStep, Begin, Refuse, Precheck, AcquireKey, Transport, Backoff, Crash, vars
  <1>2. IndInv /\ [Next]_vars =>
          [\A k \in Keys : row[k] = "DELIVERED" /\ row'[k] # "DELIVERED" =>
             \E c \in Calls : key[c] = k /\ mode[c] = "allow_duplicate" /\ keyLock[k] = c]_vars
    BY <1>1
  <1> QED BY <1>2, SenderInvariance, PTL DEF Spec, DeliveredIsFinal, IndInv

\* Nothing has been forced, refused or shown at the start.
LEMMA InitReportInv == Init => ReportInv
  BY DEF Init, ReportInv, ForcedIsTicket, ReportIsUnforced, FailedIsUnsent, RefusedIsUnsent

\* A step that shows nothing, forces nothing and refuses nothing keeps what is known of reports,
\* if every row it writes DELIVERY_FAILED is of a message that was not shown.
LEMMA QuietReportInv ==
    ASSUME IndInv, ReportInv, UNCHANGED <<key, mode, chat, forced>>,
           \A d \in Calls : pc'[d] = "failed" => pc[d] = "failed",
           \A k \in Keys : k[2] # "TICKET" /\ row'[k] = "DELIVERY_FAILED" =>
               row[k] = "DELIVERY_FAILED" \/ chat[k] = 0
    PROVE  ReportInv'
  BY DEF ReportInv, ForcedIsTicket, ReportIsUnforced, FailedIsUnsent, RefusedIsUnsent

\* A claim is forced only for a ticket, and leaves no row failed.
LEMMA ClaimReportInv == ASSUME IndInv, ReportInv, NEW c \in Calls, Claim(c) PROVE ReportInv'
  <1> USE DEF IndInv, ReportInv
  <1>1. /\ key[c] \in Keys /\ UNCHANGED <<key, mode, chat>>
        /\ \A d \in Calls : pc'[d] = "failed" => pc[d] = "failed"
    BY DEF Claim, Finished, Goto, TypeOK
  <1>2. \A k \in Keys : row'[k] = "DELIVERY_FAILED" => row[k] = "DELIVERY_FAILED"
    BY <1>1 DEF Claim, Recovered, TypeOK
  <1>3. ForcedIsTicket' /\ FailedIsUnsent' /\ RefusedIsUnsent'
    BY <1>1, <1>2 DEF ForcedIsTicket, FailedIsUnsent, RefusedIsUnsent
  <1>4. \A k \in Keys : k[2] # "TICKET" => forced'[k] = forced[k]
    BY <1>1 DEF Claim, ForcedIsTicket, TypeOK
  <1>5. ReportIsUnforced'
    BY <1>4 DEF ReportIsUnforced
  <1> QED BY <1>3, <1>5

\* While a report is being asked for it is not in the chat, so a refusal leaves it out of it.
LEMMA TransportReportInv == ASSUME IndInv, ReportInv, NEW c \in Calls, Transport(c) PROVE ReportInv'
  <1> USE DEF IndInv, ReportInv, SenderInv
  <1>1. PICK a \in Answers :
           /\ chat' = [chat EXCEPT ![key[c]] = @ + a[1]]
           /\ Goto(c, IF a[2] = "backoff" /\ tries[c] + 1 = MaxAttempts THEN "failed" ELSE a[2])
    BY DEF Transport
  <1>2. pc[c] = "transport" /\ key[c] \in Keys /\ UNCHANGED <<row, key, mode, forced>>
    BY DEF Transport, TypeOK
  <1>3. \A k \in Keys : chat[k] \in Nat /\ forced[k] \in Nat
                        /\ chat'[k] = IF k = key[c] THEN chat[k] + a[1] ELSE chat[k]
    BY <1>1, <1>2 DEF TypeOK
  <1>4. row[key[c]] = "pending"
    BY <1>2 DEF HoldsClaim, Network
  <1>5. ForcedIsTicket' /\ ReportIsUnforced' /\ FailedIsUnsent'
    BY <1>2, <1>3, <1>4 DEF ForcedIsTicket, ReportIsUnforced, FailedIsUnsent
  <1>6. ASSUME NEW d \in Calls, key[d][2] # "TICKET", pc'[d] = "failed" PROVE chat'[key[d]] = 0
    <2>1. CASE d = c
      <3>1. a[1] = 0
        BY <1>1, <1>6, <2>1, AnswerShape DEF Goto, TypeOK
      <3>2. Asking(key[c])
        BY <1>2 DEF Asking
      <3>3. chat[key[c]] = 0
        BY <1>2, <1>3, <1>6, <2>1, <3>2 DEF ShownIsPaidFor, ReportIsUnforced
      <3> QED BY <1>2, <1>3, <2>1, <3>1, <3>3
    <2>2. CASE d # c
      <3>1. pc[d] = "failed" /\ key[d] \in Keys
        BY <1>1, <1>6, <2>2 DEF Goto, TypeOK
      <3>2. key[d] # key[c]
        BY <1>2, <2>2, <3>1, KeyIsExclusive DEF Network
      <3> QED BY <1>3, <1>6, <3>1, <3>2 DEF RefusedIsUnsent
    <2> QED BY <2>1, <2>2
  <1>7. RefusedIsUnsent'
    BY <1>2, <1>6 DEF RefusedIsUnsent
  <1> QED BY <1>5, <1>7

\* Every step keeps what is known of reports.
LEMMA NextReportInv == ASSUME IndInv, ReportInv, [Next]_vars PROVE ReportInv'
  <1> USE DEF IndInv
  <1>1. ASSUME NEW c \in Calls, Begin(c) \/ Refuse(c) \/ Precheck(c) \/ AcquireKey(c) PROVE ReportInv'
    BY <1>1, QuietReportInv DEF Begin, Refuse, Precheck, AcquireKey, Goto, TypeOK
  <1>2. ASSUME NEW c \in Calls, Backoff(c) PROVE ReportInv'
    BY <1>2, QuietReportInv DEF Backoff, Finished, Goto, TypeOK
  <1>3. ASSUME NEW c \in Calls, Record(c) PROVE ReportInv'
    <2>1. \A k \in Keys : k[2] # "TICKET" /\ row'[k] = "DELIVERY_FAILED" =>
              row[k] = "DELIVERY_FAILED" \/ chat[k] = 0
      BY <1>3 DEF Record, OutcomeState, ReportInv, RefusedIsUnsent, TypeOK
    <2>2. \A d \in Calls : pc'[d] = "failed" => pc[d] = "failed"
      BY <1>3 DEF Record, Finished, Goto, TypeOK
    <2>3. UNCHANGED <<key, mode, chat, forced>>
      BY <1>3 DEF Record
    <2> QED BY <2>1, <2>2, <2>3, QuietReportInv
  <1>4. ASSUME NEW c \in Calls, Crash(c) PROVE ReportInv'
    BY <1>4, QuietReportInv DEF Crash, Finished, Goto, TypeOK
  <1>5. ASSUME ListStep PROVE ReportInv'
    <2>1. \A k \in Keys : row'[k] = "DELIVERY_FAILED" => row[k] = "DELIVERY_FAILED"
      BY <1>5 DEF ListStep, ListStart, ListLock, ListRecover, Recovered, TypeOK
    <2>2. UNCHANGED <<pc, key, mode, chat, forced>>
      BY <1>5 DEF ListStep, ListStart, ListLock, ListRecover
    <2> QED BY <2>1, <2>2, QuietReportInv
  <1>6. CASE UNCHANGED vars
    BY <1>6, QuietReportInv DEF vars
  <1> QED
    BY <1>1, <1>2, <1>3, <1>4, <1>5, <1>6, ClaimReportInv, TransportReportInv DEF Next, CallStep

\* What is known of reports holds in every behaviour.
THEOREM ReportInvariance == Spec => []ReportInv
  <1>1. IndInv /\ ReportInv /\ [Next]_vars => ReportInv'
    BY NextReportInv
  <1> QED BY InitReportInv, <1>1, SenderInvariance, PTL DEF Spec, IndInv

\* No report passes the signal check while another class of its signal is in the chat, except a
\* CANDIDATE after BLOCKED (Sender.send_report, _signal_already_reported): a failed row is the one
\* state the check skips, and a report in that state is not in the chat.
THEOREM OneReport == Spec => OneReportPerSignal
  <1>1. ASSUME IndInv, ReportInv, [Next]_vars, NEW c \in Calls,
               pc[c] = "precheck", pc'[c] = "lock",
               NEW d \in (Statuses \cap ReportClasses) \ {key[c][2]},
               chat[<<key[c][1], d>>] > 0
        PROVE  d = "BLOCKED" /\ key[c][2] = "CANDIDATE"
    <2> USE DEF IndInv, SenderInv, ReportInv
    <2> DEFINE k == <<key[c][1], d>>
    <2>1. Precheck(c)
      <3>1. ASSUME NEW b \in Calls, Begin(b) \/ Refuse(b) \/ Crash(b) PROVE FALSE
        BY <1>1, <3>1 DEF Begin, Refuse, Crash, Finished, Goto, TypeOK
      <3>2. ASSUME NEW b \in Calls, CallStep(b) PROVE b = c
        BY <1>1, <3>2 DEF CallStep, Precheck, AcquireKey, Claim, Transport, Backoff, Record,
           Finished, Goto, TypeOK
      <3>3. ASSUME CallStep(c) PROVE Precheck(c)
        BY <1>1, <3>3 DEF CallStep, AcquireKey, Claim, Transport, Backoff, Record
      <3>4. ASSUME ListStep \/ UNCHANGED vars PROVE FALSE
        BY <1>1, <3>4 DEF ListStep, ListStart, ListLock, ListRecover, vars
      <3> QED BY <1>1, <3>1, <3>2, <3>3, <3>4 DEF Next
    <2>2. k \in Keys /\ k[2] # "TICKET"
      <3>1. key[c] \in Signals \X Statuses
        BY <1>1 DEF TypeOK, Keys
      <3>2. key[c][1] \in Signals /\ d \in Statuses /\ d # "TICKET"
        BY <3>1 DEF ReportClasses
      <3> QED BY <3>2 DEF Keys
    <2>3. row[k] \in {"DELIVERED", "pending", "DELIVERY_UNCERTAIN"}
      BY <1>1, <2>2 DEF UnclaimedIsUnsent, FailedIsUnsent, TypeOK, RowValues
    <2>4. d \in PriorClasses(key[c][1], key[c][2])
      BY <2>3 DEF PriorClasses
    <2>5. PriorClasses(key[c][1], key[c][2]) = {"BLOCKED"} /\ key[c][2] = "CANDIDATE"
      BY <1>1, <2>1, <2>4 DEF Precheck, Goto, TypeOK
    <2> QED BY <2>4, <2>5
  <1>2. IndInv /\ ReportInv /\ [Next]_vars =>
          [\A c \in Calls : pc[c] = "precheck" /\ pc'[c] = "lock" =>
             \A d \in (Statuses \cap ReportClasses) \ {key[c][2]} :
                chat[<<key[c][1], d>>] > 0 => d = "BLOCKED" /\ key[c][2] = "CANDIDATE"]_vars
    BY <1>1
  <1> QED BY <1>2, SenderInvariance, ReportInvariance, PTL DEF Spec, OneReportPerSignal, IndInv

\* A write of one report's row is that report's step of the courier.
LEMMA RowStep ==
    ASSUME NEW k \in Reports, NEW s \in RowValues, row \in [Keys -> RowValues],
           row' = [row EXCEPT ![k] = s], chat' = chat,
           \/ row[k] = "absent" /\ s = "pending"
           \/ row[k] = "pending" /\ s = "DELIVERY_UNCERTAIN"
           \/ row[k] = "pending" /\ s = "DELIVERED" /\ chat[k] = 1
           \/ row[k] = "pending" /\ s = "DELIVERY_FAILED" /\ chat[k] = 0
    PROVE  Promise!CourierNext
  <1> DEFINE record == [j \in Reports |-> RecordOf[row[j]]]
  <1>1. record' = [record EXCEPT ![k] = RecordOf[s]] /\ k \in Keys
    BY DEF Reports
  <1>2. CASE row[k] = "absent" /\ s = "pending"
    <2>1. Promise!Take(k)
      BY <1>1, <1>2 DEF Promise!Take, Promise!Settled, RecordOf
    <2> QED BY <2>1 DEF Promise!CourierNext
  <1>3. CASE row[k] = "pending" /\ s = "DELIVERY_UNCERTAIN"
    <2>1. Promise!Doubt({k})
      BY <1>1, <1>3 DEF Promise!Doubt, RecordOf
    <2> QED BY <2>1 DEF Promise!CourierNext
  <1>4. CASE row[k] = "pending" /\ s = "DELIVERED" /\ chat[k] = 1
    <2>1. Promise!Deliver(k)
      BY <1>1, <1>4 DEF Promise!Deliver, Promise!Settled, RecordOf
    <2> QED BY <2>1 DEF Promise!CourierNext
  <1>5. CASE row[k] = "pending" /\ s = "DELIVERY_FAILED" /\ chat[k] = 0
    <2>1. Promise!Drop(k)
      BY <1>1, <1>5 DEF Promise!Drop, Promise!Settled, RecordOf
    <2> QED BY <2>1 DEF Promise!CourierNext
  <1> QED BY <1>2, <1>3, <1>4, <1>5

\* The sender implements the courier for reports: the key's lock makes claim, requests and record
\* one message's, and a claim left behind is only ever doubted (_send, _recover_pending).
THEOREM SenderImplementsCourier == Spec => ImplementsCourier
  <1> DEFINE record == [k \in Reports |-> RecordOf[row[k]]]
             shown == [k \in Reports |-> chat[k]]
  <1>1. Init => Promise!CourierInit
    BY DEF Init, Promise!CourierInit, RecordOf, Reports
  <1>2. IndInv /\ ReportInv /\ [Next]_vars => [Promise!CourierNext]_<<record, shown>>
    <2> SUFFICES ASSUME IndInv, ReportInv, [Next]_vars, ~(record' = record /\ shown' = shown)
                 PROVE  Promise!CourierNext
      OBVIOUS
    <2>1. /\ row \in [Keys -> RowValues] /\ chat \in [Keys -> Nat] /\ forced \in [Keys -> Nat]
          /\ key \in [Calls -> Keys]
      BY DEF IndInv, TypeOK
    <2>2. ASSUME NEW k \in Keys, NEW s \in RowValues, row' = [row EXCEPT ![k] = s], chat' = chat
          PROVE  k \in Reports
      <3>1. SUFFICES ASSUME k \notin Reports PROVE FALSE
        OBVIOUS
      <3>2. \A j \in Reports : row'[j] = row[j]
        BY <2>1, <2>2, <3>1 DEF Reports
      <3> QED BY <2>2, <3>2
    <2>3. ASSUME NEW k \in Keys, row' = [row EXCEPT ![k] = Recovered(k)], chat' = chat
          PROVE  Promise!CourierNext
      <3>1. k \in Reports /\ row[k] = "pending"
        BY <2>1, <2>2, <2>3 DEF Recovered, RowValues
      <3> QED BY <2>1, <2>3, <3>1, RowStep DEF Recovered, RowValues
    <2>4. ASSUME NEW c \in Calls, Claim(c) PROVE Promise!CourierNext
      <3>1. chat' = chat /\ key[c] \in Keys
        BY <2>1, <2>4 DEF Claim
      <3>2. CASE row' = [row EXCEPT ![key[c]] = Recovered(key[c])]
        BY <2>3, <3>1, <3>2
      <3>3. CASE row' = [row EXCEPT ![key[c]] = "pending"] /\ MayClaim(mode[c], Recovered(key[c]))
        <4>1. key[c] \in Reports
          BY <2>2, <3>1, <3>3 DEF RowValues
        <4>2. mode[c] = "send"
          BY <4>1 DEF ReportInv, ForcedIsTicket, Reports
        <4>3. row[key[c]] = "absent"
          BY <3>3, <4>2 DEF MayClaim, Recovered
        <4> QED BY <2>1, <3>1, <3>3, <4>1, <4>3, RowStep DEF RowValues
      <3> QED BY <2>4, <3>2, <3>3 DEF Claim
    <2>5. ASSUME NEW c \in Calls, Transport(c) PROVE Promise!CourierNext
      <3>1. PICK n \in {0, 1} : chat' = [chat EXCEPT ![key[c]] = @ + n] /\ row' = row
        BY <2>5, AnswerShape DEF Transport
      <3>2. key[c] \in Reports /\ n = 1
        BY <2>1, <3>1 DEF Reports
      <3>3. row[key[c]] = "pending" /\ chat[key[c]] = 0
        <4>1. row[key[c]] = "pending" /\ Asking(key[c])
          BY <2>5 DEF Transport, Asking, IndInv, SenderInv, HoldsClaim, Network
        <4>2. forced[key[c]] = 0 /\ chat[key[c]] <= 0
          BY <2>1, <3>2, <4>1 DEF IndInv, SenderInv, ShownIsPaidFor, ReportInv, ReportIsUnforced, Reports
        <4> QED BY <2>1, <4>1, <4>2
      <3>4. PICK k \in Reports : k = key[c] /\ k \in Keys
        BY <2>1, <3>2
      <3>5. row[k] = "pending" /\ chat[k] = 0 /\ row' = row /\ chat' = [chat EXCEPT ![k] = 1]
        BY <2>1, <3>1, <3>2, <3>3, <3>4
      <3>6. shown' = [shown EXCEPT ![k] = 1]
        BY <2>1, <3>5 DEF Reports
      <3>7. Promise!Show(k)
        BY <3>5, <3>6 DEF Promise!Show, RecordOf
      <3> QED BY <3>7 DEF Promise!CourierNext
    <2>6. ASSUME NEW c \in Calls, Record(c) PROVE Promise!CourierNext
      <3>1. /\ pc[c] \in {"delivered", "uncertain", "failed"} /\ chat' = chat /\ key[c] \in Keys
            /\ row' = [row EXCEPT ![key[c]] = OutcomeState[pc[c]]]
        BY <2>1, <2>6 DEF Record
      <3>2. OutcomeState[pc[c]] \in RowValues
        BY <3>1 DEF OutcomeState, RowValues
      <3>3. key[c] \in Reports
        BY <2>2, <3>1, <3>2
      <3>4. row[key[c]] = "pending" /\ chat[key[c]] <= 1
        BY <2>1, <3>1, <3>3 DEF IndInv, SenderInv, HoldsClaim, Network, ShownIsPaidFor, ReportInv,
           ReportIsUnforced, Reports
      <3>5. /\ pc[c] = "delivered" => chat[key[c]] = 1
            /\ pc[c] = "failed" => chat[key[c]] = 0
        BY <2>1, <3>1, <3>3, <3>4 DEF IndInv, SenderInv, ReceiptIsTrue, ReportInv, RefusedIsUnsent, Reports
      <3>6. PICK s \in RowValues : /\ row' = [row EXCEPT ![key[c]] = s]
                                   /\ \/ s = "DELIVERED" /\ chat[key[c]] = 1
                                      \/ s = "DELIVERY_FAILED" /\ chat[key[c]] = 0
                                      \/ s = "DELIVERY_UNCERTAIN"
        <4>1. CASE pc[c] = "delivered"
          BY <3>1, <3>5, <4>1 DEF OutcomeState, RowValues
        <4>2. CASE pc[c] = "failed"
          BY <3>1, <3>5, <4>2 DEF OutcomeState, RowValues
        <4>3. CASE pc[c] = "uncertain"
          BY <3>1, <4>3 DEF OutcomeState, RowValues
        <4> QED BY <3>1, <4>1, <4>2, <4>3
      <3> QED BY <2>1, <3>1, <3>3, <3>4, <3>6, RowStep
    <2>7. ASSUME ListStep PROVE Promise!CourierNext
      BY <2>3, <2>7 DEF ListStep, ListStart, ListLock, ListRecover
    <2> QED
      BY <2>4, <2>5, <2>6, <2>7
         DEF Next, CallStep, vars, Begin, Refuse, Precheck, AcquireKey, Backoff, Crash
  <1> QED
    BY <1>1, <1>2, SenderInvariance, ReportInvariance, PTL
       DEF Spec, ImplementsCourier, Promise!CourierSpec, IndInv
=============================================================================
