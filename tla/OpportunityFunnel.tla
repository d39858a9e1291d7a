-------------------------- MODULE OpportunityFunnel --------------------------
(***************************************************************************)
(* One opportunity from its first sighting to its end: the pure funnel     *)
(* engine (opportunity.engine) and the candidate store                     *)
(* (opportunity.candidate_store), as the crypto scanner runs them.         *)
(*                                                                         *)
(* Pollers evaluate the same occurrence over one JSON store.  The store    *)
(* locks each get and each put, not the pair of them: a poller may run     *)
(* between another's check and its write.  What a strategy makes of an     *)
(* event is the environment: any projection, in any order.  Geometry and   *)
(* evidence ride along with a candidate and decide nothing here: they are  *)
(* no part of the semantic no-op, and a known transition ends the poll     *)
(* whether they agree (a replay) or not (a conflict).                      *)
(***************************************************************************)
EXTENDS Integers, Sequences

CONSTANTS
    Pollers,
    Modes,              \* market data modes, "REAL" among them; stands for every field of authority
    Projected,          \* the stages, Outcomes the outcomes, that strategies project here
    Outcomes,
    Raw,                \* the strategies' own states
    MaxRevision         \* bound on the revisions of the candidate

FUNNEL_STAGES ==
    <<"MARKET_ELIGIBLE", "CONTEXT_VALID", "LOCATION_VALID", "SETUP_DETECTED",
      "TRIGGER_ARMED", "ENTRY_CONFIRMED", "OPPORTUNITY_READY">>

Stages == {FUNNEL_STAGES[i] : i \in 1..7}
index(stage) == CHOOSE i \in 1..7 : FUNNEL_STAGES[i] = stage

TERMINAL_OUTCOMES == {"REJECT", "INVALIDATED", "EXPIRED", "ERROR"}
FUNNEL_OUTCOMES == TERMINAL_OUTCOMES \cup {"ACTIVE", "WAIT"}

ASSUME FunnelAssumption ==
    /\ Projected \subseteq Stages /\ Outcomes \subseteq FUNNEL_OUTCOMES
    /\ MaxRevision \in Nat

VARIABLES
    store,      \* the candidate store's record: the candidate and its transitions
    pc, cand, trans,    \* a poller's place, its candidate and its transition
    read                \* the candidate's history as it read it before its put

vars == <<store, pc, cand, trans, read>>

\* No candidate yet: what state_from_candidate makes of None.
Absent == [stage |-> "none", outcome |-> "none", revision |-> 0, raw |-> "none", mode |-> "none"]
NoTransition == [revision |-> 0, from |-> <<"none", "none">>, to |-> <<"none", "none">>]

Candidate == [stage : Stages, outcome : FUNNEL_OUTCOMES, revision : Nat, raw : Raw, mode : Modes]
Transition ==
    [revision : Nat, from : (Stages \X FUNNEL_OUTCOMES) \cup {<<"none", "none">>},
     to : Stages \X FUNNEL_OUTCOMES]

TypeOK ==
    /\ store \in [cand : Candidate \cup {Absent}, hist : Seq(Transition)]
    /\ pc \in [Pollers -> {"idle", "persist", "put"}]
    /\ cand \in [Pollers -> Candidate \cup {Absent}]
    /\ trans \in [Pollers -> Transition \cup {NoTransition}]
    /\ read \in [Pollers -> Seq(Transition)]

Init ==
    /\ store = [cand |-> Absent, hist |-> <<>>]
    /\ pc = [p \in Pollers |-> "idle"]
    /\ cand = [p \in Pollers |-> Absent]
    /\ trans = [p \in Pollers |-> NoTransition]
    /\ read = [p \in Pollers |-> <<>>]

\* p is at `label` with candidate c, transition t and what it read.
At(p, label, c, t, r) ==
    /\ pc' = [pc EXCEPT ![p] = label]
    /\ cand' = [cand EXCEPT ![p] = c]
    /\ trans' = [trans EXCEPT ![p] = t]
    /\ read' = [read EXCEPT ![p] = r]

Idle(p) == At(p, "idle", Absent, NoTransition, <<>>)

-----------------------------------------------------------------------------
(* evaluate_funnel on the candidate the store holds *)

Terminal(c) == c.outcome \in TERMINAL_OUTCOMES

\* _is_semantic_no_op
SemanticNoOp(previous, stage, outcome, raw) ==
    previous.stage = stage /\ previous.outcome = outcome /\ previous.raw = raw

\* Mutant: the end of an opportunity is reported at the stage the strategy sees now.
FinalStageProjected(previous, stage, outcome) == stage

\* A transition into a terminal outcome does not move the stage back.
FinalStage(previous, stage, outcome) ==
    IF outcome \in TERMINAL_OUTCOMES /\ previous # Absent /\ index(previous.stage) > index(stage)
        THEN previous.stage ELSE stage

\* The candidate is read and evaluated on one event; nothing is written.  A mode that is not the
\* candidate's raises, an ended candidate and a semantic no-op come back as they are: the poll is over.
Evaluate(p) ==
    /\ pc[p] = "idle"
    /\ LET previous == store.cand IN
         \E mode \in Modes, stage \in Projected, outcome \in Outcomes, raw \in Raw :
            IF \/ previous # Absent /\ mode # previous.mode
               \/ Terminal(previous) \/ SemanticNoOp(previous, stage, outcome, raw)
               THEN UNCHANGED <<pc, cand, trans, read>>
               ELSE LET final == FinalStage(previous, stage, outcome) IN
                    /\ previous.revision < MaxRevision
                    /\ At(p, "persist",
                          [stage |-> final, outcome |-> outcome, revision |-> previous.revision + 1,
                           raw |-> raw, mode |-> mode],
                          [revision |-> previous.revision,
                           from |-> <<previous.stage, previous.outcome>>,
                           to |-> <<final, outcome>>], <<>>)
    /\ UNCHANGED store

-----------------------------------------------------------------------------
(* CandidateStore.persist *)

\* _transition_id; the identity of the candidate is made of its event, so all its polls carry that one
SameId(s, t) == s.revision = t.revision /\ s.from = t.from /\ s.to = t.to

Known(t) == \E j \in DOMAIN store.hist : SameId(store.hist[j], t)

\* Mutant: the revision and the link to the stored state are not compared.
LinksUnchecked(c, t) == store.cand # Absent => c.mode = store.cand.mode

\* The candidate continues the stored one.
Links(c, t) ==
    /\ c.revision = store.cand.revision + 1
    /\ store.cand # Absent => /\ c.mode = store.cand.mode
                              /\ t.from = <<store.cand.stage, store.cand.outcome>>

\* The stored record is read and compared.  A known transition is a replay, accepted as it is stored, or a
\* conflict, which raises like a candidate that does not link: nothing is written.
PersistGet(p) ==
    /\ pc[p] = "persist"
    /\ \/ /\ ~Known(trans[p]) /\ Links(cand[p], trans[p])
          /\ At(p, "put", cand[p], trans[p], store.hist)
       \/ /\ Known(trans[p]) \/ ~Links(cand[p], trans[p])
          /\ Idle(p)
    /\ UNCHANGED store

\* The one put: the candidate, and the history read before with its transition.
PersistPut(p) ==
    /\ pc[p] = "put"
    /\ store' = [cand |-> cand[p], hist |-> Append(read[p], trans[p])]
    /\ Idle(p)

\* A poller dies; each put is atomic.
Crash(p) ==
    /\ pc[p] # "idle"
    /\ Idle(p)
    /\ UNCHANGED store

Next ==
    \E p \in Pollers :
        Evaluate(p) \/ PersistGet(p) \/ PersistPut(p) \/ Crash(p)

Spec == Init /\ [][Next]_vars

-----------------------------------------------------------------------------
\* Transitions h are one unbroken chain that leads to candidate c, ends at most once and ends no lower
\* than it stood.
Chain(h, c) ==
    /\ c.revision = Len(h)
    /\ h # <<>> => h[Len(h)].to = <<c.stage, c.outcome>>
    /\ \A j \in DOMAIN h :
         /\ h[j].revision = j - 1
         /\ h[j].from = IF j = 1 THEN <<"none", "none">> ELSE h[j - 1].to
         /\ j > 1 => /\ h[j].from[2] \notin TERMINAL_OUTCOMES
                     /\ h[j].to[2] \in TERMINAL_OUTCOMES => index(h[j].to[1]) >= index(h[j].from[1])

\* The stored history is such a chain to the stored candidate, whatever pollers raced over it
\* (CandidateStore.persist, evaluate_funnel).
HistoryIsLinked == Chain(store.hist, store.cand)

\* An ended opportunity is brought back only by a poller that had passed the store's checks before it
\* ended, never by one that evaluated or was checked later (evaluate_funnel, CandidateStore.persist).
EndedIsFinal ==
    [][Terminal(store.cand) /\ store' # store =>
           \E p \in Pollers : /\ pc[p] = "put" /\ store'.cand = cand[p]
                              /\ \A j \in DOMAIN read[p] : read[p][j].to[2] \notin TERMINAL_OUTCOMES]_vars

-----------------------------------------------------------------------------
(* The inductive invariant *)

StoreIsCounted == store.cand = Absent <=> store.cand.revision = 0

\* What evaluate_funnel returned: the next revision of a candidate that has not ended.
PersistIsNext ==
    \A p \in Pollers : pc[p] \in {"persist", "put"} =>
        LET c == cand[p]  t == trans[p] IN
        /\ c \in Candidate /\ t \in Transition
        /\ c.revision = t.revision + 1 /\ t.to = <<c.stage, c.outcome>>
        /\ IF t.revision = 0 THEN t.from = <<"none", "none">>
           ELSE /\ t.from[2] \notin TERMINAL_OUTCOMES
                /\ t.to[2] \in TERMINAL_OUTCOMES => index(t.to[1]) >= index(t.from[1])

\* What is about to be put is a chain, whatever the store holds by now.
PutIsLinked ==
    \A p \in Pollers : pc[p] = "put" => Chain(Append(read[p], trans[p]), cand[p])

FunnelInv == TypeOK /\ StoreIsCounted /\ PersistIsNext /\ PutIsLinked /\ HistoryIsLinked

=============================================================================
