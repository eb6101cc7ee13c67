------------------------------- MODULE MCAudit -------------------------------
(* What must come to an end. Two tables whose transactions wait for each other: the
   audit chain, with an appending request and two requests that correct the owner's
   memory, and the tasks, with duplicate creations, completions and sets of
   completions. And the model's decision about one request, whose repairs call the
   model again. They share nothing: a behaviour is about one of them.          *)
EXTENDS AuditChain, TaskStore, Cognition, TLC

CONSTANTS w1, w2, w3, q1, q2, k1, t1, t2, x1, x2

\* q1 and q2 are duplicates of one request
MCTaskKeyOf == [q \in {q1, q2} |-> k1]
MCOpenTasks == x1 :> t1 @@ x2 :> t2

\* a request for one change that names its record, and what may be different
Simple == [cards |-> "both", anchors |-> 1, negated |-> FALSE, conjunction |-> FALSE,
           fresh |-> FALSE, question |-> FALSE, mutation |-> FALSE, evidence |-> FALSE,
           rewritable |-> FALSE, multiple |-> FALSE]
MCUtterances == {
  Simple,
  [Simple EXCEPT !.cards = "write", !.rewritable = TRUE],
  [Simple EXCEPT !.anchors = 2, !.evidence = TRUE],
  [Simple EXCEPT !.anchors = 2, !.conjunction = TRUE, !.mutation = TRUE, !.rewritable = TRUE],
  [Simple EXCEPT !.negated = TRUE, !.mutation = TRUE],
  [Simple EXCEPT !.question = TRUE, !.fresh = TRUE],
  [Simple EXCEPT !.question = TRUE, !.evidence = TRUE],
  [Simple EXCEPT !.cards = "read", !.question = TRUE],
  [Simple EXCEPT !.cards = "none", !.question = TRUE, !.fresh = TRUE],
  [Simple EXCEPT !.multiple = TRUE, !.conjunction = TRUE, !.rewritable = TRUE]}
Equipped == [parser |-> "works", research |-> TRUE]
MCSetups == {Equipped, [parser |-> "broken", research |-> TRUE],
             [parser |-> "none", research |-> FALSE]}

VARIABLE about

waitingVars == <<about, vars, taskVars, cognitionVars>>

WaitingInit ==
  /\ about \in {"audit_events", "tasks", "decision"}
  /\ Init /\ TaskInit /\ CognitionInit
  /\ about # "decision" => utterance = Simple /\ setup = Equipped

InAudit(A) == about = "audit_events" /\ A /\ UNCHANGED <<about, taskVars, cognitionVars>>
InTasks(A) == about = "tasks" /\ A /\ UNCHANGED <<about, vars, cognitionVars>>
InDecision(A) == about = "decision" /\ A /\ UNCHANGED <<about, vars, taskVars>>

WaitingNext == InAudit(Next) \/ InTasks(TaskNext) \/ InDecision(CognitionNext)

\* who has begun goes on, as in FairSpec and TaskFairness
WaitingSpec ==
  /\ WaitingInit /\ [][WaitingNext]_waitingVars
  /\ \A w \in Writers : WF_waitingVars(InAudit(Work(w)))
  /\ \A c \in TaskCallers : WF_waitingVars(InTasks(TaskStep(c)))

\* The tables, what their requests carry, and the decision keep their types.
TablesTypeOK == AuditTypeOK /\ TaskTypeOK /\ CognitionTypeOK
=============================================================================
