----------------------------- MODULE Interaction -----------------------------
(* InteractionBoundary.run of src/aegis/interaction.py around Kernel.run. Each
   request looks up what its correlation already produced, decides on a card
   (deterministically or with the model), runs the Kernel on that card, and
   then persists the Result a second time: persist_fast_result rewrites the
   objective row and the result row of the correlation. The requests of one
   correlation (double submission, a retry that races the original, a restart)
   interleave at every committed statement.

   Plans are the subject of PlanSequence; here an objective has no steps. The
   recovery field that persist_fast_result also writes is bookkeeping of its
   own, which nothing here reads.                                           *)
EXTENDS Kernel

CONSTANTS
  DirectOutcomes,  \* what a request may end in without the Kernel
  MaxReplays       \* bound on how often callers come back

ASSUME InteractionAssumption ==
  /\ DirectOutcomes \subseteq {"answered", "blocked", "unavailable"}
  /\ MaxReplays \in Nat

VARIABLES
  stage,   \* where each request is in InteractionBoundary.run
  card,    \* the action the boundary decided on
  replays  \* how often callers came back

boundaryVars == <<stage, card, replays>>
allVars == <<vars, boundaryVars>>

Stages == {"enter", "decide", "kernel", "persist", "persistResult",
           "answered", "crashed"}

BoundaryTypeOK ==
  /\ TypeOK
  /\ stage \in [Requests -> Stages]
  /\ card \in [Requests -> Actions \cup {NoAction}]
  /\ replays \in 0..MaxReplays

BoundaryInit ==
  /\ KernelInit
  /\ pc = [r \in Requests |-> "outside"]
  /\ stage = [r \in Requests |-> "enter"]
  /\ card = [r \in Requests |-> NoAction]
  /\ replays = 0

-----------------------------------------------------------------------------
At(r, s)   == stage' = [stage EXCEPT ![r] = s]

\* Fault: whatever was stored is returned, retryable or not.
ReturnsAnything(res) == res # NoResult
\* the stored interaction result that a later request is given as it is
ReturnsStored(res) == res # NoResult /\ ~res.retryable

\* the recovered objective, and the result stored for the whole interaction
Enter(r) ==
  /\ stage[r] = "enter"
  /\ IF newest # NoObjective /\ ReturnsStored(GetResult("interaction"))
     THEN /\ out' = [out EXCEPT ![r] = result]
          /\ At(r, "answered")
     ELSE At(r, "decide") /\ UNCHANGED out
  /\ UNCHANGED <<storeVars, pc, frame, worldVars, crashes, card, replays>>

\* A Result the boundary builds itself, under an objective id of its own: a fast
\* path or an answer, a refusal or a question, a provider that cannot be reached
DecideDirect(r) ==
  /\ stage[r] = "decide"
  /\ FreshIds # {}
  /\ \E d \in DirectOutcomes :
       out' = [out EXCEPT ![r] =
         [key |-> "none", action |-> NoAction,
          objective |-> CHOOSE x \in FreshIds : TRUE,
          state |-> CASE d = "answered" -> "COMPLETED"
                      [] d = "blocked" -> "BLOCKED"
                      [] d = "unavailable" -> "FAILED",
          retryable |-> d = "unavailable"]]
  /\ At(r, "persist")
  /\ UNCHANGED <<storeVars, pc, frame, worldVars, crashes, card, replays>>

\* a card, grounded and with its runtime resolved: the Kernel gets it as fixed
DecideCard(r) ==
  /\ stage[r] = "decide"
  /\ \E a \in Actions : card' = [card EXCEPT ![r] = a]
  /\ Goto(r, "lookup")
  /\ At(r, "kernel")
  /\ UNCHANGED <<storeVars, frame, out, worldVars, crashes, replays>>

\* Kernel.run with _FixedActionModel(card)
InKernel(r) ==
  /\ stage[r] = "kernel"
  /\ \/ RunStep(r)
     \/ DecideAction(r, card[r])
  /\ UNCHANGED <<crashes, boundaryVars>>

\* persist_fast_result, first statement: a new Objective under the Result's id,
\* built from the Result; the action the Kernel had saved is not carried over
PersistObjective(r) ==
  /\ stage[r] = "persist" \/ (stage[r] = "kernel" /\ pc[r] = "done")
  /\ SaveObjective(out[r].objective, [state |-> out[r].state, action |-> NoAction])
  /\ Goto(r, "outside")
  /\ At(r, "persistResult")
  /\ UNCHANGED <<actions, observations, result, frame, out, worldVars, crashes,
                 card, replays>>

\* persist_fast_result, last statement: the row of the correlation is replaced
PersistResult(r) ==
  /\ stage[r] = "persistResult"
  /\ SaveResult("interaction", out[r])
  /\ At(r, "answered")
  /\ UNCHANGED <<objectives, newest, actions, observations, localVars,
                 worldVars, crashes, card, replays>>

Die(r) ==
  /\ stage[r] \notin {"answered", "crashed"} /\ crashes < MaxCrashes
  /\ crashes' = crashes + 1
  /\ Unwind(r)
  /\ out' = [out EXCEPT ![r] = NoResult]
  /\ Goto(r, "outside")
  /\ At(r, "crashed")
  /\ card' = [card EXCEPT ![r] = NoAction]
  /\ UNCHANGED <<storeVars, worldVars, replays>>

\* the same correlation is presented again
Resubmit(r) ==
  /\ stage[r] \in {"answered", "crashed"} /\ replays < MaxReplays
  /\ replays' = replays + 1
  /\ out' = [out EXCEPT ![r] = NoResult]
  /\ At(r, "enter")
  /\ card' = [card EXCEPT ![r] = NoAction]
  /\ UNCHANGED <<storeVars, pc, frame, worldVars, crashes>>

BoundaryNext == \E r \in Requests :
  \/ Enter(r) \/ DecideDirect(r) \/ DecideCard(r) \/ InKernel(r)
  \/ PersistObjective(r) \/ PersistResult(r)
  \/ Die(r) \/ Resubmit(r)

BoundarySpec == BoundaryInit /\ [][BoundaryNext]_allVars

-----------------------------------------------------------------------------
\* A completed interaction stays completed: the Result that a retry is promised
\* is not replaced by one that says something else.
DurableResult ==
  [][result.key = "interaction" /\ result.state = "COMPLETED" /\ result.action # NoAction
       => result'.state = "COMPLETED"]_allVars

\* A retry of a correlation is not a new consequential request: one action only
\* is ever executed for it.
OneConsequence ==
  \A a, b \in Actions : calls[a] > 0 /\ calls[b] > 0 => a = b
=============================================================================
