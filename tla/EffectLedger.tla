---------------------------- MODULE EffectLedger ----------------------------
(* What the Kernel promises for one correlation, whatever races, crashes and
   retries do: a ledger of external effects. An executor is called once, its
   outcome is recorded once, and what is published about an action follows from
   the record and from the world. Kernel is shown to implement this.         *)
EXTENDS Naturals

CONSTANTS Actions, NoAction, NoContract, ObservationKinds, ObjectiveStates

VARIABLES
  calls,      \* executor calls, per action
  effects,    \* effects that landed, per action
  recorded,   \* the outcome on record, per action, or "none"
  published   \* what a reader of the correlation is told: action, state, retryable

ledgerVars == <<calls, effects, recorded, published>>

Init ==
  /\ calls = [a \in Actions |-> 0]
  /\ effects = [a \in Actions |-> 0]
  /\ recorded = [a \in Actions |-> "none"]
  /\ published = [action |-> NoAction, state |-> "none", retryable |-> FALSE]

\* the only call for this action; the effect lands or does not
Call(a) ==
  /\ calls[a] = 0 /\ recorded[a] = "none"
  /\ calls' = [calls EXCEPT ![a] = 1]
  /\ \E landed \in {0, 1} : effects' = [effects EXCEPT ![a] = landed]
  /\ UNCHANGED <<recorded, published>>

\* the outcome is put on record, for good
Record(a) ==
  /\ calls[a] = 1 /\ recorded[a] = "none"
  /\ \E k \in ObservationKinds : recorded' = [recorded EXCEPT ![a] = k]
  /\ UNCHANGED <<calls, effects, published>>

\* completion needs the effect, retrying needs a command that succeeded, and an
\* outcome on record as unknown is not published as a failure
Publish(a) ==
  /\ \E s \in ObjectiveStates, again \in BOOLEAN :
       /\ s = "COMPLETED" => effects[a] > 0 /\ ~again
       /\ s \in {"OBSERVED", "FAILED"} => recorded[a] # "none"
       /\ s = "FAILED" => recorded[a] # "ambiguous" \/ a \in NoContract
       /\ again => recorded[a] = "succeeded"
       /\ published' = [action |-> a, state |-> s, retryable |-> again]
  /\ UNCHANGED <<calls, effects, recorded>>

\* the decision itself failed: nothing is said of any action
Reject ==
  /\ \E s \in {"BLOCKED", "FAILED"} :
       published' = [action |-> NoAction, state |-> s, retryable |-> TRUE]
  /\ UNCHANGED <<calls, effects, recorded>>

Next == Reject \/ \E a \in Actions : Call(a) \/ Record(a) \/ Publish(a)

Spec == Init /\ [][Next]_ledgerVars
=============================================================================
