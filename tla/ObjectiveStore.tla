--------------------------- MODULE ObjectiveStore ---------------------------
(* The canonical store of one correlation id, as PostgresObjectiveStore keeps
   it: the rows of the tables objectives, actions, observations and results
   that carry that correlation. Every operator below is one committed SQL
   statement. Rows of different correlations never meet, so one correlation is
   the whole of what a request can touch.

   Data kept: an objective row keeps its state and whether it names an action;
   an action row keeps the objective its payload names and its state; an
   observation is one of four kinds; a result keeps the key it was saved
   under, the action its evidence is about, its objective, its state and its
   retryable flag.                                                          *)
EXTENDS Naturals, FiniteSets

CONSTANTS
  Actions,       \* the action_ids a decision may name; a key is <corr>:<action_id>
  ObjectiveIds,  \* the UUIDs objective rows may get (a bound on rows)
  NoAction,      \* objective.action is None
  NoObjective    \* no objective row

ASSUME StoreAssumption ==
  /\ NoAction \notin Actions
  /\ NoObjective \notin ObjectiveIds
  /\ {"decision", "interaction", "none"} \cap Actions = {}

VARIABLES
  objectives,    \* table objectives: id -> row
  newest,        \* the id of the row with the greatest updated_at
  actions,       \* table actions: action_id -> row
  observations,  \* table observations: action_id -> kind, or "none"
  result         \* table results: its one row for this correlation

storeVars == <<objectives, newest, actions, observations, result>>

ObjectiveStates == {"PROPOSED", "VALIDATED", "APPROVAL_REQUIRED", "EXECUTING",
                    "OBSERVED", "COMPLETED", "FAILED", "BLOCKED"}

(* What an executor reports. "succeeded" and "failed" are command_succeeded
   true and false. "ambiguous" is a failure whose evidence carries
   outcome = unknown. "unknown" is a failure marked unknown only by the typed
   assurance field, as the calendar executor returns.                        *)
ObservationKinds == {"succeeded", "failed", "ambiguous", "unknown"}

ObjectiveRows == [state : ObjectiveStates \cup {"none"},
                  action : Actions \cup {NoAction}]
NoRow   == [state |-> "none", action |-> NoAction]

ActionRows == [objective : ObjectiveIds \cup {NoObjective},
               state : ObjectiveStates \cup {"none"}]
NoClaim == [objective |-> NoObjective, state |-> "none"]

Keys == Actions \cup {"decision", "interaction", "none"}

Results == [key : Keys, action : Actions \cup {NoAction},
            objective : ObjectiveIds \cup {NoObjective},
            state : ObjectiveStates \cup {"none"}, retryable : BOOLEAN]
NoResult == [key |-> "none", action |-> NoAction, objective |-> NoObjective,
             state |-> "none", retryable |-> FALSE]

StoreTypeOK ==
  /\ objectives \in [ObjectiveIds -> ObjectiveRows]
  /\ newest \in ObjectiveIds \cup {NoObjective}
  /\ actions \in [Actions -> ActionRows]
  /\ observations \in [Actions -> ObservationKinds \cup {"none"}]
  /\ result \in Results

StoreInit ==
  /\ objectives = [o \in ObjectiveIds |-> NoRow]
  /\ newest = NoObjective
  /\ actions = [a \in Actions |-> NoClaim]
  /\ observations = [a \in Actions |-> "none"]
  /\ result = NoResult

-----------------------------------------------------------------------------
\* INSERT .. ON CONFLICT (id) DO UPDATE, updated_at = now()
SaveObjective(o, row) ==
  /\ objectives' = [objectives EXCEPT ![o] = row]
  /\ newest' = o

\* ORDER BY updated_at DESC LIMIT 1
GetObjectiveByCorrelation ==
  IF newest = NoObjective THEN NoRow ELSE objectives[newest]

\* The primary key of results is the correlation id, so saving under any key
\* replaces the row, whatever key it was saved under before.
SaveResult(key, res) == result' = [res EXCEPT !.key = key]

\* WHERE idempotency_key = key
GetResult(key) == IF result.key = key THEN result ELSE NoResult

\* Fault: the row is claimed with a state that is no ObjectiveState.
ClaimActionInLimbo(a, o) ==
  actions' = IF actions[a] = NoClaim
             THEN [actions EXCEPT ![a] = [objective |-> o, state |-> "CLAIMED"]]
             ELSE actions
\* INSERT .. ON CONFLICT (idempotency_key) DO NOTHING RETURNING payload
ClaimAction(a, o) ==
  actions' = IF actions[a] = NoClaim
             THEN [actions EXCEPT ![a] = [objective |-> o, state |-> "EXECUTING"]]
             ELSE actions

UpdateActionState(a, s) ==
  actions' = IF actions[a] = NoClaim THEN actions
             ELSE [actions EXCEPT ![a].state = s]

\* The table has no column for the typed assurance: a failure that only the
\* assurance marked unknown is read back as a plain failure.
Stored(kind) == IF kind = "unknown" THEN "failed" ELSE kind

\* INSERT .. SELECT .. FROM actions WHERE idempotency_key = key
SaveObservation(a, kind) ==
  observations' = IF actions[a] = NoClaim THEN observations
                  ELSE [observations EXCEPT ![a] = Stored(kind)]
=============================================================================
