------------------------------- MODULE Kernel -------------------------------
(* Kernel.run of src/aegis/kernel.py. Several requests carry the same
   correlation id (a browser that retries, two tabs, a restarted process) and
   run the handler at the same time, each on its own connection and with a
   Kernel of its own, over the canonical store. One action below is the code up
   to and including one committed statement, so that the interleavings and the
   crashes of the model are those the program can meet. Two reductions: the
   column actions.state, which no code of the Kernel reads, is written together
   with the statement next to it; and audit.append, the subject of AuditChain,
   is left out (a failing append is a crash here).

   The outside world is the model provider, the policy, the executor and the
   verifier. Of a capability's external effect the model keeps how often the
   executor was called and whether the effect landed.                       *)
EXTENDS ObjectiveStore

CONSTANTS
  Requests,        \* callers presenting this correlation id
  Preparer,        \* actions whose runtime has an action_preparer
  NoContract,      \* actions without a verification contract
  ModelOutcomes,   \* what deciding may end in
  PolicyOutcomes,  \* what authorization may answer
  ExecutorOutcomes,\* what calling the executor may report
  MaxCrashes       \* bound on crashes

ASSUME KernelAssumption ==
  /\ Preparer \subseteq Actions
  /\ NoContract \subseteq Actions
  /\ ModelOutcomes \subseteq {"action", "answer", "block", "invalid", "raise"}
  /\ PolicyOutcomes \subseteq {"allow", "deny", "approval"}
  /\ ExecutorOutcomes \subseteq ObservationKinds
  /\ MaxCrashes \in Nat

VARIABLES
  pc,       \* where each request is in Kernel.run
  origin,   \* what Lookup recovered: nothing, a row without action, an action
  held,     \* the request's copy of the objective: id, state, action
  act,      \* decision.action, later the action of the claimed request
  won,      \* this request's claim acquired the action row
  seen,     \* the observation in hand
  out,      \* the Result being built, or returned
  calls,    \* how often the executor was called, per action
  reported, \* what the executor last reported, per action
  effects,  \* how often the external effect landed, per action
  crashes   \* requests that died so far

frame     == <<origin, held, act, won, seen>>  \* the locals of one call
localVars == <<pc, frame, out>>
worldVars == <<calls, reported, effects>>
vars == <<storeVars, localVars, worldVars, crashes>>

Locations == {"lookup", "create", "decide", "saveDecision", "bind", "authorize",
              "prepare", "saveUnprepared", "prior", "saveReconciled", "claim",
              "canonical", "execute", "saveObservation", "markObserved",
              "verify", "saveResult", "done", "crashed"}
Running == Locations \ {"done", "crashed"}

NoCopy == [id |-> NoObjective, state |-> "none", action |-> NoAction]

TypeOK ==
  /\ StoreTypeOK
  /\ pc \in [Requests -> Locations \cup {"outside"}]
  /\ origin \in [Requests -> {"nothing", "row", "action"}]
  /\ held \in [Requests -> [id : ObjectiveIds \cup {NoObjective},
                            state : ObjectiveStates \cup {"none"},
                            action : Actions \cup {NoAction}]]
  /\ act \in [Requests -> Actions \cup {NoAction}]
  /\ won \in [Requests -> BOOLEAN]
  /\ seen \in [Requests -> ObservationKinds \cup {"none"}]
  /\ out \in [Requests -> Results]
  /\ calls \in [Actions -> Nat]
  /\ reported \in [Actions -> ObservationKinds \cup {"none"}]
  /\ effects \in [Actions -> Nat]
  /\ crashes \in Nat

KernelInit ==
  /\ StoreInit
  /\ origin = [r \in Requests |-> "nothing"]
  /\ held = [r \in Requests |-> NoCopy]
  /\ act = [r \in Requests |-> NoAction]
  /\ won = [r \in Requests |-> FALSE]
  /\ seen = [r \in Requests |-> "none"]
  /\ out = [r \in Requests |-> NoResult]
  /\ calls = [a \in Actions |-> 0]
  /\ reported = [a \in Actions |-> "none"]
  /\ effects = [a \in Actions |-> 0]
  /\ crashes = 0

Init == KernelInit /\ pc = [r \in Requests |-> "lookup"]

-----------------------------------------------------------------------------
Goto(r, l) == pc' = [pc EXCEPT ![r] = l]

\* save_objective of the request's copy with its state replaced
SaveCopy(r, s) ==
  SaveObjective(held[r].id, [state |-> s, action |-> held[r].action])

Res(r, state, retryable) ==
  [key |-> "none", action |-> act[r], objective |-> held[r].id,
   state |-> state, retryable |-> retryable]
Answer(r, state, retryable) ==
  out' = [out EXCEPT ![r] = Res(r, state, retryable)]

\* the call is over and its locals are gone
Unwind(r) ==
  /\ origin' = [origin EXCEPT ![r] = "nothing"]
  /\ held' = [held EXCEPT ![r] = NoCopy]
  /\ act' = [act EXCEPT ![r] = NoAction]
  /\ won' = [won EXCEPT ![r] = FALSE]
  /\ seen' = [seen EXCEPT ![r] = "none"]
Return(r, res) ==
  /\ Unwind(r)
  /\ out' = [out EXCEPT ![r] = res]
  /\ Goto(r, "done")

\* Fault: a stored FAILED is final.
FailedIsFinal(res, kind) == FALSE
\* FAILED although the command succeeded: the one stored result that a later
\* request goes past, to verify again.
Reverifiable(res, kind) == res.state = "FAILED" /\ kind = "succeeded"

\* get_objective_by_correlation; an objective with an action is resumed
Lookup(r) ==
  /\ pc[r] = "lookup"
  /\ LET row == GetObjectiveByCorrelation IN
     IF row.action # NoAction
     THEN /\ held' = [held EXCEPT ![r] = [id |-> newest, state |-> row.state,
                                          action |-> row.action]]
          /\ act' = [act EXCEPT ![r] = row.action]
          /\ origin' = [origin EXCEPT ![r] = "action"]
          /\ Goto(r, "bind")
     ELSE /\ origin' = [origin EXCEPT ![r] = IF newest = NoObjective
                                             THEN "nothing" ELSE "row"]
          /\ Goto(r, "create")
          /\ UNCHANGED <<held, act>>
  /\ UNCHANGED <<storeVars, won, seen, out, worldVars>>

\* A fresh UUID. A row that is not the newest, that no claim and no Result
\* names and that no request holds is never read or written again, so its id
\* stands for a new one: finitely many ids, no bound on how many rows there are.
FreshIds == ObjectiveIds \ (    {newest, result.objective}
                            \cup {actions[a].objective : a \in Actions}
                            \cup {held[q].id : q \in Requests}
                            \cup {out[q].objective : q \in Requests})

\* a new Objective, saved before the model is asked
Create(r) ==
  /\ pc[r] = "create"
  /\ FreshIds # {}
  /\ LET o == CHOOSE x \in FreshIds : TRUE IN
     /\ held' = [held EXCEPT ![r] = [id |-> o, state |-> "PROPOSED",
                                     action |-> NoAction]]
     /\ SaveObjective(o, [state |-> "PROPOSED", action |-> NoAction])
  /\ Goto(r, "decide")
  /\ UNCHANGED <<actions, observations, result, origin, act, won, seen, out,
                 worldVars>>

\* the model proposes an action and the objective names it; it is VALIDATED
\* only when no row of this correlation existed
DecideAction(r, a) ==
  /\ pc[r] = "decide" /\ "action" \in ModelOutcomes
  /\ act' = [act EXCEPT ![r] = a]
  /\ LET s == IF origin[r] = "nothing" THEN "VALIDATED" ELSE held[r].state IN
     /\ held' = [held EXCEPT ![r] = [id |-> @.id, state |-> s, action |-> a]]
     /\ SaveObjective(held[r].id, [state |-> s, action |-> a])
  /\ Goto(r, "authorize")
  /\ UNCHANGED <<actions, observations, result, origin, won, seen, out,
                 worldVars>>

\* an answer, a question or a refusal: returned without being saved
DecideTerminal(r) ==
  /\ pc[r] = "decide"
  /\ \E d \in ModelOutcomes \cap {"answer", "block"} :
       Return(r, Res(r, IF d = "answer" THEN "COMPLETED" ELSE "BLOCKED", FALSE))
  /\ UNCHANGED <<storeVars, worldVars>>

\* InvalidDecision: the rejection is saved, the objective is left PROPOSED
DecideInvalid(r) ==
  /\ pc[r] = "decide" /\ "invalid" \in ModelOutcomes
  /\ SaveResult("decision", Res(r, "BLOCKED", TRUE))
  /\ Return(r, Res(r, "BLOCKED", TRUE))
  /\ UNCHANGED <<objectives, newest, actions, observations, worldVars>>

\* any other exception of the model fails the objective, then saves a Result
DecideRaises(r) ==
  /\ pc[r] = "decide" /\ "raise" \in ModelOutcomes
  /\ SaveCopy(r, "FAILED")
  /\ Answer(r, "FAILED", TRUE)
  /\ Goto(r, "saveDecision")
  /\ UNCHANGED <<actions, observations, result, frame, worldVars>>

SaveDecision(r) ==
  /\ pc[r] = "saveDecision"
  /\ SaveResult("decision", out[r])
  /\ Return(r, out[r])
  /\ UNCHANGED <<objectives, newest, actions, observations, worldVars>>

\* a resumed objective is written back as it was read
Bind(r) ==
  /\ pc[r] = "bind"
  /\ SaveCopy(r, held[r].state)
  /\ Goto(r, "authorize")
  /\ UNCHANGED <<actions, observations, result, frame, out,
                 worldVars>>

Authorize(r) ==
  /\ pc[r] = "authorize"
  /\ \E p \in PolicyOutcomes :
       IF p = "allow"
       THEN /\ Goto(r, IF act[r] \in Preparer /\ origin[r] # "action"
                       THEN "prepare" ELSE "prior")
            /\ UNCHANGED <<objectives, newest, frame, out>>
       ELSE LET s == IF p = "deny" THEN "BLOCKED" ELSE "APPROVAL_REQUIRED" IN
            /\ SaveCopy(r, s)
            /\ Return(r, Res(r, s, FALSE))
  /\ UNCHANGED <<actions, observations, result, worldVars>>

\* the preparer fixes the postcondition; a preparer that cannot blocks
Prepare(r) ==
  /\ pc[r] = "prepare"
  /\ \/ /\ SaveCopy(r, held[r].state)
        /\ Goto(r, "prior")
        /\ UNCHANGED out
     \/ /\ SaveCopy(r, "BLOCKED")
        /\ Answer(r, "BLOCKED", FALSE)
        /\ Goto(r, "saveUnprepared")
  /\ UNCHANGED <<actions, observations, result, frame, worldVars>>

SaveUnprepared(r) ==
  /\ pc[r] = "saveUnprepared"
  /\ SaveResult(act[r], out[r])
  /\ Return(r, out[r])
  /\ UNCHANGED <<objectives, newest, actions, observations, worldVars>>

\* Fault: the success of the command stands for the effect.
TrustsTheCommand(a) == reported[a] = "succeeded"
\* the verifier reads the external state back: it never confirms what is not there
Confirms(a) == effects[a] > 0

\* a stored result is returned, reconciled, or gone past
Prior(r) ==
  /\ pc[r] = "prior"
  /\ LET a == act[r]
         prior == GetResult(a)
     IN \/ /\ prior # NoResult
           /\ prior.state = "OBSERVED" /\ observations[a] # "none"
           /\ a \notin NoContract /\ Confirms(a)
           /\ out' = [out EXCEPT ![r] = [prior EXCEPT !.state = "COMPLETED",
                                                      !.retryable = FALSE]]
           /\ Goto(r, "saveReconciled")
           /\ UNCHANGED frame
        \/ /\ prior # NoResult
           /\ ~Reverifiable(prior, observations[a])
           /\ Return(r, prior)
        \/ /\ prior = NoResult \/ Reverifiable(prior, observations[a])
           /\ Goto(r, "claim")
           /\ UNCHANGED <<frame, out>>
  /\ UNCHANGED <<storeVars, worldVars>>

SaveReconciled(r) ==
  /\ pc[r] = "saveReconciled"
  /\ SaveResult(act[r], out[r])
  /\ UpdateActionState(act[r], "COMPLETED")
  /\ Return(r, out[r])
  /\ UNCHANGED <<objectives, newest, observations, worldVars>>

Claim(r) ==
  /\ pc[r] = "claim"
  /\ ClaimAction(act[r], held[r].id)
  /\ won' = [won EXCEPT ![r] = (actions[act[r]] = NoClaim)]
  /\ Goto(r, "canonical")
  /\ UNCHANGED <<objectives, newest, observations, result, origin, held, act,
                 seen, out, worldVars>>

\* the claimed request's objective replaces the copy (whose state no later save
\* uses); a request that lost the claim returns what is known, unless an
\* observation is there to finish from
Canonical(r) ==
  /\ pc[r] = "canonical"
  /\ LET a == act[r]
         id == actions[a].objective
         known == GetResult(a)
     IN IF won[r] \/ (known # NoResult /\ Reverifiable(known, observations[a]))
                  \/ (known = NoResult /\ observations[a] # "none")
        THEN /\ held' = [held EXCEPT ![r] =
                           IF objectives[id] = NoRow THEN @
                           ELSE [id |-> id, state |-> "none",
                                 action |-> objectives[id].action]]
             /\ Goto(r, "execute")
             /\ UNCHANGED <<origin, act, won, seen, out>>
        ELSE Return(r, IF known # NoResult THEN known
                       ELSE [key |-> "none", action |-> a, objective |-> id,
                             state |-> "EXECUTING", retryable |-> FALSE])
  /\ UNCHANGED <<storeVars, worldVars>>

\* Faults: the record is not looked up; an unknown outcome is tried again.
AlwaysExecutes(a) == TRUE
ExecutesUnknownAgain(a) == observations[a] \in {"none", "ambiguous"}
MustExecute(a) == observations[a] = "none"

\* get_observation, and only without one the executor is called; an exception
\* becomes an ambiguous observation
Execute(r) ==
  /\ pc[r] = "execute"
  /\ LET a == act[r] IN
     IF ~MustExecute(a)
     THEN /\ seen' = [seen EXCEPT ![r] = observations[a]]
          /\ Goto(r, "markObserved")
          /\ UNCHANGED worldVars
     ELSE /\ \E kind \in ExecutorOutcomes, landed \in {0, 1} :
               /\ seen' = [seen EXCEPT ![r] = kind]
               /\ reported' = [reported EXCEPT ![a] = kind]
               /\ effects' = [effects EXCEPT ![a] = @ + landed]
          /\ calls' = [calls EXCEPT ![a] = @ + 1]
          /\ Goto(r, "saveObservation")
  /\ UNCHANGED <<storeVars, origin, held, act, won, out>>

RecordObservation(r) ==
  /\ pc[r] = "saveObservation"
  /\ SaveObservation(act[r], seen[r])
  /\ Goto(r, "markObserved")
  /\ UNCHANGED <<objectives, newest, actions, result, frame, out,
                 worldVars>>

MarkObserved(r) ==
  /\ pc[r] = "markObserved"
  /\ UpdateActionState(act[r], "OBSERVED")
  /\ SaveCopy(r, "OBSERVED")
  /\ Goto(r, "verify")
  /\ UNCHANGED <<observations, result, frame, out, worldVars>>

\* Faults: only the typed field is looked at; every failure is offered again.
TypedUnknown(kind) == kind = "unknown"
IsUnknown(kind) == kind \in {"ambiguous", "unknown"}
OffersEveryFailure(kind) == ~IsUnknown(kind)
OffersRetry(kind) == ~IsUnknown(kind) /\ kind = "succeeded"

\* verification decides the state; an unverified unknown outcome stays OBSERVED.
\* Without a contract the Result is FAILED and the objective stays OBSERVED.
Conclude(r, state, retryable) ==
  /\ SaveCopy(r, state)
  /\ Answer(r, state, retryable)
Verify(r) ==
  /\ pc[r] = "verify"
  /\ LET a == act[r] IN
     \/ /\ a \in NoContract
        /\ Answer(r, "FAILED", FALSE)
        /\ UNCHANGED <<objectives, newest>>
     \/ /\ a \notin NoContract /\ seen[r] = "succeeded" /\ Confirms(a)
        /\ Conclude(r, "COMPLETED", FALSE)
     \/ /\ a \notin NoContract
        /\ Conclude(r, IF IsUnknown(seen[r]) THEN "OBSERVED" ELSE "FAILED",
                    OffersRetry(seen[r]))
  /\ Goto(r, "saveResult")
  /\ UNCHANGED <<actions, observations, result, frame, worldVars>>

SaveFinalResult(r) ==
  /\ pc[r] = "saveResult"
  /\ SaveResult(act[r], out[r])
  /\ UpdateActionState(act[r], out[r].state)
  /\ Return(r, out[r])
  /\ UNCHANGED <<objectives, newest, observations, worldVars>>

-----------------------------------------------------------------------------
\* the process dies, or a statement raises: nothing committed is undone
Crash(r) ==
  /\ pc[r] \in Running /\ crashes < MaxCrashes
  /\ crashes' = crashes + 1
  /\ Unwind(r)
  /\ out' = [out EXCEPT ![r] = NoResult]
  /\ Goto(r, "crashed")
  /\ UNCHANGED <<storeVars, worldVars>>

\* The caller presents the same correlation again: a fresh Kernel, nothing
\* remembered
Replay(r) ==
  /\ pc[r] \in {"done", "crashed"}
  /\ out' = [out EXCEPT ![r] = NoResult]
  /\ Goto(r, "lookup")
  /\ UNCHANGED <<storeVars, frame, worldVars, crashes>>

\* Kernel.run, but for the model's choice of an action
RunStep(r) ==
  \/ Lookup(r) \/ Create(r) \/ DecideTerminal(r) \/ DecideInvalid(r)
  \/ DecideRaises(r) \/ SaveDecision(r) \/ Bind(r) \/ Authorize(r)
  \/ Prepare(r) \/ SaveUnprepared(r) \/ Prior(r) \/ SaveReconciled(r)
  \/ Claim(r) \/ Canonical(r) \/ Execute(r) \/ RecordObservation(r)
  \/ MarkObserved(r) \/ Verify(r) \/ SaveFinalResult(r)

Step(r) == RunStep(r) \/ \E a \in Actions : DecideAction(r, a)

Next ==
  \E r \in Requests : \/ Step(r) /\ UNCHANGED crashes
                      \/ Crash(r)
                      \/ Replay(r)

Spec == Init /\ [][Next]_vars

(* A request that is running keeps running, unless it dies. Nothing is assumed
   of the callers: none has to come back, and whether a second call of a chat
   message reaches the Kernel at all is the subject of Conversations.        *)
Fairness == \A r \in Requests : WF_vars(Step(r) /\ UNCHANGED crashes)
FairSpec == Spec /\ Fairness

-----------------------------------------------------------------------------
\* what any row, returned Result or Result under construction says of action a
Says(a, state) ==
  \/ result.action = a /\ result.state = state
  \/ actions[a].state = state
  \/ \E o \in ObjectiveIds : objectives[o] = [state |-> state, action |-> a]
  \/ \E r \in Requests : out[r].action = a /\ out[r].state = state

Offers(a) ==
  \/ result.action = a /\ result.retryable
  \/ \E r \in Requests : out[r].action = a /\ out[r].retryable

\* However many requests carry the correlation, race, crash and come back, the
\* executor is called at most once for a key (claim_action decides the caller).
AtMostOnce == \A a \in Actions : calls[a] <= 1

\* Tool success is not objective success: no table, and no caller, holds
\* COMPLETED for an action whose external effect never landed.
CompletionVerified ==
  \A a \in Actions : Says(a, "COMPLETED") => effects[a] > 0

\* A caller is invited to retry an action only when its recorded command
\* succeeded, so that the retry verifies again and can never execute again.
RetryOnlyReverifies ==
  \A a \in Actions : Offers(a) => observations[a] = "succeeded"

\* An outcome recorded as unknown is never reported as a failure, by whichever
\* request finishes it, and never offered for retry. (An action without a
\* verification contract is always FAILED: the code says so before it asks.)
AmbiguousStaysOpen ==
  \A a \in Actions \ NoContract : observations[a] = "ambiguous" =>
                        ~Says(a, "FAILED") /\ ~Offers(a)

\* An outcome the executor typed OUTCOME_UNKNOWN is never reported as a failure.
TypedUnknownStaysOpen ==
  \A a \in Actions \ NoContract : reported[a] = "unknown" => ~Says(a, "FAILED")

\* The Kernel implements the ledger: one call, one record that is never
\* replaced, and a stored Result that follows from the record and the world.
Ledger == INSTANCE EffectLedger WITH
  recorded <- observations,
  published <- [action |-> result.action, state |-> result.state,
                retryable |-> result.retryable]
KeepsLedger == Ledger!Spec

\* One call that resumes a command recorded as succeeded, whose effect is there,
\* is enough: whatever earlier calls, crashes and failing read-backs left behind,
\* the call does not stop at it but ends with COMPLETED stored, unless it dies
\* itself, is refused authorization, or its own read-back fails.
ComingBackVerifies ==
  \A a \in Actions \ NoContract, r \in Requests :
    (pc[r] = "bind" /\ act[r] = a /\ observations[a] = "succeeded" /\ effects[a] > 0)
      ~> \/ result.action = a /\ result.state = "COMPLETED"
         \/ pc[r] = "crashed"
         \/ out[r].action = a /\ out[r].state \in {"BLOCKED", "APPROVAL_REQUIRED"}
         \/ pc[r] = "saveResult" /\ out[r].state = "FAILED"
=============================================================================
