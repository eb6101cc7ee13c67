---------------------------- MODULE PlanSequence ----------------------------
(* Kernel.run_sequence of src/aegis/kernel.py: a plan of one to five actions
   under one correlation id, each step run by a Kernel of its own under a step
   correlation derived from the plan's. Requests with the same correlation run
   the sequence at the same time over the same store, die, and come back.

   A plan that comes with an ObjectiveSpec is "bound": one requirement per
   step, explicit dependencies, an objective id derived from the correlation.
   A bare sequence stops at its first step that does not complete. Either is what
   PlanMaterialization makes of a proposal.

   The Kernel of a step is taken at what EffectLedger promises of it (Kernel is
   shown to implement that): a claim lets one caller through, what it saw is on
   record for good, and a Result follows from the record and from the world.  *)
EXTENDS PlanMaterialization

CONSTANTS
  Requests,    \* callers presenting this correlation id
  Plans,       \* what a caller may present: a sequence of plans that PlanMaterialization
               \* makes; a plan is named by its place in it
  NoPlan,      \* no objective row
  Refusals,    \* what the policy may answer an action with, other than allow
  Kinds,       \* what calling a step's executor may report
  Rebinds,     \* callers may present different plans before one is stored
  MaxCrashes   \* bound on crashes

ASSUME PlanAssumption ==
  /\ \A p \in Range(Plans) :
       /\ p.steps \in Seq(DOMAIN Refusals) /\ Len(p.steps) \in 1..5
       /\ \A action \in Range(p.steps) : Refusals[action] \subseteq {"BLOCKED", "APPROVAL_REQUIRED"}
       /\ p.bound \in BOOLEAN
       /\ \A i \in 1..Len(p.steps) : p.depends[i] \subseteq 1..(i - 1)
       /\ DOMAIN p.meets = DOMAIN p.steps
       /\ p.bound => p.requires = Range(p.meets) /\ IsInjective(p.meets)
  /\ Requests # {} /\ {"none", "planned"} \cap Requests = {}
  /\ NoPlan \notin DOMAIN Plans
  /\ Kinds \subseteq {"succeeded", "failed", "ambiguous"}
  /\ Rebinds \in BOOLEAN
  /\ MaxCrashes \in Nat

\* Fault: a step's identity forgets its place in the plan.
ForgetsTheIndex(p, i) == <<1, Plans[p].steps[i]>>
\* the step correlation: uuid5 of the index and the action
StepKey(p, i) == <<i, Plans[p].steps[i]>>

Steps(p) == DOMAIN Plans[p].steps
StepKeys == UNION {{<<i, Plans[p].steps[j]>> : i, j \in Steps(p)} : p \in DOMAIN Plans}
PlanIds == Requests \cup {"planned"}
Nothing == [state |-> "none", retryable |-> FALSE]
NoObjective == [state |-> "none", plan |-> NoPlan]
Outcomes == [state : {"none", "BLOCKED", "APPROVAL_REQUIRED", "EXECUTING",
                      "OBSERVED", "COMPLETED", "FAILED"},
             retryable : BOOLEAN]

VARIABLES
  objectives,   \* the plan's objective rows, by id
  newest,       \* the row updated last, or "none"
  aggregate,    \* the stored Result under plan:<correlation>
  stepResult,   \* the stored Result of each step
  recorded,     \* the stored observation of each step
  calls,        \* executor calls, per step
  effects,      \* external effects that landed, per step
  pc, plan,     \* where each request is, and the plan it presents
  copy,         \* the objective row it read
  index,        \* the step it is at
  satisfied,    \* the requirements it saw complete
  failed,       \* had_failure
  seen,         \* what the executor reported to it
  out,          \* the Result being built, or returned
  crashes

planVars  == <<objectives, newest, aggregate>>
stepVars  == <<stepResult, recorded, calls, effects>>
loopVars  == <<index, satisfied, failed, seen>>
localVars == <<pc, plan, copy, loopVars, out>>
vars == <<planVars, stepVars, localVars, crashes>>

Running == {"lookup", "compare", "create", "next", "step", "record", "verify",
            "stop", "saveAggregate"}
NoCopy == [id |-> "none", plan |-> NoPlan]
Presented(r) == Plans[plan[r]]

PlanTypeOK ==
  /\ objectives \in [PlanIds -> [state : {"none", "PROPOSED"} \cup
                                         {o.state : o \in Outcomes},
                                 plan : DOMAIN Plans \cup {NoPlan}]]
  /\ newest \in PlanIds \cup {"none"}
  /\ aggregate \in Outcomes
  /\ stepResult \in [StepKeys -> Outcomes]
  /\ recorded \in [StepKeys -> Kinds \cup {"none"}]
  /\ calls \in [StepKeys -> Nat] /\ effects \in [StepKeys -> Nat]
  /\ pc \in [Requests -> Running \cup {"done", "crashed"}]
  /\ plan \in [Requests -> DOMAIN Plans]
  /\ copy \in [Requests -> [id : PlanIds \cup {"none"}, plan : DOMAIN Plans \cup {NoPlan}]]
  /\ \A r \in Requests : /\ index[r] \in 1..(Len(Presented(r).steps) + 1)
                         /\ satisfied[r] \subseteq Range(Presented(r).meets)
  /\ failed \in [Requests -> BOOLEAN]
  /\ seen \in [Requests -> Kinds \cup {"none"}]
  /\ out \in [Requests -> Outcomes]
  /\ crashes \in Nat

Init ==
  /\ objectives = [i \in PlanIds |-> NoObjective]
  /\ newest = "none"
  /\ aggregate = Nothing
  /\ stepResult = [k \in StepKeys |-> Nothing]
  /\ recorded = [k \in StepKeys |-> "none"]
  /\ calls = [k \in StepKeys |-> 0]
  /\ effects = [k \in StepKeys |-> 0]
  /\ pc = [r \in Requests |-> "lookup"]
  /\ plan \in [Requests -> DOMAIN Plans]
  /\ Rebinds \/ \A q, r \in Requests : plan[q] = plan[r]
  /\ copy = [r \in Requests |-> NoCopy]
  /\ index = [r \in Requests |-> 1]
  /\ satisfied = [r \in Requests |-> {}]
  /\ failed = [r \in Requests |-> FALSE]
  /\ seen = [r \in Requests |-> "none"]
  /\ out = [r \in Requests |-> Nothing]
  /\ crashes = 0

-----------------------------------------------------------------------------
Goto(r, l) == pc' = [pc EXCEPT ![r] = l]
Key(r) == StepKey(plan[r], index[r])
Outcome(state, retryable) == [state |-> state, retryable |-> retryable]

\* Fault: where the loop stood survives the call.
KeepsTheLoop(r) ==
  /\ copy' = [copy EXCEPT ![r] = NoCopy]
  /\ UNCHANGED loopVars
\* the call is over and its locals are gone
Unwind(r) ==
  /\ copy' = [copy EXCEPT ![r] = NoCopy]
  /\ index' = [index EXCEPT ![r] = 1]
  /\ satisfied' = [satisfied EXCEPT ![r] = {}]
  /\ failed' = [failed EXCEPT ![r] = FALSE]
  /\ seen' = [seen EXCEPT ![r] = "none"]
Return(r, res) ==
  /\ Unwind(r)
  /\ out' = [out EXCEPT ![r] = res]
  /\ Goto(r, "done")
  /\ UNCHANGED plan

SaveObjective(id, row) ==
  /\ objectives' = [objectives EXCEPT ![id] = row]
  /\ newest' = id
SaveCopy(r, state) ==
  SaveObjective(copy[r].id, [state |-> state, plan |-> copy[r].plan])

\* get_objective_by_correlation
Lookup(r) ==
  /\ pc[r] = "lookup"
  /\ copy' = [copy EXCEPT ![r] =
       IF newest = "none" THEN NoCopy
       ELSE [id |-> newest, plan |-> objectives[newest].plan]]
  /\ Goto(r, "compare")
  /\ UNCHANGED <<planVars, stepVars, plan, loopVars, out>>

FinalPrior(res) == res.state = "COMPLETED" /\ ~res.retryable

\* the stored aggregate is read after the objective: a Result without a row is
\* somebody else's, a row binds the correlation to its plan, and a completed
\* plan is not run again
Compare(r) ==
  /\ pc[r] = "compare"
  /\ LET stored == copy[r].plan IN
     \/ /\ \/ stored = NoPlan /\ aggregate # Nothing
           \/ stored # NoPlan /\ stored # plan[r]
        /\ Return(r, Outcome("BLOCKED", FALSE))
     \/ /\ FinalPrior(aggregate) /\ stored = plan[r]
        /\ Return(r, aggregate)
     \/ /\ ~FinalPrior(aggregate) /\ stored = plan[r]
        /\ Goto(r, "next")
        /\ UNCHANGED <<plan, copy, loopVars, out>>
     \/ /\ stored = NoPlan /\ aggregate = Nothing
        /\ Goto(r, "create")
        /\ UNCHANGED <<plan, copy, loopVars, out>>
  /\ UNCHANGED <<planVars, stepVars>>

\* a new Objective that carries the plan. A bound plan's id is derived from the
\* correlation, a bare one's is fresh: a request meets no row only once.
Create(r) ==
  /\ pc[r] = "create"
  /\ LET id == IF Presented(r).bound THEN "planned" ELSE r IN
     /\ SaveObjective(id, [state |-> "PROPOSED", plan |-> plan[r]])
     /\ copy' = [copy EXCEPT ![r] = [id |-> id, plan |-> plan[r]]]
  /\ Goto(r, "next")
  /\ UNCHANGED <<aggregate, stepVars, plan, loopVars, out>>

-----------------------------------------------------------------------------
\* Fault: a stored Result of any state will do.
AnyStoredResult(r, d) ==
  IF stepResult[StepKey(plan[r], d)] # Nothing \/ Presented(r).meets[d] \in satisfied[r]
  THEN "COMPLETED" ELSE "BLOCKED"
DependencyState(r, d) ==
  LET res == stepResult[StepKey(plan[r], d)] IN
  IF res # Nothing THEN res.state
  ELSE IF Presented(r).meets[d] \in satisfied[r] THEN "COMPLETED" ELSE "BLOCKED"

Ready(r) ==
  Presented(r).bound => \A d \in Presented(r).depends[index[r]] :
                      DependencyState(r, d) = "COMPLETED"

More(r) == pc[r] = "next" /\ index[r] \in Steps(plan[r])

\* a step whose prerequisite is not verified is noted as blocked, and passed over
Skip(r) ==
  /\ More(r) /\ ~Ready(r)
  /\ index' = [index EXCEPT ![r] = @ + 1]
  /\ UNCHANGED <<planVars, stepVars, pc, plan, copy, satisfied, failed, seen, out>>

Enter(r) ==
  /\ More(r) /\ Ready(r)
  /\ Goto(r, "step")
  /\ UNCHANGED <<planVars, stepVars, plan, copy, loopVars, out>>

\* the loop body once the step's Kernel has answered
Answered(r, res) ==
  /\ seen' = [seen EXCEPT ![r] = "none"]
  /\ failed' = [failed EXCEPT ![r] = @ \/ res.state = "FAILED"]
  /\ IF res.state = "COMPLETED" \/ Presented(r).bound
     THEN /\ satisfied' = [satisfied EXCEPT ![r] =
                IF res.state = "COMPLETED" /\ Presented(r).bound
                THEN @ \cup {Presented(r).meets[index[r]]} ELSE @]
          /\ index' = [index EXCEPT ![r] = @ + 1]
          /\ Goto(r, "next")
          /\ UNCHANGED out
     ELSE /\ out' = [out EXCEPT ![r] = res]
          /\ Goto(r, "stop")
          /\ UNCHANGED <<satisfied, index>>
  /\ UNCHANGED <<plan, copy>>

\* the Kernel of the step: policy refuses, a stored Result is returned or
\* reconciled, another request holds the claim, ...
Reverifiable(k) == stepResult[k].state = "FAILED" /\ recorded[k] = "succeeded"
StepRefused(r) ==
  /\ pc[r] = "step"
  /\ \E s \in Refusals[Key(r)[2]] : Answered(r, Outcome(s, FALSE))
  /\ UNCHANGED <<planVars, stepVars>>
StepKnown(r) ==
  /\ pc[r] = "step"
  /\ LET k == Key(r) IN
     \/ /\ stepResult[k] # Nothing /\ ~Reverifiable(k)
        /\ Answered(r, stepResult[k])
        /\ UNCHANGED stepResult
     \/ /\ stepResult[k].state = "OBSERVED" /\ effects[k] > 0
        /\ stepResult' = [stepResult EXCEPT ![k] = Outcome("COMPLETED", FALSE)]
        /\ Answered(r, Outcome("COMPLETED", FALSE))
     \/ /\ stepResult[k] = Nothing /\ calls[k] > 0 /\ recorded[k] = "none"
        /\ Answered(r, Outcome("EXECUTING", FALSE))
        /\ UNCHANGED stepResult
  /\ UNCHANGED <<planVars, recorded, calls, effects>>

\* ... or it claims the action and calls the executor, ...
StepCalls(r) ==
  /\ pc[r] = "step"
  /\ LET k == Key(r) IN
     /\ stepResult[k] = Nothing /\ calls[k] = 0
     /\ calls' = [calls EXCEPT ![k] = @ + 1]
     /\ \E kind \in Kinds, landed \in {0, 1} :
          /\ seen' = [seen EXCEPT ![r] = kind]
          /\ effects' = [effects EXCEPT ![k] = @ + landed]
  /\ Goto(r, "record")
  /\ UNCHANGED <<planVars, stepResult, recorded, plan, copy, index, satisfied,
                 failed, out>>
StepRecords(r) ==
  /\ pc[r] = "record"
  /\ recorded' = [recorded EXCEPT ![Key(r)] = seen[r]]
  /\ Goto(r, "verify")
  /\ UNCHANGED <<planVars, stepResult, calls, effects, plan, copy, loopVars, out>>

\* ... or it finishes from the record, and verifies what it finds
StepResumes(r) ==
  /\ pc[r] = "step"
  /\ recorded[Key(r)] # "none"
  /\ stepResult[Key(r)] = Nothing \/ Reverifiable(Key(r))
  /\ Goto(r, "verify")
  /\ UNCHANGED <<planVars, stepVars, plan, copy, loopVars, out>>
StepVerifies(r) ==
  /\ pc[r] = "verify"
  /\ LET k == Key(r)
         verified == Outcome("COMPLETED", FALSE)
         unverified == IF recorded[k] = "ambiguous" THEN Outcome("OBSERVED", FALSE)
                       ELSE Outcome("FAILED", recorded[k] = "succeeded")
     IN \E res \in {verified, unverified} :
          /\ res = verified => recorded[k] = "succeeded" /\ effects[k] > 0
          /\ stepResult' = [stepResult EXCEPT ![k] = res]
          /\ Answered(r, res)
  /\ UNCHANGED <<planVars, recorded, calls, effects>>

-----------------------------------------------------------------------------
\* a bare sequence stops: its objective takes the step's state
Stop(r) ==
  /\ pc[r] = "stop"
  /\ SaveCopy(r, out[r].state)
  /\ Goto(r, "saveAggregate")
  /\ UNCHANGED <<aggregate, stepVars, plan, copy, loopVars, out>>

\* Fault: only a step that failed leaves the objective incomplete.
NothingFailed(r) == ~failed[r]
\* objective_requirements_satisfied
RequirementsSatisfied(r) ==
  Presented(r).requires # {} /\ Presented(r).requires \subseteq satisfied[r]

\* Fault: an incomplete outcome becomes the plan's Result too.
KeepsIncomplete(r, res) ==
  /\ out' = [out EXCEPT ![r] = res]
  /\ Goto(r, "saveAggregate")
  /\ UNCHANGED <<plan, copy, loopVars>>
ReturnIncomplete(r, res) == Return(r, res)

\* the last step is behind: an unsatisfied requirement leaves the objective
\* incomplete and no Result is stored; otherwise the plan is complete
Close(r) ==
  /\ pc[r] = "next" /\ index[r] = Len(Presented(r).steps) + 1
  /\ IF Presented(r).bound /\ ~RequirementsSatisfied(r)
     THEN LET s == IF failed[r] THEN "FAILED" ELSE "BLOCKED" IN
          /\ SaveCopy(r, s)
          /\ ReturnIncomplete(r, Outcome(s, FALSE))
     ELSE /\ SaveCopy(r, "COMPLETED")
          /\ out' = [out EXCEPT ![r] = Outcome("COMPLETED", FALSE)]
          /\ Goto(r, "saveAggregate")
          /\ UNCHANGED <<plan, copy, loopVars>>
  /\ UNCHANGED <<aggregate, stepVars>>

SaveAggregate(r) ==
  /\ pc[r] = "saveAggregate"
  /\ aggregate' = out[r]
  /\ Return(r, out[r])
  /\ UNCHANGED <<objectives, newest, stepVars>>

\* the process dies, or a statement raises
Crash(r) ==
  /\ pc[r] \in Running /\ crashes < MaxCrashes
  /\ crashes' = crashes + 1
  /\ Unwind(r)
  /\ out' = [out EXCEPT ![r] = Nothing]
  /\ Goto(r, "crashed")
  /\ UNCHANGED <<planVars, stepVars, plan>>

\* the correlation is presented again, perhaps with another plan
Replay(r, p) ==
  /\ pc[r] \in {"done", "crashed"}
  /\ p # plan[r] => Rebinds \/ newest # "none"
  /\ plan' = [plan EXCEPT ![r] = p]
  /\ out' = [out EXCEPT ![r] = Nothing]
  /\ Goto(r, "lookup")
  /\ UNCHANGED <<planVars, stepVars, copy, loopVars, crashes>>

SequenceStep(r) ==
  \/ Lookup(r) \/ Compare(r) \/ Create(r) \/ Skip(r) \/ Enter(r)
  \/ StepRefused(r) \/ StepKnown(r) \/ StepCalls(r) \/ StepRecords(r)
  \/ StepResumes(r) \/ StepVerifies(r) \/ Stop(r) \/ Close(r) \/ SaveAggregate(r)

Next ==
  \E r \in Requests : \/ SequenceStep(r) /\ UNCHANGED crashes
                      \/ Crash(r)
                      \/ \E p \in DOMAIN Plans : Replay(r, p)

Spec == Init /\ [][Next]_vars

-----------------------------------------------------------------------------
\* steps that must be verified before step i of plan p may touch the world
Prerequisites(p, i) == IF Plans[p].bound THEN Plans[p].depends[i] ELSE 1..(i - 1)

\* A plan is reported, or stored, as COMPLETED only when every one of its
\* steps has had its external effect, as often as the plan asks for it; and the
\* plan of a compound request, only when everything its second reading found has,
\* and each unit of the utterance has an effect of its own.
CompletePlansAreDone ==
  \A p \in DOMAIN Plans :
    (\/ \E r \in Requests : out[r].state = "COMPLETED" /\ plan[r] = p
     \/ \E i \in PlanIds : objectives[i].state = "COMPLETED" /\ objectives[i].plan = p)
    => /\ \A a \in Range(Plans[p].steps) :
            Cardinality({i \in Steps(p) : Plans[p].steps[i] = a})
              <= Cardinality({k \in StepKeys : k[2] = a /\ effects[k] > 0})
       /\ LET done == {i \in Steps(p) : effects[StepKey(p, i)] > 0} IN
          /\ \A same \in Plans[p].wanted : same \cap done # {}
          /\ Plans[p].units <= Cardinality(done)

\* No step reaches its executor before each step it rests on has had its
\* effect, whichever request verified that.
DependentsWait ==
  [][\A r \in Requests :
       StepCalls(r) => \A d \in Prerequisites(plan[r], index[r]) :
                          effects[StepKey(plan[r], d)] > 0]_vars

\* The stored COMPLETED of a bound plan is never taken back: a duplicate that
\* finds steps still running, or failing, saves no Result of its own.
CompletionIsKept ==
  [][aggregate.state = "COMPLETED" /\ Plans[objectives[newest].plan].bound
       => aggregate' = aggregate]_vars

\* One correlation is one plan: every step that reached an executor belongs to
\* the plan of one caller.
OnePlan ==
  \E p \in DOMAIN Plans : \A k \in StepKeys :
    calls[k] > 0 => \E i \in Steps(p) : k = StepKey(p, i)
=============================================================================
