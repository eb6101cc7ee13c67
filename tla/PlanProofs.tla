------------------------------- MODULE PlanProofs -------------------------------
(* Plans for any number of requests with one correlation, any plans and any number
   of deaths: what rests on what, what a COMPLETED plan has done, and that one
   correlation is one plan.

   RequestOK says what a request knows at each place it can be: the requirements it
   saw satisfied, the steps it passed and, before it calls an executor, the steps
   this one rests on, have had their effect; effects stay. This much holds whatever
   the callers present (PlanIInv). What the stored Result and the objective rows say
   needs one plan for all of them (SinglePlan): callers that present different plans
   before one is stored defeat it.                                             *)
EXTENDS PlanSequence, FiniteSetTheorems, TLAPS

Unwound == {"lookup", "compare", "create", "done", "crashed"}
Stepping == {"step", "record", "verify"}
\* the places after the row was found or made
Bound == {"next", "step", "record", "verify", "stop", "saveAggregate"}
Complete == Outcome("COMPLETED", FALSE)

Landed(p, i) == effects[StepKey(p, i)] > 0
AllLanded(p) == \A i \in Steps(p) : Landed(p, i)
Requirements == UNION {Range(Plans[p].meets) : p \in DOMAIN Plans}

-----------------------------------------------------------------------------
(* The invariants                                                            *)

RequestOK(r) ==
  /\ pc[r] \in Unwound => index[r] = 1 /\ satisfied[r] = {}
  /\ pc[r] \in Stepping => index[r] \in Steps(plan[r])
  /\ pc[r] = "step" => \A d \in Prerequisites(plan[r], index[r]) : Landed(plan[r], d)
  /\ copy[r].id = "none" => copy[r].plan = NoPlan
  /\ pc[r] \in Bound => copy[r].id \in PlanIds /\ copy[r].plan = plan[r]
  /\ pc[r] = "stop" => ~Presented(r).bound /\ out[r].state # "COMPLETED"
  /\ pc[r] = "saveAggregate" =>
       /\ Presented(r).bound => out[r] = Complete
       /\ out[r].state = "COMPLETED" => out[r] = Complete
  /\ \A d \in Steps(plan[r]) :
       Presented(r).bound /\ Presented(r).meets[d] \in satisfied[r] => Landed(plan[r], d)
  /\ ~Presented(r).bound => \A d \in 1..(index[r] - 1) : Landed(plan[r], d)

ResultsOK ==
  /\ \A k \in StepKeys : stepResult[k].state = "COMPLETED" => effects[k] > 0
  /\ aggregate.state = "COMPLETED" => aggregate = Complete

LocalsType == index \in [Requests -> Nat] /\ satisfied \in [Requests -> SUBSET Requirements]

PlanIInv ==
  /\ PlanTypeOK /\ LocalsType /\ ResultsOK
  /\ \A r \in Requests : RequestOK(r)

\* all rows, all requests that compared theirs, and all calls are about plan p
RowsAreOf(p) ==
  /\ newest # "none" => objectives[newest].plan = p
  /\ \A i \in PlanIds : /\ objectives[i].plan \in {NoPlan, p}
                        /\ objectives[i].state = "COMPLETED" => objectives[i].plan = p /\ AllLanded(p)
  /\ aggregate.state = "COMPLETED" => AllLanded(p)
PresentsOnly(r, p) ==
  /\ newest = "none" => plan[r] = p
  /\ copy[r].plan \in {NoPlan, p}
  /\ copy[r].id # "none" => newest # "none"
  /\ pc[r] \in Bound \cup {"create"} => plan[r] = p
  /\ pc[r] = "compare" /\ copy[r].plan = NoPlan => plan[r] = p
  /\ out[r].state = "COMPLETED" => plan[r] = p /\ AllLanded(p)
CallsAreOf(p) == \A k \in StepKeys : calls[k] > 0 => \E i \in Steps(p) : k = StepKey(p, i)

SinglePlan(p) ==
  RowsAreOf(p) /\ CallsAreOf(p) /\ \A r \in Requests : PresentsOnly(r, p)

SinglePlanIInv == \E p \in DOMAIN Plans : SinglePlan(p)

-----------------------------------------------------------------------------
(* Plans                                                                     *)

LEMMA PlanFacts ==
  ASSUME PlanAssumption, NEW p \in DOMAIN Plans
  PROVE  /\ Len(Plans[p].steps) \in Nat \ {0}
         /\ Steps(p) = 1..Len(Plans[p].steps)
         /\ \A i \in Steps(p) :
              /\ StepKey(p, i) \in StepKeys
              /\ Refusals[StepKey(p, i)[2]] \subseteq {"BLOCKED", "APPROVAL_REQUIRED"}
              /\ Plans[p].depends[i] \subseteq 1..(i - 1)
         /\ DOMAIN Plans[p].meets = Steps(p)
         /\ Plans[p].bound \in BOOLEAN
         /\ Plans[p].bound => /\ Plans[p].requires = Range(Plans[p].meets)
                              /\ \A i, j \in Steps(p) : Plans[p].meets[i] = Plans[p].meets[j] => i = j
<1>1. Plans[p] \in Range(Plans)
  BY DEF Range
<1>2. Plans[p].steps \in Seq(DOMAIN Refusals)
  BY <1>1 DEF PlanAssumption
<1>9. Len(Plans[p].steps) \in 1..5
  BY <1>1 DEF PlanAssumption
<1>3. Steps(p) = 1..Len(Plans[p].steps)
  BY <1>2 DEF Steps
<1>4. ASSUME NEW i \in Steps(p)
      PROVE  /\ StepKey(p, i) \in StepKeys
             /\ Refusals[StepKey(p, i)[2]] \subseteq {"BLOCKED", "APPROVAL_REQUIRED"}
             /\ Plans[p].depends[i] \subseteq 1..(i - 1)
  <2>1. StepKey(p, i) \in {<<k, Plans[p].steps[j]>> : k, j \in Steps(p)}
    BY DEF StepKey
  <2>2. StepKey(p, i) \in StepKeys
    BY <2>1 DEF StepKeys
  <2>3. Plans[p].steps[i] \in Range(Plans[p].steps)
    BY DEF Range, Steps
  <2>4. StepKey(p, i)[2] = Plans[p].steps[i]
    BY DEF StepKey
  <2>5. Plans[p].depends[i] \subseteq 1..(i - 1)
    BY <1>1, <1>3 DEF PlanAssumption
  <2> QED BY <1>1, <2>2, <2>3, <2>4, <2>5 DEF PlanAssumption
<1>5. DOMAIN Plans[p].meets = Steps(p) /\ Plans[p].bound \in BOOLEAN
  BY <1>1 DEF PlanAssumption, Steps
<1>6. Plans[p].bound => Plans[p].requires = Range(Plans[p].meets) /\ IsInjective(Plans[p].meets)
  BY <1>1 DEF PlanAssumption
<1>7. Plans[p].bound => \A i, j \in Steps(p) : Plans[p].meets[i] = Plans[p].meets[j] => i = j
  BY <1>5, <1>6 DEF IsInjective
<1>8. Len(Plans[p].steps) \in Nat \ {0}
  BY <1>9
<1> QED BY <1>8, <1>3, <1>4, <1>5, <1>6, <1>7

LEMMA RequirementIs ==
  ASSUME PlanAssumption, NEW p \in DOMAIN Plans, NEW i \in Steps(p)
  PROVE  Plans[p].meets[i] \in Range(Plans[p].meets) /\ Range(Plans[p].meets) \subseteq Requirements
<1>1. Plans[p].meets[i] \in Range(Plans[p].meets)
  BY PlanFacts DEF Range
<1>2. Range(Plans[p].meets) \subseteq Requirements
  BY DEF Requirements
<1> QED BY <1>1, <1>2

-----------------------------------------------------------------------------
(* What a step leaves alone                                                  *)

EffectsStay == \A k \in StepKeys : effects[k] > 0 => effects'[k] > 0

\* the locals of a request that does not take the step
Rests(r) ==
  /\ pc'[r] = pc[r] /\ plan'[r] = plan[r] /\ copy'[r] = copy[r] /\ out'[r] = out[r]
  /\ index'[r] = index[r] /\ satisfied'[r] = satisfied[r]

LEMMA LandedStays ==
  ASSUME PlanAssumption, EffectsStay, NEW p \in DOMAIN Plans, NEW i \in Steps(p), Landed(p, i)
  PROVE  effects'[StepKey(p, i)] > 0
BY PlanFacts DEF EffectsStay, Landed

\* What is said of a request that rests stays so.
LEMMA RestingKeeps ==
  ASSUME PlanAssumption, PlanTypeOK, LocalsType, EffectsStay,
         NEW r \in Requests, RequestOK(r), Rests(r)
  PROVE  RequestOK(r)'
<1> DEFINE p == plan[r]
<1>1. p \in DOMAIN Plans /\ plan'[r] = p
  BY DEF PlanTypeOK, Rests
<1>2. Prerequisites(p, index[r]) \subseteq Steps(p) \/ pc[r] # "step"
  BY <1>1, PlanFacts DEF Prerequisites, RequestOK, Stepping
<1>3. index[r] \in 1..(Len(Plans[p].steps) + 1)
  BY DEF PlanTypeOK, Presented
<1>4. 1..(index[r] - 1) \subseteq Steps(p)
  BY <1>1, <1>3, PlanFacts
<1>5. \A i \in Steps(p) : Landed(p, i) => effects'[StepKey(p, i)] > 0
  BY <1>1, LandedStays
<1>6. Plans[plan'[r]] = Plans[p]
  BY <1>1
<1> QED
  BY <1>1, <1>2, <1>4, <1>5, <1>6 DEF RequestOK, Rests, Landed, Presented, Prerequisites, StepKey, Steps

LEMMA StepKeeps ==
  ASSUME PlanAssumption, PlanIInv, NEW r \in Requests,
         PlanTypeOK', LocalsType', ResultsOK', EffectsStay,
         \A s \in Requests \ {r} : Rests(s), RequestOK(r)'
  PROVE  PlanIInv'
<1>1. \A s \in Requests : RequestOK(s)'
  BY RestingKeeps DEF PlanIInv
<1> QED BY <1>1 DEF PlanIInv

-----------------------------------------------------------------------------
(* The steps                                                                 *)

\* The end of a call.
LEMMA UnwoundKeeps ==
  ASSUME PlanAssumption, PlanIInv, NEW r \in Requests, Unwind(r),
         NEW to \in {"done", "crashed"}, Goto(r, to),
         NEW res \in Outcomes, out' = [out EXCEPT ![r] = res], UNCHANGED <<plan, stepVars>>,
         objectives' \in [PlanIds -> [state : {"none", "PROPOSED"} \cup {o.state : o \in Outcomes},
                                      plan : DOMAIN Plans \cup {NoPlan}]],
         newest' \in PlanIds \cup {"none"}, aggregate' \in Outcomes, crashes' \in Nat,
         aggregate'.state = "COMPLETED" => aggregate' = Complete
  PROVE  PlanIInv'
<1>1. LocalsType'
  BY DEF PlanIInv, LocalsType, Unwind
<1>2. plan'[r] \in DOMAIN Plans /\ Len(Plans[plan'[r]].steps) \in Nat
  BY PlanFacts DEF PlanIInv, PlanTypeOK
<1>3. \A s \in Requests : /\ index'[s] \in 1..(Len(Plans[plan'[s]].steps) + 1)
                          /\ satisfied'[s] \subseteq Range(Plans[plan'[s]].meets)
  BY <1>2 DEF PlanIInv, PlanTypeOK, LocalsType, Unwind, Presented
<1>4. PlanTypeOK'
  BY <1>3 DEF PlanIInv, PlanTypeOK, Unwind, Goto, stepVars, NoCopy, Running, Presented
<1>5. ResultsOK' /\ EffectsStay
  BY DEF PlanIInv, ResultsOK, stepVars, EffectsStay
<1>6. \A s \in Requests \ {r} : Rests(s)
  BY DEF Rests, Unwind, Goto, PlanIInv, PlanTypeOK, LocalsType
<1>7. RequestOK(r)'
  BY <1>2 DEF RequestOK, Unwind, Goto, PlanIInv, PlanTypeOK, LocalsType, NoCopy, Unwound, Stepping,
              Bound, Presented
<1> QED BY <1>1, <1>4, <1>5, <1>6, <1>7, StepKeeps

LEMMA LookupKeeps ==
  ASSUME PlanAssumption, PlanIInv, NEW r \in Requests, Lookup(r), UNCHANGED crashes
  PROVE  PlanIInv'
<1>1. LocalsType' /\ ResultsOK' /\ EffectsStay
  BY DEF PlanIInv, LocalsType, ResultsOK, EffectsStay, Lookup, loopVars, stepVars, planVars
<1>2. \A s \in Requests \ {r} : Rests(s)
  BY DEF Rests, Lookup, Goto, PlanIInv, PlanTypeOK, LocalsType, loopVars
<1>3. PlanTypeOK'
  BY DEF PlanIInv, PlanTypeOK, Lookup, Goto, stepVars, planVars, loopVars, NoCopy, Running, Presented
<1>4. RequestOK(r)'
  BY DEF PlanAssumption, PlanIInv, PlanTypeOK, LocalsType, Lookup, Goto, stepVars, planVars,
         loopVars, NoCopy, RequestOK, Unwound, Stepping, Bound, Presented, PlanIds, Landed, Steps
<1> QED BY <1>1, <1>2, <1>3, <1>4, StepKeeps

\* A request that goes on with a plan of its own row.
LEMMA GoingKeeps ==
  ASSUME PlanAssumption, PlanIInv, NEW r \in Requests, NEW to \in Running, Goto(r, to),
         UNCHANGED <<aggregate, stepVars, plan, loopVars, out, crashes>>,
         objectives' \in [PlanIds -> [state : {"none", "PROPOSED"} \cup {o.state : o \in Outcomes},
                                      plan : DOMAIN Plans \cup {NoPlan}]],
         newest' \in PlanIds \cup {"none"},
         copy' \in [Requests -> [id : PlanIds \cup {"none"}, plan : DOMAIN Plans \cup {NoPlan}]],
         \A s \in Requests \ {r} : copy'[s] = copy[s],
         copy'[r].id = "none" => copy'[r].plan = NoPlan,
         to \in Bound => copy'[r].id \in PlanIds /\ copy'[r].plan = plan[r],
         to \in Unwound => pc[r] \in Unwound,
         to \in Stepping => index[r] \in Steps(plan[r]),
         to = "step" => \A d \in Prerequisites(plan[r], index[r]) : Landed(plan[r], d),
         to # "stop",
         to = "saveAggregate" => pc[r] = "stop"
  PROVE  PlanIInv'
<1>1. LocalsType' /\ ResultsOK' /\ EffectsStay
  BY DEF PlanIInv, LocalsType, ResultsOK, EffectsStay, loopVars, stepVars
<1>2. \A s \in Requests \ {r} : Rests(s)
  BY DEF Rests, Goto, PlanIInv, PlanTypeOK, LocalsType, loopVars
<1>3. PlanTypeOK'
  BY DEF PlanIInv, PlanTypeOK, Goto, stepVars, loopVars, Presented
<1>4. RequestOK(r)'
  BY DEF PlanIInv, PlanTypeOK, LocalsType, Goto, stepVars, Prerequisites,
         loopVars, RequestOK, Presented, Landed, Steps, StepKey, Unwound, Bound
<1> QED BY <1>1, <1>2, <1>3, <1>4, StepKeeps

LEMMA CompareKeeps ==
  ASSUME PlanAssumption, PlanIInv, NEW r \in Requests, Compare(r), UNCHANGED crashes
  PROVE  PlanIInv'
<1>1. UNCHANGED <<objectives, newest, aggregate, stepVars>> /\ pc[r] = "compare"
  BY DEF Compare, planVars
<1>2. ASSUME NEW res \in Outcomes, Return(r, res)
      PROVE  PlanIInv'
  <2>1. /\ Unwind(r) /\ Goto(r, "done") /\ out' = [out EXCEPT ![r] = res]
        /\ UNCHANGED <<plan, stepVars>>
    BY <1>1, <1>2 DEF Return
  <2>2. /\ objectives' \in [PlanIds -> [state : {"none", "PROPOSED"} \cup {o.state : o \in Outcomes},
                                        plan : DOMAIN Plans \cup {NoPlan}]]
        /\ newest' \in PlanIds \cup {"none"} /\ aggregate' \in Outcomes /\ crashes' \in Nat
        /\ aggregate'.state = "COMPLETED" => aggregate' = Complete
    BY <1>1 DEF PlanIInv, PlanTypeOK, ResultsOK
  <2> QED BY <2>1, <2>2, UnwoundKeeps
<1>3. CASE Return(r, Outcome("BLOCKED", FALSE))
  BY <1>2, <1>3 DEF Outcome, Outcomes
<1>4. CASE Return(r, aggregate)
  BY <1>2, <1>4 DEF PlanIInv, PlanTypeOK
<1>5. ASSUME NEW to \in {"next", "create"}, Goto(r, to), UNCHANGED <<plan, copy, loopVars, out>>,
             to = "next" => copy[r].plan = plan[r]
      PROVE  PlanIInv'
  <2>1. /\ objectives' \in [PlanIds -> [state : {"none", "PROPOSED"} \cup {o.state : o \in Outcomes},
                                        plan : DOMAIN Plans \cup {NoPlan}]]
        /\ newest' \in PlanIds \cup {"none"}
        /\ copy' \in [Requests -> [id : PlanIds \cup {"none"}, plan : DOMAIN Plans \cup {NoPlan}]]
        /\ \A s \in Requests \ {r} : copy'[s] = copy[s]
    BY <1>1, <1>5 DEF PlanIInv, PlanTypeOK
  <2>2. /\ copy'[r].id = "none" => copy'[r].plan = NoPlan
        /\ to \in Bound => copy'[r].id \in PlanIds /\ copy'[r].plan = plan[r]
    BY <1>5 DEF PlanIInv, PlanTypeOK, RequestOK, Bound, PlanAssumption
  <2>3. /\ to \in Running /\ (to \in Unwound => pc[r] \in Unwound) /\ to \notin Stepping
        /\ to # "step" /\ to # "stop" /\ to # "saveAggregate"
    BY <1>1 DEF Running, Unwound, Stepping
  <2>4. UNCHANGED <<aggregate, stepVars, plan, loopVars, out, crashes>>
    BY <1>1, <1>5
  <2> QED BY <1>5, <2>1, <2>2, <2>3, <2>4, GoingKeeps
<1> QED BY <1>3, <1>4, <1>5 DEF Compare

LEMMA CreateKeeps ==
  ASSUME PlanAssumption, PlanIInv, NEW r \in Requests, Create(r), UNCHANGED crashes
  PROVE  PlanIInv'
<1>1. PICK id \in PlanIds : /\ SaveObjective(id, [state |-> "PROPOSED", plan |-> plan[r]])
                            /\ copy' = [copy EXCEPT ![r] = [id |-> id, plan |-> plan[r]]]
  BY DEF Create, PlanIds
<1>2. /\ pc[r] = "create" /\ Goto(r, "next")
      /\ UNCHANGED <<aggregate, stepVars, plan, loopVars, out, crashes>>
  BY DEF Create
<1>3. plan[r] \in DOMAIN Plans /\ id # "none"
  BY DEF PlanIInv, PlanTypeOK, PlanIds, PlanAssumption
<1>4. /\ objectives' \in [PlanIds -> [state : {"none", "PROPOSED"} \cup {o.state : o \in Outcomes},
                                      plan : DOMAIN Plans \cup {NoPlan}]]
      /\ newest' \in PlanIds \cup {"none"}
  BY <1>1, <1>3 DEF SaveObjective, PlanIInv, PlanTypeOK
<1>5. /\ copy' \in [Requests -> [id : PlanIds \cup {"none"}, plan : DOMAIN Plans \cup {NoPlan}]]
      /\ \A s \in Requests \ {r} : copy'[s] = copy[s]
      /\ copy'[r].id = id /\ copy'[r].plan = plan[r]
  BY <1>1, <1>3 DEF PlanIInv, PlanTypeOK
<1>6. "next" \in Running /\ "next" \notin Unwound /\ "next" \notin Stepping
  BY DEF Running, Unwound, Stepping
<1> QED BY <1>2, <1>3, <1>4, <1>5, <1>6, GoingKeeps

\* A request whose row, copy and loop stay, and that goes to another place.
LEMMA MovingKeeps ==
  ASSUME PlanAssumption, PlanIInv, NEW r \in Requests, NEW to \in Bound, Goto(r, to),
         pc[r] \in Bound,
         UNCHANGED <<planVars, stepVars, plan, copy, loopVars, out, crashes>>,
         to \in Stepping => index[r] \in Steps(plan[r]),
         to = "step" => \A d \in Prerequisites(plan[r], index[r]) : Landed(plan[r], d),
         to # "stop",
         to = "saveAggregate" => pc[r] = "stop"
  PROVE  PlanIInv'
<1>1. /\ objectives' \in [PlanIds -> [state : {"none", "PROPOSED"} \cup {o.state : o \in Outcomes},
                                      plan : DOMAIN Plans \cup {NoPlan}]]
      /\ newest' \in PlanIds \cup {"none"}
      /\ copy' \in [Requests -> [id : PlanIds \cup {"none"}, plan : DOMAIN Plans \cup {NoPlan}]]
      /\ \A s \in Requests \ {r} : copy'[s] = copy[s]
  BY DEF PlanIInv, PlanTypeOK, planVars
<1>2. /\ copy'[r].id = "none" => copy'[r].plan = NoPlan
      /\ to \in Bound => copy'[r].id \in PlanIds /\ copy'[r].plan = plan[r]
  BY DEF PlanIInv, RequestOK
<1>3. to \in Running /\ to \notin Unwound
  BY DEF Bound, Running, Unwound
<1>4. UNCHANGED <<aggregate, stepVars, plan, loopVars, out, crashes>>
  BY DEF planVars
<1> QED BY <1>1, <1>2, <1>3, <1>4, GoingKeeps

\* What a ready step rests on has had its effect.
LEMMA ReadyMeansLanded ==
  ASSUME PlanAssumption, PlanIInv, NEW r \in Requests, index[r] \in Steps(plan[r]), Ready(r)
  PROVE  \A d \in Prerequisites(plan[r], index[r]) : Landed(plan[r], d)
<1>1. plan[r] \in DOMAIN Plans
  BY DEF PlanIInv, PlanTypeOK
<1>2. CASE ~Presented(r).bound
  BY <1>2 DEF PlanIInv, RequestOK, Presented, Prerequisites
<1>3. CASE Presented(r).bound
  <2> SUFFICES ASSUME NEW d \in Presented(r).depends[index[r]]
               PROVE  Landed(plan[r], d)
    BY <1>3 DEF Presented, Prerequisites
  <2>1. d \in Steps(plan[r]) /\ StepKey(plan[r], d) \in StepKeys
    BY <1>1, PlanFacts DEF Presented
  <2>2. DependencyState(r, d) = "COMPLETED"
    BY <1>3 DEF Ready
  <2>3. CASE stepResult[StepKey(plan[r], d)] # Nothing
    BY <2>1, <2>2, <2>3 DEF DependencyState, PlanIInv, ResultsOK, Landed
  <2>4. CASE stepResult[StepKey(plan[r], d)] = Nothing
    <3>1. Presented(r).meets[d] \in satisfied[r]
      BY <2>2, <2>4 DEF DependencyState
    <3> QED BY <1>3, <2>1, <3>1 DEF PlanIInv, RequestOK
  <2> QED BY <2>3, <2>4
<1> QED BY <1>2, <1>3

LEMMA EnterKeeps ==
  ASSUME PlanAssumption, PlanIInv, NEW r \in Requests, Enter(r), UNCHANGED crashes
  PROVE  PlanIInv'
<1>1. \A d \in Prerequisites(plan[r], index[r]) : Landed(plan[r], d)
  BY ReadyMeansLanded DEF Enter, More
<1>2. /\ Goto(r, "step") /\ pc[r] = "next" /\ index[r] \in Steps(plan[r])
      /\ UNCHANGED <<planVars, stepVars, plan, copy, loopVars, out, crashes>>
  BY DEF Enter, More
<1>3. "step" \in Bound /\ "next" \in Bound
  BY DEF Bound
<1> QED BY <1>1, <1>2, <1>3, MovingKeeps

LEMMA StepResumesKeeps ==
  ASSUME PlanAssumption, PlanIInv, NEW r \in Requests, StepResumes(r), UNCHANGED crashes
  PROVE  PlanIInv'
<1>1. /\ Goto(r, "verify") /\ pc[r] = "step"
      /\ UNCHANGED <<planVars, stepVars, plan, copy, loopVars, out, crashes>>
  BY DEF StepResumes
<1>2. "step" \in Bound /\ "verify" \in Bound /\ "step" \in Stepping
  BY DEF Bound, Stepping
<1>3. index[r] \in Steps(plan[r])
  BY <1>1, <1>2 DEF PlanIInv, RequestOK
<1> QED BY <1>1, <1>2, <1>3, MovingKeeps

LEMMA SkipKeeps ==
  ASSUME PlanAssumption, PlanIInv, NEW r \in Requests, Skip(r), UNCHANGED crashes
  PROVE  PlanIInv'
<1>1. /\ Presented(r).bound /\ pc[r] = "next" /\ index[r] \in Steps(plan[r])
      /\ index' = [index EXCEPT ![r] = @ + 1]
      /\ UNCHANGED <<planVars, stepVars, pc, plan, copy, satisfied, failed, seen, out, crashes>>
  BY DEF Skip, More, Ready
<1>2. plan[r] \in DOMAIN Plans /\ Steps(plan[r]) = 1..Len(Plans[plan[r]].steps)
  BY PlanFacts DEF PlanIInv, PlanTypeOK
<1>3. LocalsType' /\ ResultsOK' /\ EffectsStay
  BY <1>1 DEF PlanIInv, LocalsType, ResultsOK, EffectsStay, stepVars, planVars
<1>4. \A s \in Requests \ {r} : Rests(s)
  BY <1>1 DEF Rests, PlanIInv, PlanTypeOK, LocalsType
<1>5. index'[r] \in 1..(Len(Presented(r).steps) + 1)
  BY <1>1, <1>2, PlanFacts DEF Presented, PlanIInv, LocalsType
<1>6. PlanTypeOK'
  BY <1>1, <1>4, <1>5 DEF PlanIInv, PlanTypeOK, stepVars, planVars, Presented, Rests
<1>7. RequestOK(r)'
  BY <1>1 DEF PlanIInv, PlanTypeOK, stepVars, planVars, RequestOK, Presented, Landed, Steps, StepKey,
              Unwound, Stepping
<1> QED BY <1>3, <1>4, <1>6, <1>7, StepKeeps

LEMMA StepCallsKeeps ==
  ASSUME PlanAssumption, PlanIInv, NEW r \in Requests, StepCalls(r), UNCHANGED crashes
  PROVE  PlanIInv'
<1>1. pc[r] = "step" /\ index[r] \in Steps(plan[r]) /\ plan[r] \in DOMAIN Plans
  BY DEF StepCalls, PlanIInv, PlanTypeOK, RequestOK, Stepping
<1>2. PICK k \in StepKeys : k = Key(r)
  BY <1>1, PlanFacts DEF Key
<1>3. PICK kind \in Kinds, landed \in {0, 1} :
        /\ calls' = [calls EXCEPT ![k] = @ + 1]
        /\ seen' = [seen EXCEPT ![r] = kind]
        /\ effects' = [effects EXCEPT ![k] = @ + landed]
  BY <1>2 DEF StepCalls
<1>4. /\ Goto(r, "record")
      /\ UNCHANGED <<planVars, stepResult, recorded, plan, copy, index, satisfied, failed, out, crashes>>
  BY DEF StepCalls
<1>5. EffectsStay /\ effects' \in [StepKeys -> Nat] /\ calls' \in [StepKeys -> Nat]
  BY <1>2, <1>3 DEF EffectsStay, PlanIInv, PlanTypeOK
<1>6. LocalsType' /\ ResultsOK'
  BY <1>4, <1>5 DEF PlanIInv, LocalsType, ResultsOK, EffectsStay, planVars
<1>7. \A s \in Requests \ {r} : Rests(s)
  BY <1>4 DEF Rests, PlanIInv, PlanTypeOK, LocalsType, Goto
<1>8. PlanTypeOK'
  BY <1>3, <1>4, <1>5 DEF PlanIInv, PlanTypeOK, planVars, Presented, Goto, Running
<1>9. RequestOK(r)'
  <2>1. \A i \in Steps(plan[r]) : Landed(plan[r], i) => effects'[StepKey(plan[r], i)] > 0
    BY <1>1, <1>5, LandedStays
  <2>2. 1..(index[r] - 1) \subseteq Steps(plan[r])
    BY <1>1, PlanFacts DEF PlanIInv, LocalsType
  <2> QED BY <1>1, <1>4, <2>1, <2>2
          DEF PlanIInv, PlanTypeOK, Goto, RequestOK, Presented, Landed, Steps, StepKey, Unwound, Stepping,
              Bound
<1> QED BY <1>5, <1>6, <1>7, <1>8, <1>9, StepKeeps

LEMMA StepRecordsKeeps ==
  ASSUME PlanAssumption, PlanIInv, NEW r \in Requests, StepRecords(r), UNCHANGED crashes
  PROVE  PlanIInv'
<1>1. pc[r] = "record" /\ index[r] \in Steps(plan[r]) /\ plan[r] \in DOMAIN Plans
  BY DEF StepRecords, PlanIInv, PlanTypeOK, RequestOK, Stepping
<1>2. PICK k \in StepKeys : k = Key(r)
  BY <1>1, PlanFacts DEF Key
<1>3. /\ recorded' = [recorded EXCEPT ![k] = seen[r]] /\ Goto(r, "verify")
      /\ UNCHANGED <<planVars, stepResult, calls, effects, plan, copy, loopVars, out, crashes>>
  BY <1>2 DEF StepRecords
<1>4. LocalsType' /\ ResultsOK' /\ EffectsStay
  BY <1>3 DEF PlanIInv, LocalsType, ResultsOK, EffectsStay, planVars, loopVars
<1>5. \A s \in Requests \ {r} : Rests(s)
  BY <1>3 DEF Rests, PlanIInv, PlanTypeOK, LocalsType, Goto, loopVars
<1>6. PlanTypeOK'
  BY <1>2, <1>3 DEF PlanIInv, PlanTypeOK, planVars, loopVars, Presented, Goto, Running
<1>7. RequestOK(r)'
  BY <1>1, <1>3 DEF PlanIInv, PlanTypeOK, Goto, RequestOK, Presented, Landed, Steps, StepKey,
                    Unwound, Stepping, Bound, loopVars
<1> QED BY <1>4, <1>5, <1>6, <1>7, StepKeeps

\* The step's Kernel has answered: COMPLETED only of what has had its effect.
LEMMA AnsweredKeeps ==
  ASSUME PlanAssumption, PlanIInv, NEW r \in Requests, pc[r] \in {"step", "verify"},
         NEW res \in Outcomes, Answered(r, res),
         UNCHANGED <<planVars, recorded, calls, effects, crashes>>,
         stepResult' \in [StepKeys -> Outcomes],
         \A k \in StepKeys : stepResult'[k].state = "COMPLETED" => effects[k] > 0,
         res.state = "COMPLETED" => Landed(plan[r], index[r])
  PROVE  PlanIInv'
<1>1. PICK p \in DOMAIN Plans : p = plan[r]
  BY DEF PlanIInv, PlanTypeOK
<1>2. index[r] \in Steps(p) /\ Steps(p) = 1..Len(Plans[p].steps)
  BY <1>1, PlanFacts DEF PlanIInv, RequestOK, Stepping
<1>3. UNCHANGED <<plan, copy>> /\ seen' = [seen EXCEPT ![r] = "none"]
  BY DEF Answered
<1>4. failed' \in [Requests -> BOOLEAN]
  BY DEF Answered, PlanIInv, PlanTypeOK
<1>5. ResultsOK' /\ EffectsStay
  BY DEF PlanIInv, ResultsOK, EffectsStay, planVars
<1>6. CASE res.state = "COMPLETED" \/ Plans[p].bound
  <2>1. PICK more \in SUBSET Requirements :
          /\ satisfied' = [satisfied EXCEPT ![r] = @ \cup more]
          /\ more \subseteq {Plans[p].meets[index[r]]}
          /\ more # {} => res.state = "COMPLETED" /\ Plans[p].bound
    <3>1. CASE res.state = "COMPLETED" /\ Plans[p].bound
      <4>1. satisfied' = [satisfied EXCEPT ![r] = @ \cup {Plans[p].meets[index[r]]}]
        BY <1>1, <3>1 DEF Answered, Presented
      <4>2. {Plans[p].meets[index[r]]} \in SUBSET Requirements
        BY <1>2, RequirementIs
      <4> QED BY <3>1, <4>1, <4>2
    <3>2. CASE ~(res.state = "COMPLETED" /\ Plans[p].bound)
      <4>1. satisfied' = satisfied
        BY <1>1, <1>6, <3>2 DEF Answered, Presented, PlanIInv, LocalsType
      <4>2. satisfied' = [satisfied EXCEPT ![r] = @ \cup {}]
        BY <4>1 DEF PlanIInv, LocalsType
      <4> QED BY <4>2
    <3> QED BY <3>1, <3>2
  <2>2. index' = [index EXCEPT ![r] = @ + 1] /\ Goto(r, "next") /\ UNCHANGED out
    BY <1>1, <1>6 DEF Answered, Presented
  <2>3. LocalsType'
    BY <2>1, <2>2 DEF PlanIInv, LocalsType
  <2>4. \A s \in Requests \ {r} : Rests(s)
    BY <1>3, <2>1, <2>2 DEF Rests, PlanIInv, PlanTypeOK, LocalsType, Goto
  <2>5. /\ index'[r] \in 1..(Len(Plans[p].steps) + 1)
        /\ satisfied'[r] \subseteq Range(Plans[p].meets)
    <3>1. satisfied[r] \subseteq Range(Plans[p].meets)
      BY <1>1 DEF PlanIInv, PlanTypeOK, Presented
    <3>2. Plans[p].meets[index[r]] \in Range(Plans[p].meets)
      BY <1>2, RequirementIs
    <3> QED BY <1>2, <2>1, <2>2, <3>1, <3>2, PlanFacts DEF PlanIInv, LocalsType
  <2>6. PlanTypeOK'
    BY <1>1, <1>3, <1>4, <2>2, <2>4, <2>5
    DEF PlanIInv, PlanTypeOK, planVars, Presented, Goto, Running, Rests
  <2>7. RequestOK(r)'
    <3>1. \A d \in Steps(p) : Plans[p].bound /\ Plans[p].meets[d] \in satisfied'[r] => Landed(p, d)
      <4> SUFFICES ASSUME NEW d \in Steps(p), Plans[p].bound, Plans[p].meets[d] \in satisfied'[r]
                   PROVE  Landed(p, d)
        OBVIOUS
      <4>1. CASE Plans[p].meets[d] \in satisfied[r]
        BY <1>1, <4>1 DEF PlanIInv, RequestOK, Presented
      <4>2. CASE Plans[p].meets[d] \notin satisfied[r]
        <5>1. Plans[p].meets[d] = Plans[p].meets[index[r]] /\ res.state = "COMPLETED"
          BY <2>1, <4>2 DEF PlanIInv, LocalsType
        <5> QED BY <1>1, <1>2, <5>1, PlanFacts
      <4> QED BY <4>1, <4>2
    <3>2. ~Plans[p].bound => \A d \in 1..(index'[r] - 1) : Landed(p, d)
      <4> SUFFICES ASSUME ~Plans[p].bound, NEW d \in 1..(index'[r] - 1)
                   PROVE  Landed(p, d)
        OBVIOUS
      <4>1. index'[r] = index[r] + 1
        BY <2>2 DEF PlanIInv, LocalsType
      <4>2. d \in 1..(index[r] - 1) \/ d = index[r]
        BY <1>2, <4>1, PlanFacts
      <4>3. \A e \in 1..(index[r] - 1) : Landed(p, e)
        BY <1>1 DEF PlanIInv, RequestOK, Presented
      <4> QED BY <1>1, <1>6, <4>2, <4>3
    <3>3. effects' = effects /\ plan'[r] = p /\ pc'[r] = "next" /\ copy' = copy
      BY <1>1, <1>3, <2>2 DEF Goto, PlanIInv, PlanTypeOK
    <3>4. pc[r] \in Bound /\ "next" \in Bound /\ "next" \notin Unwound /\ "next" \notin Stepping
      BY DEF Bound, Unwound, Stepping
    <3>5. copy[r].id \in PlanIds /\ copy[r].plan = p /\ (copy[r].id = "none" => copy[r].plan = NoPlan)
      BY <1>1, <3>4 DEF PlanIInv, RequestOK
    <3> QED BY <3>1, <3>2, <3>3, <3>4, <3>5 DEF RequestOK, Presented, Landed
  <2> QED BY <1>5, <2>3, <2>4, <2>6, <2>7, StepKeeps
<1>7. CASE ~(res.state = "COMPLETED" \/ Plans[p].bound)
  <2>1. out' = [out EXCEPT ![r] = res] /\ Goto(r, "stop") /\ UNCHANGED <<satisfied, index>>
    BY <1>1, <1>7 DEF Answered, Presented
  <2>2. LocalsType'
    BY <2>1 DEF PlanIInv, LocalsType
  <2>3. \A s \in Requests \ {r} : Rests(s)
    BY <1>3, <2>1 DEF Rests, PlanIInv, PlanTypeOK, LocalsType, Goto
  <2>4. PlanTypeOK'
    BY <1>3, <1>4, <2>1 DEF PlanIInv, PlanTypeOK, planVars, Presented, Goto, Running
  <2>5. RequestOK(r)'
    BY <1>1, <1>3, <1>7, <2>1 DEF PlanIInv, PlanTypeOK, RequestOK, Presented, Goto, Landed, Bound, Unwound,
       Stepping, Steps, StepKey
  <2> QED BY <1>5, <2>2, <2>3, <2>4, <2>5, StepKeeps
<1> QED BY <1>6, <1>7

LEMMA StepRefusedKeeps ==
  ASSUME PlanAssumption, PlanIInv, NEW r \in Requests, StepRefused(r), UNCHANGED crashes
  PROVE  PlanIInv'
<1>1. pc[r] = "step" /\ index[r] \in Steps(plan[r]) /\ plan[r] \in DOMAIN Plans
  BY DEF StepRefused, PlanIInv, PlanTypeOK, RequestOK, Stepping
<1>2. PICK s \in {"BLOCKED", "APPROVAL_REQUIRED"} : Answered(r, Outcome(s, FALSE))
  BY <1>1, PlanFacts DEF StepRefused, Key
<1>3. Outcome(s, FALSE) \in Outcomes /\ Outcome(s, FALSE).state # "COMPLETED"
  BY DEF Outcomes, Outcome
<1>4. /\ UNCHANGED <<planVars, recorded, calls, effects, crashes>>
      /\ stepResult' \in [StepKeys -> Outcomes]
      /\ \A k \in StepKeys : stepResult'[k].state = "COMPLETED" => effects[k] > 0
  BY DEF StepRefused, stepVars, PlanIInv, PlanTypeOK, ResultsOK
<1> QED BY <1>1, <1>2, <1>3, <1>4, AnsweredKeeps

LEMMA StepKnownKeeps ==
  ASSUME PlanAssumption, PlanIInv, NEW r \in Requests, StepKnown(r), UNCHANGED crashes
  PROVE  PlanIInv'
<1>1. pc[r] = "step" /\ index[r] \in Steps(plan[r]) /\ plan[r] \in DOMAIN Plans
  BY DEF StepKnown, PlanIInv, PlanTypeOK, RequestOK, Stepping
<1>2. PICK k \in StepKeys : k = Key(r) /\ k = StepKey(plan[r], index[r])
  BY <1>1, PlanFacts DEF Key
<1>3. \/ Answered(r, stepResult[k]) /\ UNCHANGED stepResult
      \/ /\ effects[k] > 0 /\ Answered(r, Complete)
         /\ stepResult' = [stepResult EXCEPT ![k] = Complete]
      \/ Answered(r, Outcome("EXECUTING", FALSE)) /\ UNCHANGED stepResult
  BY <1>2 DEF StepKnown, Complete
<1>4. UNCHANGED <<planVars, recorded, calls, effects, crashes>>
  BY DEF StepKnown
<1>5. Complete \in Outcomes /\ Complete.state = "COMPLETED"
  BY DEF Complete, Outcome, Outcomes
<1>6. /\ stepResult' \in [StepKeys -> Outcomes]
      /\ \A i \in StepKeys : stepResult'[i].state = "COMPLETED" => effects[i] > 0
  <2>1. /\ stepResult \in [StepKeys -> Outcomes]
        /\ \A i \in StepKeys : stepResult[i].state = "COMPLETED" => effects[i] > 0
    BY DEF PlanIInv, PlanTypeOK, ResultsOK
  <2>2. CASE UNCHANGED stepResult
    BY <2>1, <2>2
  <2>3. CASE effects[k] > 0 /\ stepResult' = [stepResult EXCEPT ![k] = Complete]
    BY <1>5, <2>1, <2>3
  <2> QED BY <1>3, <2>2, <2>3
<1>7. PICK res \in Outcomes : /\ Answered(r, res)
                              /\ res.state = "COMPLETED" => effects[k] > 0
  <2>1. Outcome("EXECUTING", FALSE) \in Outcomes /\ Outcome("EXECUTING", FALSE).state # "COMPLETED"
    BY DEF Outcome, Outcomes
  <2>2. stepResult[k] \in Outcomes /\ (stepResult[k].state = "COMPLETED" => effects[k] > 0)
    BY DEF PlanIInv, PlanTypeOK, ResultsOK
  <2> QED BY <1>3, <1>5, <2>1, <2>2
<1> QED BY <1>1, <1>2, <1>4, <1>6, <1>7, AnsweredKeeps DEF Landed

LEMMA StepVerifiesKeeps ==
  ASSUME PlanAssumption, PlanIInv, NEW r \in Requests, StepVerifies(r), UNCHANGED crashes
  PROVE  PlanIInv'
<1>1. pc[r] = "verify" /\ index[r] \in Steps(plan[r]) /\ plan[r] \in DOMAIN Plans
  BY DEF StepVerifies, PlanIInv, PlanTypeOK, RequestOK, Stepping
<1>2. PICK k \in StepKeys : k = Key(r) /\ k = StepKey(plan[r], index[r])
  BY <1>1, PlanFacts DEF Key
<1>3. PICK res \in Outcomes : /\ Answered(r, res)
                              /\ stepResult' = [stepResult EXCEPT ![k] = res]
                              /\ res.state = "COMPLETED" => effects[k] > 0
  <2> DEFINE unverified == IF recorded[k] = "ambiguous" THEN Outcome("OBSERVED", FALSE)
                           ELSE Outcome("FAILED", recorded[k] = "succeeded")
  <2>1. PICK res \in {Complete, unverified} :
          /\ res = Complete => effects[k] > 0
          /\ stepResult' = [stepResult EXCEPT ![k] = res]
          /\ Answered(r, res)
    BY <1>2 DEF StepVerifies, Complete
  <2>2. Complete \in Outcomes
    BY DEF Complete, Outcome, Outcomes
  <2>3. unverified \in Outcomes /\ unverified.state # "COMPLETED"
    BY DEF Outcome, Outcomes
  <2> HIDE DEF unverified
  <2> QED BY <2>1, <2>2, <2>3
<1>4. UNCHANGED <<planVars, recorded, calls, effects, crashes>>
  BY DEF StepVerifies
<1>5. /\ stepResult' \in [StepKeys -> Outcomes]
      /\ \A i \in StepKeys : stepResult'[i].state = "COMPLETED" => effects[i] > 0
  BY <1>2, <1>3 DEF PlanIInv, PlanTypeOK, ResultsOK
<1> QED BY <1>1, <1>2, <1>3, <1>4, <1>5, AnsweredKeeps DEF Landed

\* The row a copy is written back to keeps its type.
LEMMA SaveCopyType ==
  ASSUME PlanIInv, NEW r \in Requests, pc[r] \in Bound,
         NEW state \in {"none", "PROPOSED"} \cup {o.state : o \in Outcomes}, SaveCopy(r, state)
  PROVE  /\ objectives' \in [PlanIds -> [state : {"none", "PROPOSED"} \cup {o.state : o \in Outcomes},
                                         plan : DOMAIN Plans \cup {NoPlan}]]
         /\ newest' \in PlanIds \cup {"none"}
BY DEF SaveCopy, SaveObjective, PlanIInv, PlanTypeOK, RequestOK

LEMMA StopKeeps ==
  ASSUME PlanAssumption, PlanIInv, NEW r \in Requests, Stop(r), UNCHANGED crashes
  PROVE  PlanIInv'
<1>1. /\ SaveCopy(r, out[r].state) /\ Goto(r, "saveAggregate") /\ pc[r] = "stop"
      /\ UNCHANGED <<aggregate, stepVars, plan, copy, loopVars, out, crashes>>
  BY DEF Stop
<1>2. out[r].state \in {o.state : o \in Outcomes} /\ "stop" \in Bound
  BY DEF PlanIInv, PlanTypeOK, Bound
<1>3. /\ objectives' \in [PlanIds -> [state : {"none", "PROPOSED"} \cup {o.state : o \in Outcomes},
                                      plan : DOMAIN Plans \cup {NoPlan}]]
      /\ newest' \in PlanIds \cup {"none"}
  BY <1>1, <1>2, SaveCopyType
<1>4. /\ copy' \in [Requests -> [id : PlanIds \cup {"none"}, plan : DOMAIN Plans \cup {NoPlan}]]
      /\ \A s \in Requests \ {r} : copy'[s] = copy[s]
      /\ copy'[r].id = "none" => copy'[r].plan = NoPlan
      /\ copy'[r].id \in PlanIds /\ copy'[r].plan = plan[r]
  BY <1>1, <1>2 DEF PlanIInv, PlanTypeOK, RequestOK
<1>5. /\ "saveAggregate" \in Running /\ "saveAggregate" \notin Unwound
      /\ "saveAggregate" \notin Stepping
  BY DEF Running, Unwound, Stepping
<1> QED BY <1>1, <1>3, <1>4, <1>5, GoingKeeps

LEMMA CloseKeeps ==
  ASSUME PlanAssumption, PlanIInv, NEW r \in Requests, Close(r), UNCHANGED crashes
  PROVE  PlanIInv'
<1>1. pc[r] = "next" /\ "next" \in Bound /\ UNCHANGED <<aggregate, stepVars, crashes>>
  BY DEF Close, Bound
<1>2. \A state \in {"FAILED", "BLOCKED", "COMPLETED"} :
        /\ state \in {"none", "PROPOSED"} \cup {o.state : o \in Outcomes}
        /\ Outcome(state, FALSE) \in Outcomes
  <2> SUFFICES ASSUME NEW state \in {"FAILED", "BLOCKED", "COMPLETED"}
               PROVE  /\ state \in {o.state : o \in Outcomes}
                      /\ Outcome(state, FALSE) \in Outcomes
    OBVIOUS
  <2>1. Outcome(state, FALSE) \in Outcomes /\ Outcome(state, FALSE).state = state
    BY DEF Outcome, Outcomes
  <2> QED BY <2>1
<1>3. CASE Presented(r).bound /\ ~RequirementsSatisfied(r)
  <2>1. PICK state \in {"FAILED", "BLOCKED"} :
          SaveCopy(r, state) /\ Return(r, Outcome(state, FALSE))
    BY <1>3 DEF Close, ReturnIncomplete
  <2>2. /\ objectives' \in [PlanIds -> [state : {"none", "PROPOSED"} \cup {o.state : o \in Outcomes},
                                        plan : DOMAIN Plans \cup {NoPlan}]]
        /\ newest' \in PlanIds \cup {"none"}
    BY <1>1, <1>2, <2>1, SaveCopyType
  <2>3. /\ Unwind(r) /\ Goto(r, "done") /\ out' = [out EXCEPT ![r] = Outcome(state, FALSE)]
        /\ UNCHANGED <<plan, stepVars>>
    BY <1>1, <2>1 DEF Return
  <2>4. /\ aggregate' \in Outcomes /\ crashes' \in Nat
        /\ aggregate'.state = "COMPLETED" => aggregate' = Complete
    BY <1>1 DEF PlanIInv, PlanTypeOK, ResultsOK
  <2>5. Outcome(state, FALSE) \in Outcomes
    BY <1>2
  <2> QED BY <2>2, <2>3, <2>4, <2>5, UnwoundKeeps
<1>4. CASE ~(Presented(r).bound /\ ~RequirementsSatisfied(r))
  <2>1. /\ SaveCopy(r, "COMPLETED") /\ out' = [out EXCEPT ![r] = Complete]
        /\ Goto(r, "saveAggregate") /\ UNCHANGED <<plan, copy, loopVars>>
    BY <1>4 DEF Close, Complete
  <2>2. /\ objectives' \in [PlanIds -> [state : {"none", "PROPOSED"} \cup {o.state : o \in Outcomes},
                                        plan : DOMAIN Plans \cup {NoPlan}]]
        /\ newest' \in PlanIds \cup {"none"}
    BY <1>1, <1>2, <2>1, SaveCopyType
  <2>3. LocalsType' /\ ResultsOK' /\ EffectsStay
    BY <1>1, <2>1 DEF PlanIInv, LocalsType, ResultsOK, EffectsStay, stepVars, loopVars
  <2>4. \A s \in Requests \ {r} : Rests(s)
    BY <2>1 DEF Rests, PlanIInv, PlanTypeOK, LocalsType, Goto, loopVars
  <2>5. Complete \in Outcomes
    BY <1>2 DEF Complete
  <2>6. PlanTypeOK'
    BY <1>1, <2>1, <2>2, <2>5 DEF PlanIInv, PlanTypeOK, stepVars, loopVars, Presented, Goto, Running
  <2>7. RequestOK(r)'
    <3>1. /\ pc'[r] = "saveAggregate" /\ plan'[r] = plan[r] /\ out'[r] = Complete
          /\ UNCHANGED <<copy, index, satisfied, effects>>
      BY <1>1, <2>1 DEF PlanIInv, PlanTypeOK, Goto, stepVars, loopVars
    <3>2. RequestOK(r)
      BY DEF PlanIInv
    <3> QED BY <1>1, <3>1, <3>2 DEF RequestOK, Presented, Landed, Bound, Unwound, Stepping, Steps, StepKey
  <2> QED BY <2>3, <2>4, <2>6, <2>7, StepKeeps
<1> QED BY <1>3, <1>4

LEMMA SaveAggregateKeeps ==
  ASSUME PlanAssumption, PlanIInv, NEW r \in Requests, SaveAggregate(r), UNCHANGED crashes
  PROVE  PlanIInv'
<1>1. PICK res \in Outcomes : res = out[r]
  BY DEF PlanIInv, PlanTypeOK
<1>2. /\ pc[r] = "saveAggregate" /\ aggregate' = res
      /\ Unwind(r) /\ Goto(r, "done") /\ out' = [out EXCEPT ![r] = res]
      /\ UNCHANGED <<plan, objectives, newest, stepVars, crashes>>
  BY <1>1 DEF SaveAggregate, Return
<1>3. /\ objectives' \in [PlanIds -> [state : {"none", "PROPOSED"} \cup {o.state : o \in Outcomes},
                                      plan : DOMAIN Plans \cup {NoPlan}]]
      /\ newest' \in PlanIds \cup {"none"} /\ aggregate' \in Outcomes /\ crashes' \in Nat
      /\ aggregate'.state = "COMPLETED" => aggregate' = Complete
  BY <1>1, <1>2 DEF PlanIInv, PlanTypeOK, RequestOK
<1> QED BY <1>2, <1>3, UnwoundKeeps

LEMMA CrashKeeps ==
  ASSUME PlanAssumption, PlanIInv, NEW r \in Requests, Crash(r)
  PROVE  PlanIInv'
<1>1. /\ Unwind(r) /\ Goto(r, "crashed") /\ out' = [out EXCEPT ![r] = Nothing]
      /\ UNCHANGED <<plan, stepVars, objectives, newest, aggregate>> /\ crashes' = crashes + 1
  BY DEF Crash, planVars
<1>2. Nothing \in Outcomes
  BY DEF Nothing, Outcomes
<1>3. /\ objectives' \in [PlanIds -> [state : {"none", "PROPOSED"} \cup {o.state : o \in Outcomes},
                                      plan : DOMAIN Plans \cup {NoPlan}]]
      /\ newest' \in PlanIds \cup {"none"} /\ aggregate' \in Outcomes /\ crashes' \in Nat
      /\ aggregate'.state = "COMPLETED" => aggregate' = Complete
  BY <1>1 DEF PlanIInv, PlanTypeOK, ResultsOK
<1> QED BY <1>1, <1>2, <1>3, UnwoundKeeps

LEMMA ReplayKeeps ==
  ASSUME PlanAssumption, PlanIInv, NEW r \in Requests, NEW p \in DOMAIN Plans, Replay(r, p)
  PROVE  PlanIInv'
<1>1. /\ plan' = [plan EXCEPT ![r] = p] /\ out' = [out EXCEPT ![r] = Nothing] /\ Goto(r, "lookup")
      /\ pc[r] \in Unwound /\ UNCHANGED <<planVars, stepVars, copy, loopVars, crashes>>
  BY DEF Replay, Unwound
<1>2. index[r] = 1 /\ satisfied[r] = {} /\ Nothing \in Outcomes
  BY <1>1 DEF PlanIInv, RequestOK, Nothing, Outcomes
<1>3. LocalsType' /\ ResultsOK' /\ EffectsStay
  BY <1>1 DEF PlanIInv, LocalsType, ResultsOK, EffectsStay, stepVars, loopVars, planVars
<1>4. \A s \in Requests \ {r} : Rests(s)
  BY <1>1 DEF Rests, PlanIInv, PlanTypeOK, LocalsType, Goto, loopVars
<1>5. index'[r] \in 1..(Len(Plans[p].steps) + 1) /\ satisfied'[r] \subseteq Range(Plans[p].meets)
  BY <1>1, <1>2, PlanFacts DEF loopVars
<1>6. \A s \in Requests : /\ index'[s] \in 1..(Len(Plans[plan'[s]].steps) + 1)
                          /\ satisfied'[s] \subseteq Range(Plans[plan'[s]].meets)
  BY <1>1, <1>4, <1>5 DEF PlanIInv, PlanTypeOK, Presented, Rests
<1>7. PlanTypeOK'
  BY <1>1, <1>2, <1>6 DEF PlanIInv, PlanTypeOK, stepVars, loopVars, planVars, Presented, Goto, Running
<1>8. RequestOK(r)'
  BY <1>1, <1>2 DEF PlanIInv, PlanTypeOK, RequestOK, Presented, Goto, Bound, Stepping, stepVars,
     loopVars, planVars
<1> QED BY <1>3, <1>4, <1>7, <1>8, StepKeeps

LEMMA PlanInitOK ==
  ASSUME PlanAssumption, Init
  PROVE  PlanIInv
<1>1. \A r \in Requests : plan[r] \in DOMAIN Plans /\ Len(Plans[plan[r]].steps) \in Nat
  BY PlanFacts DEF Init
<1>2. PlanTypeOK
  BY <1>1 DEF Init, PlanTypeOK, NoObjective, Nothing, NoCopy, Outcomes, Running, Presented
<1>3. LocalsType /\ ResultsOK
  BY DEF Init, LocalsType, ResultsOK, Nothing
<1>4. \A r \in Requests : RequestOK(r)
  BY DEF Init, RequestOK, Bound, Stepping, NoCopy, Nothing
<1> QED BY <1>2, <1>3, <1>4 DEF PlanIInv

LEMMA PlanNextKeeps ==
  ASSUME PlanAssumption, PlanIInv, [Next]_vars
  PROVE  PlanIInv'
<1>1. CASE UNCHANGED vars
  <2>1. PlanTypeOK' /\ LocalsType' /\ ResultsOK' /\ EffectsStay
    BY <1>1 DEF vars, planVars, stepVars, localVars, loopVars, PlanIInv, PlanTypeOK, LocalsType,
                ResultsOK, EffectsStay, Presented
  <2>2. \A r \in Requests : Rests(r)
    BY <1>1 DEF Rests, vars, localVars, loopVars
  <2>3. \A r \in Requests : RequestOK(r)'
    BY <2>1, <2>2, RestingKeeps DEF PlanIInv
  <2> QED BY <2>1, <2>3 DEF PlanIInv
<1>2. ASSUME NEW r \in Requests, SequenceStep(r), UNCHANGED crashes
      PROVE  PlanIInv'
  BY <1>2, LookupKeeps, CompareKeeps, CreateKeeps, SkipKeeps, EnterKeeps, StepRefusedKeeps,
     StepKnownKeeps, StepCallsKeeps, StepRecordsKeeps, StepResumesKeeps, StepVerifiesKeeps,
     StopKeeps, CloseKeeps, SaveAggregateKeeps
  DEF SequenceStep
<1> QED BY <1>1, <1>2, CrashKeeps, ReplayKeeps DEF Next

-----------------------------------------------------------------------------
(* Whatever the callers present                                              *)

\* What a request knows at each place it can be, and what the stored Results of the
\* steps say, is so (Kernel.run_sequence).
THEOREM PlanInvariance == Spec => []PlanIInv
<1>1. Init => PlanIInv
  BY PlanAssumption, PlanInitOK
<1>2. PlanIInv /\ [Next]_vars => PlanIInv'
  BY PlanAssumption, PlanNextKeeps
<1> QED BY <1>1, <1>2, PTL DEF Spec

\* Every reachable state is well typed; in particular no request is past its plan's
\* end or holds another plan's requirements.
THEOREM PlanTypeCorrect == Spec => []PlanTypeOK
<1>1. PlanIInv => PlanTypeOK
  BY DEF PlanIInv
<1> QED BY <1>1, PlanInvariance, PTL

\* No step reaches its executor before every step it rests on has had its effect.
THEOREM DependentsDoWait == Spec => DependentsWait
<1>1. PlanIInv => (\A r \in Requests : StepCalls(r) =>
                     \A d \in Prerequisites(plan[r], index[r]) : effects[StepKey(plan[r], d)] > 0)
  BY DEF PlanIInv, RequestOK, StepCalls, Landed
<1>2. PlanIInv /\ [Next]_vars =>
        [\A r \in Requests : StepCalls(r) =>
           \A d \in Prerequisites(plan[r], index[r]) : effects[StepKey(plan[r], d)] > 0]_vars
  BY <1>1
<1> QED BY <1>2, PlanInvariance, PTL DEF DependentsWait, Spec

-----------------------------------------------------------------------------
(* One plan: callers that present the same plan until one is stored            *)

LEMMA AllLandedStays ==
  ASSUME PlanAssumption, EffectsStay, NEW p \in DOMAIN Plans, AllLanded(p)
  PROVE  AllLanded(p)'
BY LandedStays DEF AllLanded, Landed, Steps, StepKey

LEMMA RestingPresents ==
  ASSUME PlanAssumption, NEW p \in DOMAIN Plans, EffectsStay, NEW s \in Requests,
         PresentsOnly(s, p), Rests(s), newest' = "none" => newest = "none"
  PROVE  PresentsOnly(s, p)'
BY AllLandedStays DEF PresentsOnly, Rests

\* A step that changes no row, no Result and no call, of a request that is past the
\* comparison before and after it and says nothing of COMPLETED that it did not say.
LEMMA QuietSingle ==
  ASSUME PlanAssumption, PlanIInv, NEW p \in DOMAIN Plans, SinglePlan(p), NEW r \in Requests,
         UNCHANGED <<planVars, calls, effects, plan, copy>>, NEW to \in Bound, Goto(r, to),
         pc[r] \in Bound, \A s \in Requests \ {r} : Rests(s),
         out'[r].state = "COMPLETED" => out'[r] = out[r]
  PROVE  SinglePlan(p)'
<1>1. EffectsStay /\ newest' = newest
  BY DEF EffectsStay, planVars
<1>2. RowsAreOf(p)' /\ CallsAreOf(p)'
  BY DEF SinglePlan, RowsAreOf, CallsAreOf, AllLanded, Landed, planVars, Steps, StepKey
<1>3. \A s \in Requests \ {r} : PresentsOnly(s, p)'
  BY <1>1, RestingPresents DEF SinglePlan
<1>4. PresentsOnly(r, p)'
  <2>1. PresentsOnly(r, p) /\ pc'[r] = to /\ to # "compare"
    BY DEF SinglePlan, Goto, PlanIInv, PlanTypeOK, Bound
  <2>2. AllLanded(p) => AllLanded(p)'
    BY <1>1, AllLandedStays
  <2> QED BY <1>1, <2>1, <2>2 DEF PresentsOnly
<1> QED BY <1>2, <1>3, <1>4 DEF SinglePlan

LEMMA AnsweredSingle ==
  ASSUME PlanAssumption, PlanIInv, NEW p \in DOMAIN Plans, SinglePlan(p), NEW r \in Requests,
         pc[r] \in {"step", "verify"}, NEW res, Answered(r, res),
         UNCHANGED <<planVars, calls, effects>>
  PROVE  SinglePlan(p)'
<1>1. PICK to \in {"next", "stop"} : Goto(r, to)
  BY DEF Answered
<1>2. \A s \in Requests \ {r} : Rests(s)
  BY DEF Answered, Rests, Goto, PlanIInv, PlanTypeOK, LocalsType
<1>3. out'[r].state = "COMPLETED" => out'[r] = out[r]
  BY DEF Answered, PlanIInv, PlanTypeOK
<1>4. to \in Bound /\ pc[r] \in Bound /\ UNCHANGED <<plan, copy>>
  BY DEF Answered, Bound
<1> QED BY <1>1, <1>2, <1>3, <1>4, QuietSingle

\* A call that ends, with a Result that says COMPLETED of p only when p is done.
LEMMA UnwoundSingle ==
  ASSUME PlanAssumption, PlanIInv, NEW p \in DOMAIN Plans, SinglePlan(p), NEW r \in Requests,
         Unwind(r), NEW to \in {"done", "crashed"}, Goto(r, to),
         NEW res, out' = [out EXCEPT ![r] = res], UNCHANGED <<plan, stepVars>>,
         RowsAreOf(p)', newest' = "none" => newest = "none",
         res.state = "COMPLETED" => plan[r] = p /\ AllLanded(p)
  PROVE  SinglePlan(p)'
<1>1. EffectsStay /\ CallsAreOf(p)'
  BY DEF EffectsStay, stepVars, SinglePlan, CallsAreOf, Steps, StepKey
<1>2. \A s \in Requests \ {r} : Rests(s)
  BY DEF Rests, Unwind, Goto, PlanIInv, PlanTypeOK, LocalsType
<1>3. \A s \in Requests \ {r} : PresentsOnly(s, p)'
  BY <1>1, <1>2, RestingPresents DEF SinglePlan
<1>4. PresentsOnly(r, p)'
  <2>1. /\ pc'[r] = to /\ out'[r] = res /\ copy'[r] = NoCopy /\ plan'[r] = plan[r]
        /\ to \notin Bound /\ to # "compare" /\ to # "create"
    BY DEF Unwind, Goto, PlanIInv, PlanTypeOK, Bound
  <2>2. AllLanded(p) => AllLanded(p)'
    BY <1>1, AllLandedStays
  <2> QED BY <2>1, <2>2 DEF PresentsOnly, SinglePlan, NoCopy
<1> QED BY <1>1, <1>3, <1>4 DEF SinglePlan

LEMMA LookupSingle ==
  ASSUME PlanAssumption, PlanIInv, NEW p \in DOMAIN Plans, SinglePlan(p), NEW r \in Requests,
         Lookup(r)
  PROVE  SinglePlan(p)'
<1>1. EffectsStay /\ CallsAreOf(p)' /\ RowsAreOf(p)' /\ newest' = newest
  BY DEF Lookup, EffectsStay, stepVars, planVars, SinglePlan, CallsAreOf, RowsAreOf, AllLanded, Landed,
         Steps, StepKey
<1>2. \A s \in Requests \ {r} : Rests(s)
  BY DEF Rests, Lookup, Goto, PlanIInv, PlanTypeOK, LocalsType, loopVars
<1>3. \A s \in Requests \ {r} : PresentsOnly(s, p)'
  BY <1>1, <1>2, RestingPresents DEF SinglePlan
<1>4. PresentsOnly(r, p)'
  <2>1. /\ pc'[r] = "compare" /\ plan'[r] = plan[r] /\ out'[r] = out[r]
        /\ copy'[r] = IF newest = "none" THEN NoCopy
                      ELSE [id |-> newest, plan |-> objectives[newest].plan]
    BY DEF Lookup, Goto, PlanIInv, PlanTypeOK
  <2>2. (AllLanded(p) => AllLanded(p)') /\ p # NoPlan
    BY <1>1, AllLandedStays DEF PlanAssumption
  <2>3. "compare" \notin Bound \cup {"create"}
    BY DEF Bound
  <2> QED BY <1>1, <2>1, <2>2, <2>3 DEF PresentsOnly, SinglePlan, RowsAreOf, NoCopy
<1> QED BY <1>1, <1>3, <1>4 DEF SinglePlan

LEMMA CompareSingle ==
  ASSUME PlanAssumption, PlanIInv, NEW p \in DOMAIN Plans, SinglePlan(p), NEW r \in Requests,
         Compare(r)
  PROVE  SinglePlan(p)'
<1>1. /\ UNCHANGED <<planVars, stepVars>> /\ pc[r] = "compare" /\ PresentsOnly(r, p)
      /\ plan[r] \in DOMAIN Plans /\ plan[r] # NoPlan
  BY DEF Compare, SinglePlan, PlanIInv, PlanTypeOK, PlanAssumption
<1>2. EffectsStay /\ CallsAreOf(p)' /\ RowsAreOf(p)' /\ newest' = newest
  BY <1>1 DEF EffectsStay, stepVars, planVars, SinglePlan, CallsAreOf, RowsAreOf, AllLanded, Landed,
         Steps, StepKey
<1>3. ASSUME NEW res, Return(r, res), res.state = "COMPLETED" => plan[r] = p /\ AllLanded(p)
      PROVE  SinglePlan(p)'
  BY <1>1, <1>2, <1>3, UnwoundSingle DEF Return
<1>4. CASE Return(r, Outcome("BLOCKED", FALSE))
  BY <1>3, <1>4 DEF Outcome
<1>5. CASE Return(r, aggregate) /\ copy[r].plan = plan[r]
  <2>1. aggregate.state = "COMPLETED" => plan[r] = p /\ AllLanded(p)
    BY <1>1, <1>5 DEF PresentsOnly, SinglePlan, RowsAreOf
  <2> QED BY <1>3, <1>5, <2>1
<1>6. ASSUME NEW to \in {"next", "create"}, Goto(r, to), UNCHANGED <<plan, copy, loopVars, out>>,
             copy[r].plan \in {NoPlan, plan[r]}
      PROVE  SinglePlan(p)'
  <2>1. \A s \in Requests \ {r} : Rests(s)
    BY <1>6 DEF Rests, Goto, PlanIInv, PlanTypeOK, loopVars
  <2>2. \A s \in Requests \ {r} : PresentsOnly(s, p)'
    BY <1>2, <2>1, RestingPresents DEF SinglePlan
  <2>3. plan[r] = p
    BY <1>1, <1>6 DEF PresentsOnly
  <2>4. pc'[r] = to /\ to # "compare" /\ (AllLanded(p) => AllLanded(p)')
    BY <1>2, <1>6, AllLandedStays DEF Goto, PlanIInv, PlanTypeOK
  <2>5. PresentsOnly(r, p)'
    BY <1>1, <1>2, <1>6, <2>3, <2>4 DEF PresentsOnly
  <2> QED BY <1>2, <2>2, <2>5 DEF SinglePlan
<1> QED BY <1>4, <1>5, <1>6 DEF Compare

LEMMA CreateSingle ==
  ASSUME PlanAssumption, PlanIInv, NEW p \in DOMAIN Plans, SinglePlan(p), NEW r \in Requests,
         Create(r)
  PROVE  SinglePlan(p)'
<1>1. pc[r] = "create" /\ plan[r] = p
  BY DEF Create, SinglePlan, PresentsOnly
<1>2. PICK id \in PlanIds : /\ objectives' = [objectives EXCEPT ![id] = [state |-> "PROPOSED", plan |-> p]]
                            /\ newest' = id
                            /\ copy' = [copy EXCEPT ![r] = [id |-> id, plan |-> p]]
  BY <1>1 DEF Create, PlanIds, SaveObjective
<1>3. Goto(r, "next") /\ UNCHANGED <<aggregate, stepVars, plan, loopVars, out>> /\ id # "none"
  BY DEF Create, PlanIds, PlanAssumption
<1>4. EffectsStay /\ CallsAreOf(p)' /\ (AllLanded(p) => AllLanded(p)')
  BY <1>3 DEF EffectsStay, stepVars, SinglePlan, CallsAreOf, AllLanded, Landed, Steps, StepKey
<1>5. RowsAreOf(p)'
  BY <1>2, <1>3, <1>4 DEF SinglePlan, RowsAreOf, PlanIInv, PlanTypeOK
<1>6. \A s \in Requests \ {r} : Rests(s)
  BY <1>2, <1>3 DEF Rests, Goto, PlanIInv, PlanTypeOK, loopVars
<1>7. \A s \in Requests \ {r} : PresentsOnly(s, p)'
  BY <1>2, <1>3, <1>4, <1>6, RestingPresents DEF SinglePlan
<1>8. PresentsOnly(r, p)'
  BY <1>1, <1>2, <1>3, <1>4 DEF PresentsOnly, SinglePlan, Goto, PlanIInv, PlanTypeOK, Bound
<1> QED BY <1>4, <1>5, <1>7, <1>8 DEF SinglePlan

LEMMA StepCallsSingle ==
  ASSUME PlanAssumption, PlanIInv, NEW p \in DOMAIN Plans, SinglePlan(p), NEW r \in Requests,
         StepCalls(r)
  PROVE  SinglePlan(p)'
<1>1. pc[r] = "step" /\ plan[r] = p /\ index[r] \in Steps(p)
  BY DEF StepCalls, SinglePlan, PresentsOnly, Bound, PlanIInv, RequestOK, Stepping
<1>2. PICK k \in StepKeys : k = StepKey(p, index[r])
  BY <1>1, PlanFacts
<1>3. PICK landed \in {0, 1} : /\ calls' = [calls EXCEPT ![k] = @ + 1]
                               /\ effects' = [effects EXCEPT ![k] = @ + landed]
  BY <1>1, <1>2 DEF StepCalls, Key
<1>4. Goto(r, "record") /\ UNCHANGED <<planVars, plan, copy, index, satisfied, out>>
  BY DEF StepCalls
<1>5. EffectsStay
  BY <1>2, <1>3 DEF EffectsStay, PlanIInv, PlanTypeOK
<1>6. AllLanded(p) => AllLanded(p)'
  BY <1>5, AllLandedStays
<1>7. RowsAreOf(p)'
  BY <1>4, <1>6 DEF SinglePlan, RowsAreOf, planVars
<1>8. CallsAreOf(p)'
  BY <1>1, <1>2, <1>3 DEF SinglePlan, CallsAreOf, PlanIInv, PlanTypeOK, Steps, StepKey
<1>9. \A s \in Requests \ {r} : Rests(s)
  BY <1>4 DEF Rests, Goto, PlanIInv, PlanTypeOK
<1>10. \A s \in Requests \ {r} : PresentsOnly(s, p)'
  BY <1>4, <1>5, <1>9, RestingPresents DEF SinglePlan, planVars
<1>11. PresentsOnly(r, p)'
  BY <1>1, <1>4, <1>6 DEF PresentsOnly, SinglePlan, Goto, PlanIInv, PlanTypeOK, planVars
<1> QED BY <1>7, <1>8, <1>10, <1>11 DEF SinglePlan

\* The row of p that a request writes its copy back to.
LEMMA SaveCopySingle ==
  ASSUME PlanAssumption, PlanIInv, NEW p \in DOMAIN Plans, SinglePlan(p), NEW r \in Requests,
         pc[r] \in Bound, NEW state, SaveCopy(r, state), UNCHANGED <<aggregate, stepVars>>,
         state = "COMPLETED" => AllLanded(p)
  PROVE  RowsAreOf(p)' /\ newest' # "none"
<1>1. copy[r].id \in PlanIds /\ copy[r].plan = p /\ copy[r].id # "none"
  BY DEF PlanIInv, RequestOK, SinglePlan, PresentsOnly, PlanIds, PlanAssumption
<1>2. AllLanded(p) => AllLanded(p)'
  BY DEF AllLanded, Landed, stepVars, Steps, StepKey
<1>3. /\ objectives' = [objectives EXCEPT ![copy[r].id] = [state |-> state, plan |-> p]]
      /\ newest' = copy[r].id
  BY <1>1 DEF SaveCopy, SaveObjective
<1> QED BY <1>1, <1>2, <1>3 DEF RowsAreOf, SinglePlan, PlanIInv, PlanTypeOK

\* A request that wrote its row goes on to store its Result.
LEMMA SavingSingle ==
  ASSUME PlanAssumption, PlanIInv, NEW p \in DOMAIN Plans, SinglePlan(p), NEW r \in Requests,
         pc[r] \in Bound, Goto(r, "saveAggregate"), RowsAreOf(p)', newest' # "none",
         UNCHANGED <<stepVars, plan, copy, loopVars>>,
         NEW res, out' = [out EXCEPT ![r] = res],
         res.state = "COMPLETED" => AllLanded(p)
  PROVE  SinglePlan(p)'
<1>1. EffectsStay /\ CallsAreOf(p)'
  BY DEF EffectsStay, stepVars, SinglePlan, CallsAreOf, Steps, StepKey
<1>2. \A s \in Requests \ {r} : Rests(s)
  BY DEF Rests, Goto, PlanIInv, PlanTypeOK, LocalsType, loopVars
<1>3. \A s \in Requests \ {r} : PresentsOnly(s, p)'
  BY <1>1, <1>2, RestingPresents DEF SinglePlan
<1>4. PresentsOnly(r, p)'
  <2>1. /\ pc'[r] = "saveAggregate" /\ out'[r] = res /\ plan[r] = p /\ plan'[r] = plan[r]
        /\ copy'[r] = copy[r]
    BY DEF Goto, PlanIInv, PlanTypeOK, SinglePlan, PresentsOnly
  <2>2. AllLanded(p) => AllLanded(p)'
    BY <1>1, AllLandedStays
  <2> QED BY <2>1, <2>2 DEF PresentsOnly, SinglePlan
<1> QED BY <1>1, <1>3, <1>4 DEF SinglePlan

LEMMA StopSingle ==
  ASSUME PlanAssumption, PlanIInv, NEW p \in DOMAIN Plans, SinglePlan(p), NEW r \in Requests,
         Stop(r)
  PROVE  SinglePlan(p)'
<1>1. /\ pc[r] = "stop" /\ "stop" \in Bound /\ SaveCopy(r, out[r].state) /\ Goto(r, "saveAggregate")
      /\ UNCHANGED <<aggregate, stepVars, plan, copy, loopVars, out>>
  BY DEF Stop, Bound
<1>2. out[r].state # "COMPLETED"
  BY <1>1 DEF PlanIInv, RequestOK
<1>3. RowsAreOf(p)' /\ newest' # "none"
  BY <1>1, <1>2, SaveCopySingle
<1>4. PICK res : res = out[r]
  OBVIOUS
<1>5. out' = [out EXCEPT ![r] = res]
  BY <1>1, <1>4 DEF PlanIInv, PlanTypeOK
<1> QED BY <1>1, <1>2, <1>3, <1>4, <1>5, SavingSingle

\* A plan that is closed as complete has had all its effects.
LEMMA CompleteMeansLanded ==
  ASSUME PlanAssumption, PlanIInv, NEW r \in Requests, index[r] = Len(Presented(r).steps) + 1,
         ~(Presented(r).bound /\ ~RequirementsSatisfied(r))
  PROVE  AllLanded(plan[r])
<1>1. PICK p \in DOMAIN Plans : p = plan[r]
  BY DEF PlanIInv, PlanTypeOK
<1>2. CASE ~Plans[p].bound
  <2>1. \A d \in 1..(index[r] - 1) : Landed(p, d)
    BY <1>1, <1>2 DEF PlanIInv, RequestOK, Presented
  <2>2. Steps(p) = 1..(index[r] - 1)
    BY <1>1, PlanFacts DEF Presented
  <2> QED BY <1>1, <2>1, <2>2 DEF AllLanded
<1>3. CASE Plans[p].bound
  <2>1. Plans[p].requires \subseteq satisfied[r]
    BY <1>1, <1>3 DEF RequirementsSatisfied, Presented
  <2>2. \A d \in Steps(p) : Plans[p].meets[d] \in satisfied[r]
    BY <1>3, <2>1, PlanFacts, RequirementIs
  <2> QED BY <1>1, <1>3, <2>2 DEF AllLanded, PlanIInv, RequestOK, Presented
<1> QED BY <1>2, <1>3

LEMMA CloseSingle ==
  ASSUME PlanAssumption, PlanIInv, NEW p \in DOMAIN Plans, SinglePlan(p), NEW r \in Requests,
         Close(r)
  PROVE  SinglePlan(p)'
<1>1. /\ pc[r] = "next" /\ "next" \in Bound /\ UNCHANGED <<aggregate, stepVars>>
      /\ index[r] = Len(Presented(r).steps) + 1
  BY DEF Close, Bound
<1>2. plan[r] = p
  BY <1>1 DEF SinglePlan, PresentsOnly
<1>3. CASE Presented(r).bound /\ ~RequirementsSatisfied(r)
  <2>1. PICK state \in {"FAILED", "BLOCKED"} :
          SaveCopy(r, state) /\ Return(r, Outcome(state, FALSE))
    BY <1>3 DEF Close, ReturnIncomplete
  <2>2. RowsAreOf(p)' /\ newest' # "none"
    BY <1>1, <2>1, SaveCopySingle
  <2> DEFINE res == Outcome(state, FALSE)
  <2>3. res.state # "COMPLETED"
    BY DEF Outcome
  <2>4. Unwind(r) /\ Goto(r, "done") /\ out' = [out EXCEPT ![r] = res] /\ UNCHANGED plan
    BY <2>1 DEF Return
  <2> HIDE DEF res
  <2> QED BY <1>1, <2>2, <2>3, <2>4, UnwoundSingle
<1>4. CASE ~(Presented(r).bound /\ ~RequirementsSatisfied(r))
  <2>1. /\ SaveCopy(r, "COMPLETED") /\ out' = [out EXCEPT ![r] = Complete]
        /\ Goto(r, "saveAggregate") /\ UNCHANGED <<plan, copy, loopVars>>
    BY <1>4 DEF Close, Complete
  <2>2. AllLanded(p)
    BY <1>1, <1>2, <1>4, CompleteMeansLanded
  <2>3. RowsAreOf(p)' /\ newest' # "none"
    BY <1>1, <2>1, <2>2, SaveCopySingle
  <2> QED BY <1>1, <2>1, <2>2, <2>3, SavingSingle
<1> QED BY <1>3, <1>4

LEMMA SaveAggregateSingle ==
  ASSUME PlanAssumption, PlanIInv, NEW p \in DOMAIN Plans, SinglePlan(p), NEW r \in Requests,
         SaveAggregate(r)
  PROVE  SinglePlan(p)'
<1>1. PICK res : res = out[r]
  OBVIOUS
<1>2. /\ Unwind(r) /\ Goto(r, "done") /\ out' = [out EXCEPT ![r] = res] /\ aggregate' = res
      /\ UNCHANGED <<plan, objectives, newest, stepVars>>
  BY <1>1 DEF SaveAggregate, Return
<1>3. res.state = "COMPLETED" => plan[r] = p /\ AllLanded(p)
  BY <1>1 DEF SinglePlan, PresentsOnly
<1>4. RowsAreOf(p)'
  BY <1>2, <1>3 DEF SinglePlan, RowsAreOf, AllLanded, Landed, stepVars, Steps, StepKey
<1> QED BY <1>2, <1>3, <1>4, UnwoundSingle

LEMMA CrashSingle ==
  ASSUME PlanAssumption, PlanIInv, NEW p \in DOMAIN Plans, SinglePlan(p), NEW r \in Requests,
         Crash(r)
  PROVE  SinglePlan(p)'
<1>1. /\ Unwind(r) /\ Goto(r, "crashed") /\ out' = [out EXCEPT ![r] = Nothing]
      /\ UNCHANGED <<plan, stepVars, objectives, newest, aggregate>>
  BY DEF Crash, planVars
<1>2. RowsAreOf(p)' /\ Nothing.state # "COMPLETED"
  BY <1>1 DEF SinglePlan, RowsAreOf, AllLanded, Landed, stepVars, Steps, StepKey, Nothing
<1>3. PICK res : res = Nothing
  OBVIOUS
<1> QED BY <1>1, <1>2, <1>3, UnwoundSingle

LEMMA ReplaySingle ==
  ASSUME PlanAssumption, ~Rebinds, PlanIInv, NEW p \in DOMAIN Plans, SinglePlan(p),
         NEW r \in Requests, NEW q \in DOMAIN Plans, Replay(r, q)
  PROVE  SinglePlan(p)'
<1>1. /\ plan' = [plan EXCEPT ![r] = q] /\ out' = [out EXCEPT ![r] = Nothing] /\ Goto(r, "lookup")
      /\ UNCHANGED <<planVars, stepVars, copy, loopVars>>
      /\ q = plan[r] \/ newest # "none"
  BY DEF Replay
<1>2. EffectsStay /\ CallsAreOf(p)' /\ RowsAreOf(p)' /\ newest' = newest
  BY <1>1 DEF EffectsStay, stepVars, planVars, SinglePlan, CallsAreOf, RowsAreOf, AllLanded, Landed,
         Steps, StepKey
<1>3. \A s \in Requests \ {r} : Rests(s)
  BY <1>1 DEF Rests, Goto, PlanIInv, PlanTypeOK, loopVars
<1>4. \A s \in Requests \ {r} : PresentsOnly(s, p)'
  BY <1>2, <1>3, RestingPresents DEF SinglePlan
<1>5. PresentsOnly(r, p)'
  BY <1>1, <1>2 DEF PresentsOnly, SinglePlan, Goto, PlanIInv, PlanTypeOK, Bound, Nothing
<1> QED BY <1>2, <1>4, <1>5 DEF SinglePlan

LEMMA PassingSingle ==
  ASSUME PlanAssumption, PlanIInv, NEW p \in DOMAIN Plans, SinglePlan(p), NEW r \in Requests,
         Skip(r) \/ Enter(r) \/ StepResumes(r) \/ StepRecords(r)
  PROVE  SinglePlan(p)'
<1>1. UNCHANGED <<planVars, calls, effects, plan, copy, out>> /\ pc[r] \in Bound
  BY DEF Skip, Enter, StepResumes, StepRecords, More, stepVars, Bound
<1>2. \A s \in Requests \ {r} : Rests(s)
  BY DEF Rests, Skip, Enter, StepResumes, StepRecords, Goto, PlanIInv, PlanTypeOK, LocalsType,
         loopVars
<1>3. PICK to \in Bound : Goto(r, to)
  <2>1. CASE Skip(r)
    BY <2>1 DEF Skip, More, Goto, Bound, PlanIInv, PlanTypeOK
  <2>2. CASE Enter(r) \/ StepResumes(r) \/ StepRecords(r)
    BY <2>2 DEF Enter, StepResumes, StepRecords, Bound
  <2> QED BY <2>1, <2>2
<1>4. out'[r] = out[r]
  BY <1>1
<1> QED BY <1>1, <1>2, <1>3, <1>4, QuietSingle

LEMMA ReportingSingle ==
  ASSUME PlanAssumption, PlanIInv, NEW p \in DOMAIN Plans, SinglePlan(p), NEW r \in Requests,
         StepRefused(r) \/ StepKnown(r) \/ StepVerifies(r)
  PROVE  SinglePlan(p)'
<1>1. pc[r] \in {"step", "verify"} /\ UNCHANGED <<planVars, calls, effects>>
  BY DEF StepRefused, StepKnown, StepVerifies, stepVars
<1>2. PICK res : Answered(r, res)
  BY DEF StepRefused, StepKnown, StepVerifies
<1> QED BY <1>1, <1>2, AnsweredSingle

LEMMA SinglePlanInit ==
  ASSUME PlanAssumption, ~Rebinds, Init
  PROVE  SinglePlanIInv
<1>1. PICK r \in Requests : TRUE
  BY DEF PlanAssumption
<1>2. PICK p \in DOMAIN Plans : p = plan[r]
  BY DEF Init
<1>3. \A s \in Requests : plan[s] = p
  BY <1>2 DEF Init
<1>4. RowsAreOf(p) /\ CallsAreOf(p)
  BY DEF Init, RowsAreOf, CallsAreOf, NoObjective, Nothing
<1>5. \A s \in Requests : PresentsOnly(s, p)
  BY <1>3 DEF Init, PresentsOnly, NoCopy, Nothing, Bound
<1> QED BY <1>4, <1>5 DEF SinglePlanIInv, SinglePlan

LEMMA SinglePlanNext ==
  ASSUME PlanAssumption, ~Rebinds, PlanIInv, SinglePlanIInv, [Next]_vars
  PROVE  SinglePlanIInv'
<1>1. PICK p \in DOMAIN Plans : SinglePlan(p)
  BY DEF SinglePlanIInv
<1>2. CASE UNCHANGED vars
  <2>1. EffectsStay /\ RowsAreOf(p)' /\ CallsAreOf(p)' /\ newest' = newest
    BY <1>1, <1>2 DEF SinglePlan, RowsAreOf, CallsAreOf, AllLanded, Landed, Steps, StepKey,
                      vars, planVars, stepVars, EffectsStay
  <2>2. \A r \in Requests : Rests(r)
    BY <1>2 DEF Rests, vars, localVars, loopVars
  <2>3. \A r \in Requests : PresentsOnly(r, p)'
    BY <1>1, <2>1, <2>2, RestingPresents DEF SinglePlan
  <2>4. SinglePlan(p)'
    BY <2>1, <2>3 DEF SinglePlan
  <2> QED BY <2>4 DEF SinglePlanIInv
<1>3. ASSUME NEW r \in Requests, SequenceStep(r), UNCHANGED crashes
      PROVE  SinglePlan(p)'
  BY <1>1, <1>3, LookupSingle, CompareSingle, CreateSingle, PassingSingle, ReportingSingle,
     StepCallsSingle, StopSingle, CloseSingle, SaveAggregateSingle DEF SequenceStep
<1>4. ASSUME NEW r \in Requests, Crash(r) \/ \E q \in DOMAIN Plans : Replay(r, q)
      PROVE  SinglePlan(p)'
  BY <1>1, <1>4, CrashSingle, ReplaySingle
<1>5. CASE Next
  <2>1. SinglePlan(p)'
    BY <1>3, <1>4, <1>5 DEF Next
  <2> QED BY <2>1 DEF SinglePlanIInv
<1> QED BY <1>2, <1>5

\* When callers present one plan until one is stored, then rows, Results and executor
\* calls are all about one plan, and a row or a Result that says COMPLETED is of a plan
\* all of whose steps have had their effect.
THEOREM SinglePlanInvariance ==
  ASSUME ~Rebinds
  PROVE  Spec => []SinglePlanIInv
<1>1. Init => SinglePlanIInv
  BY PlanAssumption, SinglePlanInit
<1>2. PlanIInv /\ SinglePlanIInv /\ [Next]_vars => SinglePlanIInv'
  BY PlanAssumption, SinglePlanNext
<1> QED BY <1>1, <1>2, PlanInvariance, PTL DEF Spec

\* The stored COMPLETED of a bound plan is never taken back by a later save.
THEOREM CompletionStays ==
  ASSUME ~Rebinds
  PROVE  Spec => CompletionIsKept
<1>1. ASSUME PlanIInv, SinglePlanIInv, [Next]_vars,
             aggregate.state = "COMPLETED", Plans[objectives[newest].plan].bound
      PROVE  aggregate' = aggregate
  <2>1. PICK p \in DOMAIN Plans : SinglePlan(p)
    BY <1>1 DEF SinglePlanIInv
  <2>2. aggregate = Complete
    BY <1>1 DEF PlanIInv, ResultsOK
  <2>3. ASSUME NEW r \in Requests, SaveAggregate(r)
        PROVE  aggregate' = aggregate
    <3>1. copy[r].id \in PlanIds /\ "saveAggregate" \in Bound /\ pc[r] = "saveAggregate"
      BY <1>1, <2>3 DEF PlanIInv, RequestOK, SaveAggregate, Bound
    <3>2. newest # "none" /\ plan[r] = p
      BY <2>1, <3>1, PlanAssumption DEF SinglePlan, PresentsOnly, PlanAssumption, PlanIds
    <3>3. Presented(r).bound
      BY <1>1, <2>1, <3>2 DEF SinglePlan, RowsAreOf, Presented
    <3>4. out[r] = Complete
      BY <1>1, <3>1, <3>3 DEF PlanIInv, RequestOK
    <3> QED BY <2>2, <2>3, <3>4 DEF SaveAggregate
  <2>4. ASSUME NEW r \in Requests, SequenceStep(r), ~SaveAggregate(r)
        PROVE  aggregate' = aggregate
    BY <2>4 DEF SequenceStep, Lookup, Compare, Create, Skip, Enter, StepRefused, StepKnown,
       StepCalls, StepRecords, StepResumes, StepVerifies, Stop, Close, planVars
  <2>5. ASSUME NEW r \in Requests, Crash(r) \/ \E q \in DOMAIN Plans : Replay(r, q)
        PROVE  aggregate' = aggregate
    BY <2>5 DEF Crash, Replay, planVars
  <2> QED BY <1>1, <2>3, <2>4, <2>5 DEF Next, vars, planVars
<1>2. PlanIInv /\ SinglePlanIInv /\ [Next]_vars =>
        [aggregate.state = "COMPLETED" /\ Plans[objectives[newest].plan].bound
           => aggregate' = aggregate]_vars
  BY <1>1
<1> QED BY <1>2, PlanInvariance, SinglePlanInvariance, PTL DEF CompletionIsKept, Spec

-----------------------------------------------------------------------------
(* What completion means                                                     *)

\* proposals are lists of steps, requirements and effects
IsList(s) == Len(s) \in Nat /\ DOMAIN s = 1..Len(s)

\* a plan is what the kernel is handed: materialized without requirements, validated
\* against them, or made of a compound request
IsMaterialized(p) == \E steps, cards : p = MaterializedPlan(steps, cards)
IsValidated(p) ==
  \E steps, requirements, cards :
    /\ IsList(steps)
    /\ p = ValidatedPlan(steps, requirements, cards)
IsCompound(p) ==
  \E proposal, utterance, cards :
    /\ IsList(proposal.steps) /\ IsList(proposal.effects)
    /\ p = PlanOf(proposal, utterance, cards)
PlansAreMade ==
  \A p \in Range(Plans) : p # Rejected /\ (IsMaterialized(p) \/ IsValidated(p) \/ IsCompound(p))

\* the plan has a step for all that its request asks for
Covers(p) ==
  /\ \A same \in p.wanted : same \cap DOMAIN p.steps # {}
  /\ p.units \in Nat /\ p.units <= Len(p.steps)

\* A reading that the checks let through has a step for each effect, and as many steps
\* as the parser found units.
LEMMA FaithfulPlansCover ==
  ASSUME NEW proposal, NEW utterance, NEW cards,
         IsList(proposal.steps), IsList(proposal.effects),
         NEW made, made = PlanOf(proposal, utterance, cards), made # Rejected
  PROVE  /\ DOMAIN made.steps = DOMAIN proposal.steps
         /\ \A same \in made.wanted : same \cap DOMAIN proposal.steps # {}
         /\ made.units = Len(proposal.steps)
<1> DEFINE steps == proposal.steps
           requirements == proposal.requirements
           mapping == proposal.mapping
           effects1 == proposal.effects
           spans == Spans(effects1, utterance.places)
           valid == ValidatedPlan(steps, requirements, cards)
<1>1. /\ FaithfulReading(proposal, utterance, cards) /\ valid # Rejected
      /\ made = [valid EXCEPT !.wanted = Wanted(steps, mapping), !.units = Len(utterance.anchors)]
  BY DEF PlanOf
<1>2. /\ Exact(steps, requirements)
      /\ valid = [steps |-> Actions(steps), bound |-> TRUE,
        depends |-> [i \in DOMAIN steps |-> Range(steps[i].after)],
        meets |-> [i \in DOMAIN steps |-> CHOOSE q \in LeftOver(steps, requirements, i - 1) :
                                            Meets(steps[i], requirements[q])],
        requires |-> DOMAIN requirements, wanted |-> {}, units |-> 0]
  BY <1>1 DEF ValidatedPlan
<1>3. /\ made.steps = Actions(steps) /\ made.wanted = Wanted(steps, mapping)
      /\ made.units = Len(utterance.anchors)
  BY <1>1, <1>2
<1>4. DOMAIN made.steps = DOMAIN steps
  BY <1>3 DEF Actions
<1>5. /\ ~Repeats(requirements) /\ ~Repeats(mapping)
      /\ RequirementKeys(requirements) = RequirementKeys(mapping)
  <2>1. Verdict(requirements, mapping) = "COMPLETE"
    BY <1>1 DEF FaithfulReading
  <2> QED BY <2>1 DEF Verdict
<1>6. ASSUME NEW same \in made.wanted
      PROVE  same \cap DOMAIN steps # {}
  <2>1. PICK m \in Range(mapping) : same = {i \in DOMAIN steps : Meets(steps[i], m)}
    BY <1>3 DEF Wanted
  <2>2. KeyOfAction(m) \in RequirementKeys(requirements)
    BY <1>5 DEF RequirementKeys
  <2>3. PICK q \in DOMAIN requirements : KeyOfAction(m) = KeyOfAction(requirements[q])
    BY <2>2 DEF RequirementKeys, Range
  <2>4. PICK j \in 1..Len(steps) : Meets(steps[j], requirements[q])
    BY <1>2 DEF Exact, LeftOver
  <2>5. j \in DOMAIN steps /\ Meets(steps[j], m)
    BY <2>3, <2>4 DEF IsList, Meets
  <2> QED BY <2>1, <2>5
<1>7. Len(utterance.anchors) = Len(steps)
  <2>1. /\ Len(spans) = Len(utterance.anchors)
        /\ Len(mapping) = Len(effects1)
    BY <1>1 DEF FaithfulReading, StructurallyCovered, Mapped
  <2>2. Len(spans) = Len(effects1)
    <3>1. spans = [i \in 1..Len(effects1) |-> Located(effects1[i], utterance.places)]
      BY DEF Spans, IsList
    <3> QED BY <3>1 DEF IsList
  <2>3. Len(mapping) = Len(requirements)
    BY <1>5 DEF Repeats
  <2>4. Len(steps) = Len(requirements)
    BY <1>2 DEF Exact
  <2> QED BY <2>1, <2>2, <2>3, <2>4
<1> QED BY <1>3, <1>4, <1>6, <1>7

LEMMA MadePlansCover ==
  ASSUME PlanAssumption, PlansAreMade, NEW p \in DOMAIN Plans
  PROVE  Covers(Plans[p])
<1>1. Plans[p] \in Range(Plans) /\ Plans[p] # Rejected /\ Plans[p].steps \in Seq(DOMAIN Refusals)
  BY DEF Range, PlansAreMade, PlanAssumption
<1>2. CASE IsMaterialized(Plans[p])
  <2>1. Plans[p].wanted = {} /\ Plans[p].units = 0
    BY <1>1, <1>2 DEF IsMaterialized, MaterializedPlan
  <2> QED BY <1>1, <2>1 DEF Covers
<1>3. CASE IsValidated(Plans[p])
  <2>1. Plans[p].wanted = {} /\ Plans[p].units = 0
    BY <1>1, <1>3 DEF IsValidated, ValidatedPlan
  <2> QED BY <1>1, <2>1 DEF Covers
<1>4. CASE IsCompound(Plans[p])
  <2>1. PICK proposal, utterance, cards :
          /\ IsList(proposal.steps) /\ IsList(proposal.effects)
          /\ Plans[p] = PlanOf(proposal, utterance, cards)
    BY <1>4 DEF IsCompound
  <2>2. /\ DOMAIN Plans[p].steps = DOMAIN proposal.steps
        /\ \A same \in Plans[p].wanted : same \cap DOMAIN proposal.steps # {}
        /\ Plans[p].units = Len(proposal.steps)
    BY <1>1, <2>1, FaithfulPlansCover
  <2>3. Len(Plans[p].steps) = Len(proposal.steps)
    BY <1>1, <2>1, <2>2 DEF IsList
  <2> QED BY <1>1, <2>1, <2>2, <2>3 DEF Covers, IsList
<1> QED BY <1>1, <1>2, <1>3, <1>4 DEF PlansAreMade

\* A plan that repeats an action has as many effects of it as steps: the place of a step
\* is part of its identity.
LEMMA RepeatedActionsLandApart ==
  ASSUME PlanAssumption, NEW p \in DOMAIN Plans, AllLanded(p), NEW a
  PROVE  Cardinality({i \in Steps(p) : Plans[p].steps[i] = a})
           <= Cardinality({k \in StepKeys : k[2] = a /\ effects[k] > 0})
<1> DEFINE I == {i \in Steps(p) : Plans[p].steps[i] = a}
           K == {k \in StepKeys : k[2] = a /\ effects[k] > 0}
           f == [i \in I |-> <<i, a>>]
           All == {<<i, a>> : i \in 1..5}
           g == [i \in 1..5 |-> <<i, a>>]
<1>1. f \in Injection(I, K)
  <2>1. \A i \in I : f[i] = StepKey(p, i) /\ StepKey(p, i) \in StepKeys
    BY PlanFacts DEF StepKey
  <2>2. f \in [I -> K]
    BY <2>1 DEF AllLanded, Landed, StepKey
  <2> QED BY <2>2 DEF Injection, IsInjective
<1>2. IsFiniteSet(K)
  <2>1. K \subseteq All
    <3>1. ASSUME NEW k \in K
          PROVE  k \in All
      <4>1. PICK q \in DOMAIN Plans : \E i, j \in Steps(q) : k = <<i, Plans[q].steps[j]>>
        BY DEF StepKeys
      <4>2. Plans[q] \in Range(Plans)
        BY DEF Range
      <4>3. Steps(q) \subseteq 1..5
        BY <4>2 DEF Steps, PlanAssumption
      <4> QED BY <4>1, <4>3
    <3> QED BY <3>1
  <2>2. g \in Surjection(1..5, All)
    BY DEF Surjection
  <2>3. IsFiniteSet(1..5)
    <3>1. PICK m \in Int, n \in Int : m = 1 /\ n = 5
      OBVIOUS
    <3>2. IsFiniteSet(m..n)
      BY FS_Interval
    <3> QED BY <3>1, <3>2
  <2>4. IsFiniteSet(All)
    BY <2>2, <2>3, FS_Surjection
  <2> QED BY <2>1, <2>4, FS_Subset
<1> QED BY <1>1, <1>2, FS_Injection

LEMMA LandedPlansAreDone ==
  ASSUME PlanAssumption, PlansAreMade, NEW p \in DOMAIN Plans, AllLanded(p)
  PROVE  /\ \A a \in Range(Plans[p].steps) :
              Cardinality({i \in Steps(p) : Plans[p].steps[i] = a})
                <= Cardinality({k \in StepKeys : k[2] = a /\ effects[k] > 0})
         /\ LET done == {i \in Steps(p) : effects[StepKey(p, i)] > 0} IN
            /\ \A same \in Plans[p].wanted : same \cap done # {}
            /\ Plans[p].units <= Cardinality(done)
<1> DEFINE done == {i \in Steps(p) : effects[StepKey(p, i)] > 0}
<1>1. done = Steps(p) /\ Covers(Plans[p])
  BY MadePlansCover DEF AllLanded, Landed
<1>2. \A same \in Plans[p].wanted : same \cap done # {}
  BY <1>1 DEF Covers, Steps
<1>3. Plans[p].units <= Cardinality(done)
  <2>1. Steps(p) = 1..Len(Plans[p].steps) /\ Len(Plans[p].steps) \in Nat \ {0}
    BY PlanFacts
  <2>2. PICK n \in Nat \ {0} : n = Len(Plans[p].steps)
    BY <2>1
  <2>3. Cardinality(1..n) = n
    BY FS_Interval
  <2> QED BY <1>1, <2>1, <2>2, <2>3 DEF Covers
<1> QED BY <1>2, <1>3, RepeatedActionsLandApart

\* Of plans that the materialization made, with callers that present one until one is
\* stored: what is reported or stored as COMPLETED has had every effect, as often as the
\* plan asks for it, and one for each unit of the utterance.
THEOREM CompletionMeansDone ==
  ASSUME ~Rebinds, PlansAreMade
  PROVE  Spec => []CompletePlansAreDone
<1>1. ASSUME SinglePlanIInv, NEW q \in DOMAIN Plans,
             \/ \E r \in Requests : out[r].state = "COMPLETED" /\ plan[r] = q
             \/ \E i \in PlanIds : objectives[i].state = "COMPLETED" /\ objectives[i].plan = q
      PROVE  AllLanded(q)
  BY <1>1 DEF SinglePlanIInv, SinglePlan, PresentsOnly, RowsAreOf
<1>2. SinglePlanIInv => CompletePlansAreDone
  BY <1>1, LandedPlansAreDone, PlanAssumption DEF CompletePlansAreDone
<1> QED BY <1>2, SinglePlanInvariance, PTL
=============================================================================
