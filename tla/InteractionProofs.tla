-------------------------- MODULE InteractionProofs --------------------------
(* That what the Kernel keeps for one correlation is kept by the whole
   boundary: for any number of requests, whatever they decide on, however they
   interleave between persist_fast_result and the Kernel, die and come back. A
   step in the Kernel is a step of Kernel, so the lemmas of KernelProofs carry
   it; a step of the boundary touches no call, no effect and no observation. *)
EXTENDS InteractionInvariant, KernelProofs

-----------------------------------------------------------------------------
\* a step of the Kernel moves its own request only, and stays in Kernel.run
LEMMA RunStepMoves ==
  ASSUME TypeOK, NEW r \in Requests,
         RunStep(r) \/ \E a \in Actions : DecideAction(r, a)
  PROVE  \A q \in Requests \ {r} : pc'[q] = pc[q]
<1>1. \E l : Goto(r, l)
  <2>1. ASSUME \/ Lookup(r) \/ Authorize(r) \/ Prepare(r) \/ Prior(r)
               \/ Canonical(r) \/ Execute(r)
        PROVE  \E l : Goto(r, l)
    BY <2>1 DEF Lookup, Authorize, Prepare, Prior, Canonical, Execute, Return
  <2>2. ASSUME \/ Create(r) \/ DecideTerminal(r) \/ DecideInvalid(r) \/ DecideRaises(r)
               \/ SaveDecision(r) \/ Bind(r) \/ SaveUnprepared(r) \/ SaveReconciled(r)
        PROVE  \E l : Goto(r, l)
    BY <2>2 DEF Create, DecideTerminal, DecideInvalid, DecideRaises, SaveDecision, Bind,
                SaveUnprepared, SaveReconciled, Return
  <2>3. ASSUME \/ Claim(r) \/ RecordObservation(r) \/ MarkObserved(r) \/ Verify(r)
               \/ SaveFinalResult(r) \/ \E a \in Actions : DecideAction(r, a)
        PROVE  \E l : Goto(r, l)
    BY <2>3 DEF Claim, RecordObservation, MarkObserved, Verify, SaveFinalResult,
                DecideAction, Return
  <2> QED BY <2>1, <2>2, <2>3 DEF RunStep
<1> QED BY <1>1 DEF Goto, TypeOK

-----------------------------------------------------------------------------
\* A step of the boundary leaves the world and the records alone, and moves one
\* request between places where nothing is held for an action.
Aside(r) ==
  /\ UNCHANGED <<actions, observations, worldVars>>
  /\ KeepsRows
  /\ \/ UNCHANGED <<pc, frame>>
     \/ /\ UNCHANGED frame
        /\ pc[r] \in {"outside", "done"}
        /\ Goto(r, "lookup") \/ Goto(r, "outside")
     \/ Unwind(r) /\ Goto(r, "outside")

LEMMA AsideControl ==
  ASSUME Control, TypeOK', NEW r \in Requests, Aside(r)
  PROVE  Control'
<1>1. KeepsClaims
  BY Nothing DEF Aside
<1>2. CASE UNCHANGED <<pc, frame>>
  <2>1. Goto(r, pc[r])
    BY <1>2 DEF Control, TypeOK, Goto
  <2>2. PICK l : l = pc[r]
    OBVIOUS
  <2> QED BY <1>1, <1>2, <2>1, <2>2, MoveStep DEF Aside
<1>3. CASE UNCHANGED frame /\ pc[r] \in {"outside", "done"} /\ Goto(r, "lookup")
  BY <1>1, <1>3, MoveStep DEF Aside, Bound, Deciding, Claiming
<1>4. CASE UNCHANGED frame /\ pc[r] \in {"outside", "done"} /\ Goto(r, "outside")
  BY <1>1, <1>4, MoveStep DEF Aside, Bound, Deciding, Claiming
<1>5. CASE Unwind(r) /\ Goto(r, "outside")
  BY <1>1, <1>5, ReturnStep DEF Aside, Bound, Deciding
<1> QED BY <1>2, <1>3, <1>4, <1>5 DEF Aside

LEMMA AsideCustody ==
  ASSUME Control, Custody, TypeOK', NEW r \in Requests, Aside(r)
  PROVE  Custody'
<1>1. ClaimsGrow /\ UNCHANGED <<calls, observations, effects>>
  BY DEF Aside, ClaimsGrow, Claimed, worldVars
<1>2. OnlyHolds(r)
  BY DEF Aside, OnlyHolds, frame, Unwind, Control, TypeOK
<1>3. CASE UNCHANGED <<pc, frame>>
  BY <1>1, <1>3 DEF Aside, frame, Custody, CallsOK, CustodyOK, Owns, Claimed
<1>4. CASE Goto(r, "lookup")
  BY <1>1, <1>2, <1>4, CustodyElsewhere DEF Claiming
<1>5. CASE Goto(r, "outside")
  BY <1>1, <1>2, <1>5, CustodyElsewhere DEF Claiming
<1> QED BY <1>3, <1>4, <1>5 DEF Aside

\* what is published stays backed when the one Result that changes hands is
LEMMA AsidePublished ==
  ASSUME Control, Published, TypeOK', NEW r \in Requests, Aside(r), RowsBacked',
         ResultBacked', NEW res, out' = [out EXCEPT ![r] = res],
         Backed(res.action, res.state, res.retryable),
         pc[r] \in {"outside", "done"} \/ pc'[r] = "outside"
  PROVE  Published'
<1> USE StoreAssumption
<1>t. TypeOK
  BY DEF Control
<1>m. Lasting
  BY <1>t DEF Lasting, Aside, TypeOK, worldVars
<1>1. ClaimsBacked'
  BY <1>t, <1>m, UnchangedBacked DEF Aside
<1>2. \A q \in Requests \ {r} :
        pc'[q] = pc[q] /\ act'[q] = act[q] /\ held'[q] = held[q] /\ out'[q] = out[q]
  BY <1>t DEF Aside, Unwind, Goto, frame, TypeOK
<1>3. pc'[r] \in {"outside", "done", "lookup"} /\ out'[r] = res
  BY <1>t DEF Aside, Goto, TypeOK
<1>4. Backed(held[r].action, held[r].state, FALSE)'
  <2>1. CASE UNCHANGED held
    BY <1>t, <1>m, <2>1, JustifiedLasts DEF Published, PublishedOK, Backed, Justified
  <2>2. CASE Unwind(r)
    BY <1>t, <2>2 DEF Unwind, TypeOK, NoCopy, Backed
  <2> QED BY <2>1, <2>2 DEF Aside, frame
<1>5. PublishedOK(r)'
  BY <1>t, <1>m, <1>3, <1>4, JustifiedLasts DEF PublishedOK, Backed, Justified
<1>6. RequestsBacked'
  BY <1>t, <1>m, <1>2, <1>5, OthersBacked
<1> QED BY <1>1, <1>6 DEF Published, RowsBacked, ClaimsBacked, ResultBacked, RequestsBacked

-----------------------------------------------------------------------------
LEMMA BoundaryInitHolds == BoundaryInit => BoundaryIInv
<1> SUFFICES ASSUME BoundaryInit PROVE BoundaryIInv
  OBVIOUS
<1> USE StoreAssumption, KernelAssumption, InteractionAssumption
    DEF BoundaryInit, KernelInit, StoreInit
<1>1. TypeOK
  BY DEF TypeOK, StoreTypeOK, NoRow, NoClaim, NoResult, NoCopy, ObjectiveRows, ActionRows,
         Results, Keys
<1>2. Control
  <2>1. \A o \in ObjectiveIds : \A a \in Actions : ~About(o, a)
    BY DEF About, Bound, NoRow, NoClaim
  <2> QED BY <1>1, <2>1 DEF Control, ClaimOK, Claimed, RequestOK, RowsAreAboutOne, Bound,
                            Deciding, Claiming
<1>3. Custody
  BY DEF Custody, CallsOK, CustodyOK, Owns
<1>4. Published
  BY DEF Published, PublishedOK, Justified, Backed, NoClaim, NoRow, NoResult, NoCopy, Keys
<1>5. BoundaryTypeOK /\ \A r \in Requests : StageOK(r)
  BY <1>1 DEF BoundaryTypeOK, StageOK, Stages
<1> QED BY <1>2, <1>3, <1>4, <1>5 DEF BoundaryIInv, KernelIInv

\* where the requests are is said again, and the boundary's own variables typed
BoundaryOK ==
  /\ stage \in [Requests -> Stages]
  /\ card \in [Requests -> Actions \cup {NoAction}]
  /\ replays \in 0..MaxReplays
  /\ \A r \in Requests : StageOK(r)

LEMMA BoundaryParts == BoundaryIInv <=> KernelIInv /\ BoundaryOK
BY DEF BoundaryIInv, BoundaryOK, BoundaryTypeOK, KernelIInv, Control

\* the layers, put together again after a step of the boundary
LEMMA AsideHolds ==
  ASSUME KernelIInv, TypeOK', NEW r \in Requests, Aside(r), RowsBacked', ResultBacked',
         NEW res, out' = [out EXCEPT ![r] = res],
         Backed(res.action, res.state, res.retryable),
         pc[r] \in {"outside", "done"} \/ pc'[r] = "outside"
  PROVE  KernelIInv'
BY AsideControl, AsideCustody, AsidePublished DEF KernelIInv

\* The inductive invariant is preserved by every step of the boundary.
LEMMA BoundaryStepHolds ==
  ASSUME BoundaryIInv, [BoundaryNext]_allVars
  PROVE  BoundaryIInv'
<1> USE StoreAssumption, KernelAssumption, InteractionAssumption
<1> SUFFICES KernelIInv' /\ BoundaryOK'
  BY BoundaryParts DEF BoundaryIInv, BoundaryOK, BoundaryTypeOK, KernelIInv, Control
<1>k. KernelIInv /\ Control /\ Custody /\ Published /\ TypeOK /\ BoundaryOK
  BY BoundaryParts DEF KernelIInv, Control
<1>p. /\ FrameOK /\ PcOK /\ OutOK /\ RowsOK /\ ClaimsOK /\ ObservedOK /\ ResultOK /\ WorldOK
  BY <1>k, TypeParts
<1>b. /\ RowsBacked /\ ClaimsBacked /\ ResultBacked /\ RequestsBacked
  BY <1>k, PublishedParts
<1>o. \A r \in Requests : StageOK(r) /\ PublishedOK(r)
  BY <1>k DEF BoundaryOK, Published
\* a step that neither the rows nor the stored Result notice
<1>q. ASSUME UNCHANGED <<objectives, newest, actions, observations, worldVars>>
      PROVE  RowsBacked' /\ KeepsRows
  BY <1>q, <1>b, Nothing DEF RowsBacked, Backed, Justified, worldVars
<1>r. ASSUME UNCHANGED <<result, observations, worldVars>> PROVE ResultBacked'
  BY <1>r, <1>b DEF ResultBacked, Backed, Justified, worldVars
<1>1. CASE UNCHANGED allVars
  <2>1. UNCHANGED vars
    BY <1>1 DEF allVars
  <2>2. BoundaryOK'
    BY <1>1, <1>k DEF allVars, vars, localVars, boundaryVars, BoundaryOK, StageOK
  <2> QED BY <1>k, <2>1, <2>2, StepHolds
<1>2. ASSUME NEW r \in Requests, Enter(r) PROVE KernelIInv' /\ BoundaryOK'
  <2>1. BoundaryOK' /\ pc[r] = "outside"
    BY <1>2, <1>k DEF Enter, At, BoundaryOK, StageOK, Stages
  <2>2. /\ UNCHANGED <<storeVars, pc, frame, worldVars, crashes>>
        /\ out' = [out EXCEPT ![r] = result] \/ UNCHANGED out
    BY <1>2 DEF Enter
  <2>3. PICK res : res \in {result, out[r]} /\ out' = [out EXCEPT ![r] = res]
    BY <1>k, <2>2 DEF TypeOK
  <2>4. Backed(res.action, res.state, res.retryable) /\ res \in Results
    <3>1. result \in Results /\ out[r] \in Results
      BY <1>k DEF TypeOK, StoreTypeOK
    <3>2. CASE res = result
      BY <1>b, <3>1, <3>2 DEF ResultBacked
    <3>3. CASE res = out[r]
      BY <1>o, <3>1, <3>3 DEF PublishedOK
    <3> QED BY <2>3, <3>2, <3>3
  <2>5. TypeOK'
    BY <1>k, <2>2, <2>3, <2>4 DEF TypeOK, StoreTypeOK, storeVars, frame, worldVars
  <2>6. RowsBacked' /\ KeepsRows /\ ResultBacked'
    BY <1>q, <1>r, <2>2 DEF storeVars
  <2>7. Aside(r)
    BY <2>2, <2>6 DEF Aside, storeVars
  <2> QED BY <1>k, <2>1, <2>3, <2>4, <2>5, <2>6, <2>7, AsideHolds
<1>3. ASSUME NEW r \in Requests, DecideDirect(r) PROVE KernelIInv' /\ BoundaryOK'
  <2>1. BoundaryOK' /\ pc[r] = "outside"
    BY <1>3, <1>k DEF DecideDirect, At, BoundaryOK, StageOK, Stages
  <2>2. UNCHANGED <<storeVars, pc, frame, worldVars, crashes>>
    BY <1>3 DEF DecideDirect
  <2>3. PICK x \in ObjectiveIds, d \in DirectOutcomes :
          out' = [out EXCEPT ![r] =
            [key |-> "none", action |-> NoAction, objective |-> x,
             state |-> CASE d = "answered" -> "COMPLETED"
                         [] d = "blocked" -> "BLOCKED"
                         [] d = "unavailable" -> "FAILED",
             retryable |-> d = "unavailable"]]
    <3>1. PICK x \in ObjectiveIds : x = CHOOSE y \in FreshIds : TRUE
      BY <1>3 DEF DecideDirect, FreshIds
    <3> QED BY <1>3, <3>1 DEF DecideDirect
  <2> DEFINE s == CASE d = "answered" -> "COMPLETED"
                    [] d = "blocked" -> "BLOCKED"
                    [] d = "unavailable" -> "FAILED"
             res == [key |-> "none", action |-> NoAction, objective |-> x,
                     state |-> s, retryable |-> d = "unavailable"]
  <2>4. s \in ObjectiveStates
    BY DEF ObjectiveStates
  <2> HIDE DEF s
  <2>5. Backed(res.action, res.state, res.retryable) /\ res \in Results
    BY <2>4 DEF Backed, Results, Keys
  <2>a. out' = [out EXCEPT ![r] = res]
    BY <2>3 DEF s
  <2> HIDE DEF res
  <2>6. TypeOK'
    BY <1>k, <2>2, <2>a, <2>5 DEF TypeOK, StoreTypeOK, storeVars, frame, worldVars
  <2>7. RowsBacked' /\ KeepsRows /\ ResultBacked'
    BY <1>q, <1>r, <2>2 DEF storeVars
  <2>8. Aside(r)
    BY <2>2, <2>7 DEF Aside, storeVars
  <2> QED BY <1>k, <2>1, <2>a, <2>5, <2>6, <2>7, <2>8, AsideHolds
<1>4. ASSUME NEW r \in Requests, DecideCard(r) PROVE KernelIInv' /\ BoundaryOK'
  <2>1. BoundaryOK' /\ pc[r] = "outside"
    BY <1>4, <1>k DEF DecideCard, At, BoundaryOK, StageOK, Stages, Goto, TypeOK
  <2>2. UNCHANGED <<storeVars, frame, out, worldVars, crashes>> /\ Goto(r, "lookup")
    BY <1>4 DEF DecideCard
  <2>3. PICK res : res = out[r] /\ out' = [out EXCEPT ![r] = res]
    BY <1>k, <2>2 DEF TypeOK
  <2>4. Backed(res.action, res.state, res.retryable)
    BY <1>o, <2>3 DEF PublishedOK
  <2>5. TypeOK'
    BY <1>k, <2>2 DEF TypeOK, StoreTypeOK, storeVars, frame, worldVars, Goto, Locations
  <2>6. RowsBacked' /\ KeepsRows /\ ResultBacked'
    BY <1>q, <1>r, <2>2 DEF storeVars
  <2>7. Aside(r)
    BY <2>1, <2>2, <2>6 DEF Aside, storeVars
  <2> QED BY <1>k, <2>1, <2>3, <2>4, <2>5, <2>6, <2>7, AsideHolds
<1>5. ASSUME NEW r \in Requests, InKernel(r) PROVE KernelIInv' /\ BoundaryOK'
  <2>1. /\ stage[r] = "kernel" /\ UNCHANGED <<crashes, boundaryVars>>
        /\ RunStep(r) \/ DecideAction(r, card[r])
    BY <1>5 DEF InKernel
  <2>2. card[r] \in Actions
    BY <1>o, <2>1 DEF StageOK
  <2>3. RunStep(r) \/ \E a \in Actions : DecideAction(r, a)
    BY <2>1, <2>2
  <2>4. Next
    BY <2>1, <2>3 DEF Next, Step
  <2>5. BoundaryOK'
    <3>1. \A q \in Requests \ {r} : pc'[q] = pc[q]
      BY <1>k, <2>3, RunStepMoves
    <3> QED BY <1>k, <2>1, <3>1 DEF BoundaryOK, StageOK, boundaryVars
  <2> QED BY <1>k, <2>4, <2>5, StepHolds
<1>6. ASSUME NEW r \in Requests, PersistObjective(r) PROVE KernelIInv' /\ BoundaryOK'
  <2>1. BoundaryOK' /\ pc[r] \in {"outside", "done"}
    BY <1>6, <1>k DEF PersistObjective, At, BoundaryOK, StageOK, Stages, Goto, TypeOK
  <2>2. /\ UNCHANGED <<actions, observations, result, frame, out, worldVars, crashes>>
        /\ Goto(r, "outside")
    BY <1>6 DEF PersistObjective
  <2>3. PICK res \in Results : res = out[r] /\ out' = [out EXCEPT ![r] = res]
    BY <1>k, <2>2 DEF TypeOK
  <2>4. Backed(res.action, res.state, res.retryable)
    BY <1>o, <2>3 DEF PublishedOK
  <2>5. SaveObjective(res.objective, [state |-> res.state, action |-> NoAction])
    BY <1>6, <2>3 DEF PersistObjective
  <2>6. TypeOK'
    <3>1. RowsOK'
      BY <1>p, <2>5, SaveObjectiveType DEF Results, ObjectiveRows
    <3>2. PcOK'
      BY <1>p, <2>2 DEF PcOK, Goto
    <3> QED BY <1>p, <2>2, <3>1, <3>2, TypeParts DEF FrameOK, frame, OutOK, ClaimsOK,
               ObservedOK, ResultOK, WorldOK, worldVars, TypeOK, StoreTypeOK, RowsOK, PcOK,
               Copies
  <2>7. KeepsRows
    BY <1>p, <2>5 DEF SaveObjective, RowsOK, KeepsRows, About
  <2>8. RowsBacked' /\ ResultBacked'
    <3>1. ASSUME NEW o \in ObjectiveIds
          PROVE  Backed(objectives[o].action, objectives[o].state, FALSE)'
      <4>1. CASE o = res.objective
        BY <1>p, <2>5, <4>1 DEF SaveObjective, RowsOK, Backed
      <4>2. CASE o # res.objective
        <5>1. objectives'[o] = objectives[o]
          BY <1>p, <2>5, <4>2 DEF SaveObjective, RowsOK
        <5> QED BY <1>b, <2>2, <5>1 DEF RowsBacked, Backed, Justified, worldVars
      <4> QED BY <4>1, <4>2
    <3> QED BY <1>r, <2>2, <3>1 DEF RowsBacked
  <2>9. Aside(r)
    BY <2>1, <2>2, <2>7 DEF Aside
  <2> QED BY <1>k, <2>1, <2>3, <2>4, <2>6, <2>8, <2>9, AsideHolds
<1>7. ASSUME NEW r \in Requests, PersistResult(r) PROVE KernelIInv' /\ BoundaryOK'
  <2>1. BoundaryOK' /\ pc[r] = "outside"
    BY <1>7, <1>k DEF PersistResult, At, BoundaryOK, StageOK, Stages, localVars
  <2>2. /\ UNCHANGED <<objectives, newest, actions, observations, pc, frame, out,
                       worldVars, crashes>>
        /\ SaveResult("interaction", out[r])
    BY <1>7 DEF PersistResult, localVars
  <2>3. PICK res \in Results : res = out[r] /\ out' = [out EXCEPT ![r] = res]
    BY <1>k, <2>2 DEF TypeOK
  <2>4. Backed(res.action, res.state, res.retryable)
    BY <1>o, <2>3 DEF PublishedOK
  <2>5. TypeOK'
    <3>1. ResultOK'
      BY <2>2, <2>3, SaveResultType DEF Keys
    <3> QED BY <1>k, <2>2, <3>1 DEF TypeOK, StoreTypeOK, frame, worldVars, ResultOK
  <2>6. RowsBacked' /\ KeepsRows
    BY <1>q, <2>2
  <2>7. ResultBacked'
    <3>1. Backed(res.action, res.state, res.retryable)'
      BY <2>2, <2>4 DEF Backed, Justified, worldVars
    <3>2. "interaction" \in Keys \ Actions
      BY DEF Keys
    <3> QED BY <1>k, <2>2, <2>3, <2>5, <3>1, <3>2, SaveResultBacked
  <2>8. Aside(r)
    BY <2>2, <2>6 DEF Aside
  <2> QED BY <1>k, <2>1, <2>3, <2>4, <2>5, <2>6, <2>7, <2>8, AsideHolds
<1>8. ASSUME NEW r \in Requests, Die(r) PROVE KernelIInv' /\ BoundaryOK'
  <2>1. BoundaryOK' /\ pc'[r] = "outside"
    BY <1>8, <1>k DEF Die, At, BoundaryOK, StageOK, Stages, Goto, TypeOK
  <2>2. /\ UNCHANGED <<storeVars, worldVars>> /\ Unwind(r) /\ Goto(r, "outside")
        /\ out' = [out EXCEPT ![r] = NoResult] /\ crashes' = crashes + 1
    BY <1>8 DEF Die
  <2>3. NoResult \in Results /\ Backed(NoResult.action, NoResult.state, NoResult.retryable)
    BY DEF NoResult, Results, Keys, Backed
  <2>4. TypeOK'
    <3>1. FrameOK'
      BY <1>p, <2>2, UnwindType
    <3>2. PcOK' /\ OutOK'
      BY <1>p, <2>2, <2>3 DEF PcOK, OutOK, Goto
    <3> QED BY <1>k, <2>2, <3>1, <3>2 DEF TypeOK, StoreTypeOK, storeVars, worldVars,
               FrameOK, Copies, PcOK, OutOK
  <2>5. RowsBacked' /\ KeepsRows /\ ResultBacked'
    BY <1>q, <1>r, <2>2 DEF storeVars
  <2>6. Aside(r)
    BY <2>2, <2>5 DEF Aside, storeVars
  <2>7. PICK res : res = NoResult
    OBVIOUS
  <2> QED BY <1>k, <2>1, <2>2, <2>3, <2>4, <2>5, <2>6, <2>7, AsideHolds
<1>9. ASSUME NEW r \in Requests, Resubmit(r) PROVE KernelIInv' /\ BoundaryOK'
  <2>1. BoundaryOK' /\ pc[r] = "outside"
    BY <1>9, <1>k DEF Resubmit, At, BoundaryOK, StageOK, Stages
  <2>2. /\ UNCHANGED <<storeVars, pc, frame, worldVars, crashes>>
        /\ out' = [out EXCEPT ![r] = NoResult]
    BY <1>9 DEF Resubmit
  <2>3. NoResult \in Results /\ Backed(NoResult.action, NoResult.state, NoResult.retryable)
    BY DEF NoResult, Results, Keys, Backed
  <2>4. TypeOK'
    BY <1>k, <2>2, <2>3 DEF TypeOK, StoreTypeOK, storeVars, frame, worldVars
  <2>5. RowsBacked' /\ KeepsRows /\ ResultBacked'
    BY <1>q, <1>r, <2>2 DEF storeVars
  <2>6. Aside(r)
    BY <2>2, <2>5 DEF Aside, storeVars
  <2>7. PICK res : res = NoResult
    OBVIOUS
  <2> QED BY <1>k, <2>1, <2>2, <2>3, <2>4, <2>5, <2>6, <2>7, AsideHolds
<1> QED
  BY <1>1, <1>2, <1>3, <1>4, <1>5, <1>6, <1>7, <1>8, <1>9 DEF BoundaryNext

-----------------------------------------------------------------------------
\* The layers of the Kernel hold around it, whatever the requests of the
\* correlation decide on and wherever they stop between the two persistences.
THEOREM BoundaryInvariance == BoundarySpec => []BoundaryIInv
BY BoundaryInitHolds, BoundaryStepHolds, PTL DEF BoundarySpec

\* Every variable of the boundary and of the Kernel keeps its type.
THEOREM BoundaryTypeCorrect == BoundarySpec => []BoundaryTypeOK
<1>1. BoundaryIInv => BoundaryTypeOK
  BY DEF BoundaryIInv
<1> QED BY <1>1, BoundaryInvariance, PTL

\* Double submission, retry and restart: no two of them call the executor of a
\* key, although the objective row that named the action no longer does.
THEOREM BoundaryExecutesAtMostOnce == BoundarySpec => []AtMostOnce
<1>1. BoundaryIInv => AtMostOnce
  BY DEF BoundaryIInv, KernelIInv, Custody, CallsOK, AtMostOnce
<1> QED BY <1>1, BoundaryInvariance, PTL

\* The second persistence makes nothing COMPLETED that has no effect.
THEOREM BoundaryCompletesOnlyVerified == BoundarySpec => []CompletionVerified
<1>1. BoundaryIInv => CompletionVerified
  <2> SUFFICES ASSUME BoundaryIInv, NEW a \in Actions, Says(a, "COMPLETED")
               PROVE  effects[a] > 0
    BY DEF CompletionVerified
  <2> QED BY DEF BoundaryIInv, KernelIInv, Published, PublishedOK, Backed, Justified, Says
<1> QED BY <1>1, BoundaryInvariance, PTL

\* An outcome on record as unknown is reported as a failure by no request, and
\* offered for retry by none, whichever of them persists last.
THEOREM BoundaryKeepsAmbiguity == BoundarySpec => []AmbiguousStaysOpen
<1>1. BoundaryIInv => AmbiguousStaysOpen
  <2> SUFFICES ASSUME BoundaryIInv, NEW a \in Actions \ NoContract,
                      observations[a] = "ambiguous"
               PROVE  ~Says(a, "FAILED") /\ ~Offers(a)
    BY DEF AmbiguousStaysOpen
  <2>1. ~Says(a, "FAILED")
    BY DEF BoundaryIInv, KernelIInv, Published, PublishedOK, Backed, Justified, Says
  <2>2. ~Offers(a)
    BY DEF BoundaryIInv, KernelIInv, Published, PublishedOK, Backed, Justified, Offers
  <2> QED BY <2>1, <2>2
<1> QED BY <1>1, BoundaryInvariance, PTL
=============================================================================
