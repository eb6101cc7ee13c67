----------------------------- MODULE KernelProofs -----------------------------
(* The safety of Kernel for any number of requests, actions, objective ids and
   crashes. The argument follows the three layers of KernelInvariant: a step that
   starts in Control ends in it (TypeStep, ControlStep), then the same for Custody
   (CustodyStep) and for Published (PublishedStep). Most steps leave most of a
   layer alone: lemmas say so once (QuietStep, ReturnStep, MoveStep,
   CustodyElsewhere, UnchangedBacked ...), and the step of an action names what
   it does change. The theorems at the end follow from the invariant.        *)
EXTENDS KernelInvariant, TLAPS

\* the sets TypeOK draws the parts of a request from
Copies == [id : ObjectiveIds \cup {NoObjective},
           state : ObjectiveStates \cup {"none"},
           action : Actions \cup {NoAction}]
FrameOK ==
  /\ origin \in [Requests -> {"nothing", "row", "action"}]
  /\ held \in [Requests -> Copies]
  /\ act \in [Requests -> Actions \cup {NoAction}]
  /\ won \in [Requests -> BOOLEAN]
  /\ seen \in [Requests -> ObservationKinds \cup {"none"}]
PcOK == pc \in [Requests -> Locations \cup {"outside"}]
OutOK == out \in [Requests -> Results]
RowsOK == objectives \in [ObjectiveIds -> ObjectiveRows]
          /\ newest \in ObjectiveIds \cup {NoObjective}
ClaimsOK == actions \in [Actions -> ActionRows]
ObservedOK == observations \in [Actions -> ObservationKinds \cup {"none"}]
ResultOK == result \in Results
WorldOK == /\ calls \in [Actions -> Nat]
           /\ reported \in [Actions -> ObservationKinds \cup {"none"}]
           /\ effects \in [Actions -> Nat]
           /\ crashes \in Nat

LEMMA TypeParts ==
  TypeOK <=> /\ FrameOK /\ PcOK /\ OutOK /\ RowsOK /\ ClaimsOK /\ ObservedOK
             /\ ResultOK /\ WorldOK
BY DEF TypeOK, StoreTypeOK, FrameOK, Copies, PcOK, OutOK, RowsOK, ClaimsOK,
       ObservedOK, ResultOK, WorldOK

LEMMA GotoType ==
  ASSUME PcOK, NEW r \in Requests, NEW l \in Locations, Goto(r, l)
  PROVE  PcOK'
BY DEF PcOK, Goto

LEMMA ResType ==
  ASSUME FrameOK, NEW r \in Requests, NEW s \in ObjectiveStates, NEW b \in BOOLEAN
  PROVE  Res(r, s, b) \in Results
BY DEF FrameOK, Copies, Res, Results, Keys

LEMMA AnswerType ==
  ASSUME FrameOK, OutOK, NEW r \in Requests, NEW s \in ObjectiveStates,
         NEW b \in BOOLEAN, Answer(r, s, b)
  PROVE  OutOK'
BY ResType DEF OutOK, Answer

LEMMA UnwindType ==
  ASSUME FrameOK, NEW r \in Requests, Unwind(r)
  PROVE  FrameOK'
<1>1. NoCopy \in Copies
  BY DEF NoCopy, Copies
<1> QED BY <1>1 DEF FrameOK, Unwind

LEMMA ReturnType ==
  ASSUME FrameOK, PcOK, OutOK, NEW r \in Requests, NEW res \in Results,
         Return(r, res)
  PROVE  FrameOK' /\ PcOK' /\ OutOK'
BY UnwindType DEF Return, PcOK, OutOK, Goto, Locations

LEMMA SaveObjectiveType ==
  ASSUME RowsOK, NEW o \in ObjectiveIds \cup {NoObjective},
         NEW row \in ObjectiveRows, SaveObjective(o, row)
  PROVE  RowsOK'
BY DEF RowsOK, SaveObjective

LEMMA SaveCopyType ==
  ASSUME RowsOK, FrameOK, NEW r \in Requests,
         NEW s \in ObjectiveStates \cup {"none"}, SaveCopy(r, s)
  PROVE  RowsOK'
<1>1. held[r].id \in ObjectiveIds \cup {NoObjective}
  BY DEF FrameOK, Copies
<1>2. [state |-> s, action |-> held[r].action] \in ObjectiveRows
  BY DEF FrameOK, Copies, ObjectiveRows
<1> QED BY <1>1, <1>2, SaveObjectiveType DEF SaveCopy

LEMMA SaveResultType ==
  ASSUME NEW key \in Keys, NEW res \in Results, SaveResult(key, res)
  PROVE  ResultOK'
BY DEF ResultOK, SaveResult, Results

LEMMA GetResultType ==
  ASSUME ResultOK, NEW key
  PROVE  GetResult(key) \in Results
BY DEF ResultOK, GetResult, Results, NoResult, Keys

LEMMA UpdateActionStateType ==
  ASSUME ClaimsOK, NEW a \in Actions, NEW s \in ObjectiveStates \cup {"none"},
         UpdateActionState(a, s)
  PROVE  ClaimsOK'
BY DEF ClaimsOK, UpdateActionState, ActionRows

LEMMA SaveObservationType ==
  ASSUME ObservedOK, NEW a \in Actions, NEW k \in ObservationKinds \cup {"none"},
         SaveObservation(a, k)
  PROVE  ObservedOK'
BY DEF ObservedOK, SaveObservation, Stored, ObservationKinds

LEMMA TypeStep ==
  ASSUME Control, [Next]_vars
  PROVE  TypeOK'
<1> DEFINE Parts == /\ FrameOK /\ PcOK /\ OutOK /\ RowsOK /\ ClaimsOK
                    /\ ObservedOK /\ ResultOK /\ WorldOK
<1> USE StoreAssumption, KernelAssumption DEF storeVars, frame, worldVars
<1>p. Parts
  BY TypeParts DEF Control
<1> SUFFICES Parts'
  BY DEF TypeOK, StoreTypeOK, FrameOK, Copies, PcOK, OutOK, RowsOK, ClaimsOK,
         ObservedOK, ResultOK, WorldOK
<1> HIDE DEF Parts
<1>k. /\ Actions \subseteq Keys /\ "decision" \in Keys
      /\ NoResult \in Results /\ NoAction \notin Actions
  BY DEF Keys, NoResult, Results
<1>s. UNCHANGED storeVars /\ Parts => /\ RowsOK' /\ ClaimsOK' /\ ObservedOK' /\ ResultOK'
  BY DEF Parts, RowsOK, ClaimsOK, ObservedOK, ResultOK
<1>f. UNCHANGED frame /\ Parts => FrameOK'
  BY DEF Parts, FrameOK
<1>w. UNCHANGED <<worldVars, crashes>> /\ Parts => WorldOK'
  BY DEF Parts, WorldOK
<1>1. CASE UNCHANGED vars
  BY <1>1, <1>p, <1>s, <1>f, <1>w DEF vars, localVars, Parts, PcOK, OutOK
<1>2. ASSUME NEW r \in Requests, Lookup(r), UNCHANGED crashes PROVE Parts'
  <2> DEFINE row == GetObjectiveByCorrelation
             copy == [id |-> newest, state |-> row.state, action |-> row.action]
  <2>a. copy \in Copies /\ row.action \in Actions \cup {NoAction}
    BY <1>p DEF Parts, RowsOK, Copies, ObjectiveRows, GetObjectiveByCorrelation, NoRow
  <2>1. FrameOK'
    <3>1. CASE held' = [held EXCEPT ![r] = copy] /\ act' = [act EXCEPT ![r] = row.action]
      BY <1>2, <1>p, <2>a, <3>1 DEF Lookup, Parts, FrameOK
    <3>2. CASE UNCHANGED <<held, act>>
      BY <1>2, <1>p, <3>2 DEF Lookup, Parts, FrameOK
    <3> QED BY <1>2, <3>1, <3>2 DEF Lookup
  <2>2. PcOK'
    BY <1>2, <1>p DEF Lookup, Parts, PcOK, Goto, Locations
  <2> QED BY <1>2, <1>p, <1>s, <1>w, <2>1, <2>2 DEF Lookup, Parts, OutOK
<1>3. ASSUME NEW r \in Requests, Create(r), UNCHANGED crashes PROVE Parts'
  <2>1. PICK o \in ObjectiveIds :
          /\ held' = [held EXCEPT ![r] = [id |-> o, state |-> "PROPOSED",
                                          action |-> NoAction]]
          /\ SaveObjective(o, [state |-> "PROPOSED", action |-> NoAction])
    BY <1>3 DEF Create, FreshIds
  <2>a. [id |-> o, state |-> "PROPOSED", action |-> NoAction] \in Copies
    BY DEF Copies, ObjectiveStates
  <2>2. FrameOK'
    <3>1. UNCHANGED <<origin, act, won, seen>>
      BY <1>3 DEF Create
    <3> QED BY <1>p, <2>1, <2>a, <3>1 DEF Parts, FrameOK
  <2>3. RowsOK'
    BY <1>p, <2>1, SaveObjectiveType DEF Parts, ObjectiveRows, ObjectiveStates
  <2>4. PcOK'
    BY <1>3, <1>p, GotoType DEF Create, Parts, Locations
  <2> QED BY <1>3, <1>p, <1>w, <2>2, <2>3, <2>4
          DEF Create, Parts, OutOK, ClaimsOK, ObservedOK, ResultOK
<1>4. ASSUME NEW r \in Requests, NEW a \in Actions, DecideAction(r, a),
             UNCHANGED crashes
      PROVE  Parts'
  <2> DEFINE s == IF origin[r] = "nothing" THEN "VALIDATED" ELSE held[r].state
  <2>1. s \in ObjectiveStates \cup {"none"}
    BY <1>p DEF Parts, FrameOK, Copies, ObjectiveStates
  <2>a. [id |-> held[r].id, state |-> s, action |-> a] \in Copies
    BY <1>p, <2>1 DEF Parts, FrameOK, Copies
  <2>2. FrameOK'
    BY <1>4, <1>p, <2>a DEF DecideAction, Parts, FrameOK
  <2>3. /\ held[r].id \in ObjectiveIds \cup {NoObjective}
        /\ [state |-> s, action |-> a] \in ObjectiveRows
        /\ SaveObjective(held[r].id, [state |-> s, action |-> a])
    BY <1>4, <1>p, <2>1 DEF DecideAction, Parts, FrameOK, Copies, ObjectiveRows
  <2>4. RowsOK'
    BY <1>p, <2>3, SaveObjectiveType DEF Parts
  <2>5. PcOK'
    BY <1>4, <1>p, GotoType DEF DecideAction, Parts, Locations
  <2> QED BY <1>4, <1>p, <1>w, <2>2, <2>4, <2>5
          DEF DecideAction, Parts, OutOK, ClaimsOK, ObservedOK, ResultOK
<1>5. ASSUME NEW r \in Requests, DecideTerminal(r), UNCHANGED crashes PROVE Parts'
  <2>1. PICK s \in ObjectiveStates : Return(r, Res(r, s, FALSE))
    BY <1>5 DEF DecideTerminal, ObjectiveStates
  <2>2. FrameOK' /\ PcOK' /\ OutOK'
    BY <1>p, <2>1, ResType, ReturnType DEF Parts
  <2> QED BY <1>5, <1>p, <1>s, <1>w, <2>2 DEF DecideTerminal, Parts
<1>6. ASSUME NEW r \in Requests, DecideInvalid(r), UNCHANGED crashes PROVE Parts'
  <2>1. Res(r, "BLOCKED", TRUE) \in Results
    BY <1>p, ResType DEF Parts, ObjectiveStates
  <2>2. FrameOK' /\ PcOK' /\ OutOK'
    BY <1>6, <1>p, <2>1, ReturnType DEF Parts, DecideInvalid
  <2>3. ResultOK'
    BY <1>6, <1>k, <2>1, SaveResultType DEF DecideInvalid
  <2> QED BY <1>6, <1>p, <1>w, <2>2, <2>3
          DEF DecideInvalid, Parts, RowsOK, ClaimsOK, ObservedOK
<1>7. ASSUME NEW r \in Requests, DecideRaises(r), UNCHANGED crashes PROVE Parts'
  <2>1. RowsOK' /\ OutOK' /\ PcOK'
    BY <1>7, <1>p, SaveCopyType, AnswerType, GotoType
    DEF DecideRaises, Parts, ObjectiveStates, Locations
  <2> QED BY <1>7, <1>p, <1>f, <1>w, <2>1
          DEF DecideRaises, Parts, ClaimsOK, ObservedOK, ResultOK
<1>8. ASSUME NEW r \in Requests, SaveDecision(r), UNCHANGED crashes PROVE Parts'
  <2>1. out[r] \in Results
    BY <1>p DEF Parts, OutOK
  <2>2. FrameOK' /\ PcOK' /\ OutOK' /\ ResultOK'
    BY <1>8, <1>p, <1>k, <2>1, ReturnType, SaveResultType DEF Parts, SaveDecision
  <2> QED BY <1>8, <1>p, <1>w, <2>2
          DEF SaveDecision, Parts, RowsOK, ClaimsOK, ObservedOK
<1>9. ASSUME NEW r \in Requests, Bind(r), UNCHANGED crashes PROVE Parts'
  <2>1. held[r].state \in ObjectiveStates \cup {"none"}
    BY <1>p DEF Parts, FrameOK, Copies
  <2>2. RowsOK' /\ PcOK'
    BY <1>9, <1>p, <2>1, SaveCopyType, GotoType DEF Bind, Parts, Locations
  <2> QED BY <1>9, <1>p, <1>f, <1>w, <2>2
          DEF Bind, Parts, OutOK, ClaimsOK, ObservedOK, ResultOK
<1>10. ASSUME NEW r \in Requests, Authorize(r), UNCHANGED crashes PROVE Parts'
  <2>1. CASE UNCHANGED <<objectives, newest, frame, out>>
    <3>1. PcOK'
      BY <1>10, <1>p, <2>1, GotoType, ReturnType DEF Authorize, Parts, PcOK, Goto,
                                                Return, Locations
    <3> QED BY <1>10, <1>p, <1>f, <1>w, <2>1, <3>1
            DEF Authorize, Parts, RowsOK, OutOK, ClaimsOK, ObservedOK, ResultOK
  <2>2. ASSUME NEW s \in {"BLOCKED", "APPROVAL_REQUIRED"},
               SaveCopy(r, s), Return(r, Res(r, s, FALSE))
        PROVE  Parts'
    <3>1. s \in ObjectiveStates
      BY DEF ObjectiveStates
    <3>2. RowsOK' /\ FrameOK' /\ PcOK' /\ OutOK'
      BY <1>p, <2>2, <3>1, ResType, ReturnType, SaveCopyType DEF Parts
    <3> QED BY <1>10, <1>p, <1>w, <3>2
            DEF Authorize, Parts, ClaimsOK, ObservedOK, ResultOK
  <2> QED BY <1>10, <2>1, <2>2 DEF Authorize
<1>11. ASSUME NEW r \in Requests, Prepare(r), UNCHANGED crashes PROVE Parts'
  <2>1. held[r].state \in ObjectiveStates \cup {"none"}
    BY <1>p DEF Parts, FrameOK, Copies
  <2>2. RowsOK' /\ PcOK' /\ OutOK'
    BY <1>11, <1>p, <2>1, SaveCopyType, GotoType, AnswerType
    DEF Prepare, Parts, Locations, ObjectiveStates, OutOK
  <2> QED BY <1>11, <1>p, <1>f, <1>w, <2>2
          DEF Prepare, Parts, ClaimsOK, ObservedOK, ResultOK
<1>12. ASSUME NEW r \in Requests, SaveUnprepared(r), UNCHANGED crashes PROVE Parts'
  <2>1. out[r] \in Results /\ act[r] \in Keys
    BY <1>12, <1>p, <1>k DEF Control, RequestOK, Parts, OutOK, SaveUnprepared, Bound
  <2>2. FrameOK' /\ PcOK' /\ OutOK' /\ ResultOK'
    BY <1>12, <1>p, <2>1, ReturnType, SaveResultType DEF Parts, SaveUnprepared
  <2> QED BY <1>12, <1>p, <1>w, <2>2
          DEF SaveUnprepared, Parts, RowsOK, ClaimsOK, ObservedOK
<1>13. ASSUME NEW r \in Requests, Prior(r), UNCHANGED crashes PROVE Parts'
  <2>1. GetResult(act[r]) \in Results
    BY <1>p, GetResultType DEF Parts
  <2>2. [GetResult(act[r]) EXCEPT !.state = "COMPLETED", !.retryable = FALSE] \in Results
    BY <2>1 DEF Results, ObjectiveStates
  <2>3. FrameOK' /\ PcOK' /\ OutOK'
    <3>1. CASE Return(r, GetResult(act[r]))
      BY <1>p, <2>1, <3>1, ReturnType DEF Parts
    <3>2. CASE Goto(r, "saveReconciled") /\ UNCHANGED frame
               /\ out' = [out EXCEPT ![r] = [GetResult(act[r]) EXCEPT
                            !.state = "COMPLETED", !.retryable = FALSE]]
      BY <1>p, <1>f, <2>2, <3>2, GotoType DEF Parts, OutOK, Locations
    <3>3. CASE Goto(r, "claim") /\ UNCHANGED <<frame, out>>
      BY <1>p, <1>f, <3>3, GotoType DEF Parts, OutOK, Locations
    <3> QED BY <1>13, <3>1, <3>2, <3>3 DEF Prior
  <2> QED BY <1>13, <1>p, <1>s, <1>w, <2>3 DEF Prior, Parts
<1>14. ASSUME NEW r \in Requests, SaveReconciled(r), UNCHANGED crashes PROVE Parts'
  <2>1. out[r] \in Results /\ act[r] \in Keys /\ act[r] \in Actions
    BY <1>14, <1>p, <1>k DEF Control, RequestOK, Parts, OutOK, SaveReconciled, Bound
  <2>2. FrameOK' /\ PcOK' /\ OutOK' /\ ResultOK' /\ ClaimsOK'
    BY <1>14, <1>p, <2>1, ReturnType, SaveResultType, UpdateActionStateType
    DEF Parts, SaveReconciled, ObjectiveStates
  <2> QED BY <1>14, <1>p, <1>w, <2>2 DEF SaveReconciled, Parts, RowsOK, ObservedOK
<1>15. ASSUME NEW r \in Requests, Claim(r), UNCHANGED crashes PROVE Parts'
  <2>1. act[r] \in Actions /\ held[r].id \in ObjectiveIds
    BY <1>15 DEF Control, RequestOK, Claim, Bound, HoldsItsRow
  <2>2. ClaimsOK'
    BY <1>15, <1>p, <2>1 DEF Claim, ClaimAction, Parts, ClaimsOK, ActionRows,
                             ObjectiveStates
  <2>3. FrameOK' /\ PcOK'
    BY <1>15, <1>p, GotoType DEF Claim, Parts, FrameOK, Locations
  <2> QED BY <1>15, <1>p, <1>w, <2>2, <2>3
          DEF Claim, Parts, RowsOK, OutOK, ObservedOK, ResultOK
<1>16. ASSUME NEW r \in Requests, Canonical(r), UNCHANGED crashes PROVE Parts'
  <2> DEFINE id == actions[act[r]].objective
             known == GetResult(act[r])
             pending == [key |-> "none", action |-> act[r], objective |-> id,
                         state |-> "EXECUTING", retryable |-> FALSE]
  <2>1. act[r] \in Actions /\ id \in ObjectiveIds
    BY <1>16 DEF Control, RequestOK, ClaimOK, Canonical, Bound, Claiming
  <2>2. known \in Results /\ pending \in Results
    BY <1>p, <2>1, GetResultType DEF Parts, Results, Keys, ObjectiveStates
  <2>3. FrameOK' /\ PcOK' /\ OutOK'
    <3>1. CASE Return(r, known) \/ Return(r, pending)
      BY <1>p, <2>2, <3>1, ReturnType DEF Parts
    <3>2. CASE /\ held' = [held EXCEPT ![r] =
                             IF objectives[id] = NoRow THEN @
                             ELSE [id |-> id, state |-> "none",
                                   action |-> objectives[id].action]]
               /\ Goto(r, "execute") /\ UNCHANGED <<origin, act, won, seen, out>>
      <4>1. [id |-> id, state |-> "none", action |-> objectives[id].action] \in Copies
        BY <1>p, <2>1 DEF Parts, RowsOK, ObjectiveRows, Copies
      <4> QED BY <1>p, <3>2, <4>1, GotoType DEF Parts, FrameOK, OutOK, Locations
    <3> QED BY <1>16, <3>1, <3>2 DEF Canonical
  <2> QED BY <1>16, <1>p, <1>s, <1>w, <2>3 DEF Canonical, Parts
<1>17. ASSUME NEW r \in Requests, Execute(r), UNCHANGED crashes PROVE Parts'
  <2>1. act[r] \in Actions
    BY <1>17 DEF Control, RequestOK, Execute, Bound
  <2>2. FrameOK' /\ PcOK'
    BY <1>17, <1>p, <2>1, GotoType DEF Execute, Parts, FrameOK, ObservedOK, Locations
  <2>3. WorldOK'
    BY <1>17, <1>p, <2>1 DEF Execute, Parts, WorldOK
  <2> QED BY <1>17, <1>p, <1>s, <2>2, <2>3 DEF Execute, Parts, OutOK
<1>18. ASSUME NEW r \in Requests, RecordObservation(r), UNCHANGED crashes PROVE Parts'
  <2>1. act[r] \in Actions /\ seen[r] \in ObservationKinds \cup {"none"}
    BY <1>18, <1>p DEF Control, RequestOK, RecordObservation, Bound, Parts, FrameOK
  <2>2. ObservedOK' /\ PcOK'
    BY <1>18, <1>p, <2>1, SaveObservationType, GotoType
    DEF RecordObservation, Parts, Locations
  <2> QED BY <1>18, <1>p, <1>f, <1>w, <2>2
          DEF RecordObservation, Parts, RowsOK, OutOK, ClaimsOK, ResultOK
<1>19. ASSUME NEW r \in Requests, MarkObserved(r), UNCHANGED crashes PROVE Parts'
  <2>1. act[r] \in Actions
    BY <1>19 DEF Control, RequestOK, MarkObserved, Bound
  <2>2. RowsOK' /\ ClaimsOK' /\ PcOK'
    BY <1>19, <1>p, <2>1, SaveCopyType, UpdateActionStateType, GotoType
    DEF MarkObserved, Parts, Locations, ObjectiveStates
  <2> QED BY <1>19, <1>p, <1>f, <1>w, <2>2
          DEF MarkObserved, Parts, OutOK, ObservedOK, ResultOK
<1>20. ASSUME NEW r \in Requests, Verify(r), UNCHANGED crashes PROVE Parts'
  <2>1. OffersRetry(seen[r]) \in BOOLEAN
    BY DEF OffersRetry
  <2>2. RowsOK' /\ OutOK' /\ PcOK'
    <3>1. CASE Answer(r, "FAILED", FALSE) /\ UNCHANGED <<objectives, newest>>
      BY <1>20, <1>p, <3>1, AnswerType, GotoType
      DEF Verify, Parts, RowsOK, ObjectiveStates, Locations
    <3>2. ASSUME NEW s \in ObjectiveStates, NEW b \in BOOLEAN, Conclude(r, s, b)
          PROVE  RowsOK' /\ OutOK' /\ PcOK'
      BY <1>20, <1>p, <3>2, SaveCopyType, AnswerType, GotoType
      DEF Verify, Conclude, Parts, Locations
    <3> QED BY <1>20, <2>1, <3>1, <3>2 DEF Verify, ObjectiveStates
  <2> QED BY <1>20, <1>p, <1>f, <1>w, <2>2
          DEF Verify, Parts, ClaimsOK, ObservedOK, ResultOK
<1>21. ASSUME NEW r \in Requests, SaveFinalResult(r), UNCHANGED crashes PROVE Parts'
  <2>1. out[r] \in Results /\ act[r] \in Keys /\ act[r] \in Actions
    BY <1>21, <1>p, <1>k DEF Control, RequestOK, Parts, OutOK, SaveFinalResult, Bound
  <2>2. out[r].state \in ObjectiveStates \cup {"none"}
    BY <2>1 DEF Results
  <2>3. FrameOK' /\ PcOK' /\ OutOK' /\ ResultOK' /\ ClaimsOK'
    BY <1>21, <1>p, <2>1, <2>2, ReturnType, SaveResultType, UpdateActionStateType
    DEF Parts, SaveFinalResult
  <2> QED BY <1>21, <1>p, <1>w, <2>3 DEF SaveFinalResult, Parts, RowsOK, ObservedOK
<1>22. ASSUME NEW r \in Requests, Crash(r) PROVE Parts'
  <2>1. FrameOK' /\ PcOK'
    BY <1>22, <1>p, UnwindType, GotoType DEF Crash, Parts, Locations
  <2>2. OutOK' /\ WorldOK'
    BY <1>22, <1>p, <1>k DEF Crash, Parts, OutOK, WorldOK
  <2> QED BY <1>22, <1>p, <1>s, <2>1, <2>2 DEF Crash, Parts
<1>23. ASSUME NEW r \in Requests, Replay(r) PROVE Parts'
  <2>1. PcOK' /\ OutOK'
    BY <1>23, <1>p, <1>k, GotoType DEF Replay, Parts, OutOK, Locations
  <2> QED BY <1>23, <1>p, <1>s, <1>f, <1>w, <2>1 DEF Replay, Parts
<1> QED
  BY <1>1, <1>2, <1>3, <1>4, <1>5, <1>6, <1>7, <1>8, <1>9, <1>10, <1>11, <1>12,
     <1>13, <1>14, <1>15, <1>16, <1>17, <1>18, <1>19, <1>20, <1>21, <1>22, <1>23
  DEF Next, Step, RunStep

-----------------------------------------------------------------------------
\* the ways a step may touch what other requests rely on
KeepsRows == \A o \in ObjectiveIds :
  objectives'[o].action = NoAction \/ About(o, objectives'[o].action)
KeepsClaims == \A a \in Actions : /\ actions'[a].objective = actions[a].objective
                                  /\ Claimed(a)' <=> Claimed(a)
OnlyMoves(r) == \A q \in Requests \ {r} :
  pc'[q] = pc[q] /\ act'[q] = act[q] /\ held'[q] = held[q]

\* a request that writes its own copy back names no action that the row is not about
LEMMA SaveCopyKeepsRows ==
  ASSUME TypeOK, NEW r \in Requests, NEW s, held[r].id \in ObjectiveIds,
         held[r].action = NoAction \/ About(held[r].id, held[r].action), SaveCopy(r, s)
  PROVE  KeepsRows
<1>1. ASSUME NEW o \in ObjectiveIds
      PROVE  objectives'[o].action = NoAction \/ About(o, objectives'[o].action)
  <2>1. CASE o = held[r].id
    BY <2>1 DEF TypeOK, StoreTypeOK, SaveCopy, SaveObjective
  <2>2. CASE o # held[r].id
    <3>1. objectives'[o].action = objectives[o].action
      BY <2>2 DEF TypeOK, StoreTypeOK, SaveCopy, SaveObjective
    <3> QED BY <3>1 DEF About
  <2> QED BY <2>1, <2>2
<1> QED BY <1>1 DEF KeepsRows

LEMMA UpdateKeepsClaims ==
  ASSUME TypeOK, NEW a \in Actions, NEW s, \A b \in Actions : ClaimOK(b),
         UpdateActionState(a, s)
  PROVE  KeepsClaims
<1> USE StoreAssumption
<1>1. \A b \in Actions : Claimed(b) => actions[b].objective # NoObjective
  BY DEF ClaimOK
<1>2. ASSUME NEW b \in Actions
      PROVE  /\ actions'[b].objective = actions[b].objective
             /\ Claimed(b)' <=> Claimed(b)
  <2>1. CASE actions' = actions
    BY <2>1 DEF Claimed
  <2>2. CASE Claimed(a) /\ actions' = [actions EXCEPT ![a].state = s]
    <3>1. actions'[b].objective = actions[b].objective
      BY <2>2 DEF TypeOK, StoreTypeOK, ActionRows
    <3>2. b # a => actions'[b] = actions[b]
      BY <2>2 DEF TypeOK, StoreTypeOK
    <3>3. b = a => Claimed(b) /\ actions'[b].objective # NoObjective
      BY <1>1, <2>2, <3>1
    <3> QED BY <3>1, <3>2, <3>3 DEF Claimed, NoClaim
  <2> QED BY <2>1, <2>2 DEF UpdateActionState, Claimed
<1> QED BY <1>2 DEF KeepsClaims

\* what a row may be about does not grow
AboutShrinks == \A o \in ObjectiveIds : \A a \in Actions : About(o, a)' => About(o, a)

LEMMA ShrinksUnless ==
  ASSUME NEW r \in Requests, KeepsRows, KeepsClaims, OnlyMoves(r),
         pc'[r] \in Bound => About(held'[r].id, act'[r])
  PROVE  AboutShrinks
<1> USE StoreAssumption
<1> SUFFICES ASSUME NEW o \in ObjectiveIds, NEW a \in Actions, About(o, a)'
             PROVE  About(o, a)
  BY DEF AboutShrinks
<1>1. CASE objectives'[o].action = a
  BY <1>1 DEF KeepsRows
<1>2. CASE actions'[a].objective = o
  BY <1>2 DEF KeepsClaims, About
<1>3. ASSUME NEW q \in Requests, pc'[q] \in Bound, held'[q].id = o, act'[q] = a
      PROVE  About(o, a)
  <2>1. CASE q = r
    BY <1>3, <2>1
  <2>2. CASE q # r
    <3>1. pc[q] \in Bound /\ held[q].id = o /\ act[q] = a
      BY <1>3, <2>2 DEF OnlyMoves
    <3> QED BY <3>1 DEF About
  <2> QED BY <2>1, <2>2
<1> QED BY <1>1, <1>2, <1>3 DEF About

LEMMA ShrinkingKeepsOne ==
  ASSUME RowsAreAboutOne, AboutShrinks
  PROVE  RowsAreAboutOne'
BY DEF RowsAreAboutOne, AboutShrinks

\* an objective that no action is about, named by the request that holds it
LEMMA NothingAbout ==
  ASSUME NEW q \in Requests, NEW o \in ObjectiveIds, o = held'[q].id,
         \A a \in Actions : ~About(o, a)'
  PROVE  \A a \in Actions : ~About(held[q].id, a)'
BY DEF About

\* rows and claims stay: only the request that moved has to be looked at
LEMMA QuietStep ==
  ASSUME Control, TypeOK', NEW r \in Requests, KeepsRows, KeepsClaims,
         OnlyMoves(r), RequestOK(r)',
         pc'[r] \in Bound => About(held'[r].id, act'[r]),
         \/ held'[r].id = held[r].id
         \/ held'[r].id = NoObjective
         \/ held'[r].id \in ObjectiveIds /\ \E a \in Actions : About(held'[r].id, a)
  PROVE  Control'
<1> USE StoreAssumption
<1>s. AboutShrinks
  BY ShrinksUnless
<1>1. ASSUME NEW a \in Actions PROVE ClaimOK(a)'
  BY DEF Control, ClaimOK, KeepsClaims
<1>2. ASSUME NEW q \in Requests \ {r} PROVE RequestOK(q)'
  <2>1. RequestOK(q)
    BY DEF Control
  <2>2. pc'[q] = pc[q] /\ act'[q] = act[q] /\ held'[q] = held[q]
    BY DEF OnlyMoves
  <2>3. HoldsItsRow(q) => HoldsItsRow(q)'
    BY <2>2 DEF HoldsItsRow
  <2>4. OwnsItsRow(q) => OwnsItsRow(q)'
    <3> SUFFICES ASSUME OwnsItsRow(q) PROVE OwnsItsRow(q)'
      OBVIOUS
    <3>1. PICK o \in ObjectiveIds : o = held[q].id
      BY DEF OwnsItsRow
    <3>6. \A a \in Actions : ~About(o, a)'
      BY <1>s, <3>1 DEF OwnsItsRow, AboutShrinks
    <3>2. \A a \in Actions : ~About(held[q].id, a)
      BY DEF OwnsItsRow
    <3>3. held'[r].id # held[q].id
      BY <3>2 DEF OwnsItsRow
    <3>4. \A p \in Requests \ {q} : held'[p].id # held'[q].id
      BY <2>2, <3>3 DEF OwnsItsRow, OnlyMoves
    <3>5. \A a \in Actions : ~About(held[q].id, a)'
      BY <2>2, <3>1, <3>6, NothingAbout
    <3> QED BY <2>2, <3>4, <3>5 DEF OwnsItsRow
  <2> QED BY <2>1, <2>2, <2>3, <2>4 DEF RequestOK, KeepsClaims, Claimed, Claiming, Bound
<1> QED BY <1>s, <1>1, <1>2, ShrinkingKeepsOne DEF Control

\* the call is over: nothing is held any more
LEMMA ReturnStep ==
  ASSUME Control, TypeOK', NEW r \in Requests, KeepsRows, KeepsClaims,
         Unwind(r), \E l : l \notin Bound \cup Deciding /\ Goto(r, l)
  PROVE  Control'
<1>1. OnlyMoves(r) /\ pc'[r] \notin Bound
  BY DEF Control, TypeOK, OnlyMoves, Unwind, Goto
<1>2. RequestOK(r)' /\ held'[r].id = NoObjective
  BY DEF Control, TypeOK, RequestOK, Unwind, Goto, NoCopy, Claiming, Bound
<1> QED BY <1>1, <1>2, QuietStep

\* the request goes on with what it holds
LEMMA MoveStep ==
  ASSUME Control, TypeOK', NEW r \in Requests, KeepsRows, KeepsClaims,
         UNCHANGED frame, NEW l, Goto(r, l),
         pc[r] \in Bound <=> l \in Bound,
         pc[r] \in Deciding <=> l \in Deciding,
         l \in Claiming => pc[r] \in Claiming
  PROVE  Control'
<1>1. OnlyMoves(r) /\ pc'[r] = l /\ held'[r] = held[r] /\ act'[r] = act[r]
  BY DEF Control, TypeOK, OnlyMoves, Goto, frame
<1>2. pc'[r] \in Bound => About(held'[r].id, act'[r])
  BY <1>1 DEF About
<1>3. HoldsItsRow(r) => HoldsItsRow(r)'
  BY <1>1 DEF HoldsItsRow
<1>4. OwnsItsRow(r) => OwnsItsRow(r)'
  <2> SUFFICES ASSUME OwnsItsRow(r) PROVE OwnsItsRow(r)'
    OBVIOUS
  <2>3. PICK o \in ObjectiveIds : o = held[r].id
    BY DEF OwnsItsRow
  <2>4. \A a \in Actions : ~About(o, a)'
    BY <1>1, <1>2, <2>3, ShrinksUnless DEF OwnsItsRow, AboutShrinks
  <2>1. \A a \in Actions : ~About(held[r].id, a)'
    BY <1>1, <2>3, <2>4, NothingAbout
  <2>2. \A q \in Requests \ {r} : held'[q].id # held'[r].id
    BY <1>1 DEF OwnsItsRow, OnlyMoves
  <2> QED BY <1>1, <2>1, <2>2 DEF OwnsItsRow
<1>5. RequestOK(r)'
  BY <1>1, <1>3, <1>4 DEF Control, RequestOK, KeepsClaims, Claimed, Claiming, Bound
<1> QED BY <1>1, <1>2, <1>5, QuietStep

LEMMA Nothing ==
  /\ UNCHANGED objectives => KeepsRows
  /\ UNCHANGED actions => KeepsClaims
BY DEF KeepsRows, KeepsClaims, Claimed, About

\* The first layer is preserved by every step.
LEMMA ControlStep ==
  ASSUME Control, [Next]_vars
  PROVE  Control'
<1> USE StoreAssumption, KernelAssumption DEF storeVars, worldVars
<1>t. TypeOK /\ TypeOK'
  BY TypeStep DEF Control
<1>l. /\ Bound \cup Deciding \subseteq Locations /\ Claiming \subseteq Bound
      /\ {"done", "crashed", "lookup", "create"} \subseteq Locations \ (Bound \cup Deciding)
  BY DEF Bound, Deciding, Claiming, Locations
<1>r. ASSUME NEW r \in Requests, pc[r] \in Bound \cup Deciding
      PROVE  /\ held[r].id \in ObjectiveIds
             /\ held[r].action = NoAction \/ About(held[r].id, held[r].action)
  BY <1>r DEF Control, RequestOK, HoldsItsRow, OwnsItsRow, About
<1>o. \A r \in Requests : RequestOK(r)
  BY DEF Control
<1>1. CASE UNCHANGED vars
  BY <1>1, <1>t DEF vars, localVars, frame, Control, ClaimOK, Claimed, RequestOK,
                    HoldsItsRow, OwnsItsRow, RowsAreAboutOne, About
<1>2. ASSUME NEW r \in Requests, Lookup(r), UNCHANGED crashes PROVE Control'
  <2>1. OnlyMoves(r) /\ KeepsRows /\ KeepsClaims
    BY <1>2, <1>t, Nothing DEF Lookup, TypeOK, OnlyMoves, Goto
  <2>2. CASE GetObjectiveByCorrelation.action # NoAction
    <3>1. newest \in ObjectiveIds /\ objectives[newest].action \in Actions
      BY <1>t, <2>2 DEF GetObjectiveByCorrelation, NoRow, TypeOK, StoreTypeOK, ObjectiveRows
    <3>2. /\ held'[r].id = newest /\ held'[r].action = objectives[newest].action
          /\ act'[r] = objectives[newest].action /\ pc'[r] = "bind"
          /\ objectives' = objectives
      BY <1>2, <1>t, <2>2, <3>1 DEF Lookup, GetObjectiveByCorrelation, TypeOK, Goto
    <3>3. RequestOK(r)'
      BY <3>1, <3>2 DEF RequestOK, HoldsItsRow, Bound, Claiming, Deciding
    <3>4. About(held'[r].id, act'[r])
      BY <3>1, <3>2 DEF About
    <3> QED BY <1>t, <2>1, <3>1, <3>2, <3>3, <3>4, QuietStep
  <2>3. CASE GetObjectiveByCorrelation.action = NoAction
    <3>1. held' = held /\ act' = act /\ pc[r] = "lookup" /\ pc'[r] = "create"
      BY <1>2, <1>t, <2>3 DEF Lookup, TypeOK, Goto
    <3>2. RequestOK(r)' /\ pc'[r] \notin Bound
      BY <1>o, <3>1, <1>l DEF RequestOK, Bound, Claiming, Deciding
    <3> QED BY <1>t, <2>1, <3>1, <3>2, QuietStep
  <2> QED BY <2>2, <2>3
<1>3. ASSUME NEW r \in Requests, Create(r), UNCHANGED crashes PROVE Control'
  <2>1. PICK o \in FreshIds :
          /\ held' = [held EXCEPT ![r] = [id |-> o, state |-> "PROPOSED",
                                          action |-> NoAction]]
          /\ SaveObjective(o, [state |-> "PROPOSED", action |-> NoAction])
    BY <1>3 DEF Create
  <2>2. /\ UNCHANGED <<actions, act>> /\ pc' = [pc EXCEPT ![r] = "decide"]
        /\ pc[r] = "create"
    BY <1>3 DEF Create, Goto
  <2>3. /\ o \in ObjectiveIds
        /\ \A a \in Actions : actions[a].objective # o
        /\ \A q \in Requests : held[q].id # o
    BY <2>1 DEF FreshIds
  <2>4. \A x \in ObjectiveIds \ {o} : objectives'[x] = objectives[x]
    BY <1>t, <2>1 DEF SaveObjective, TypeOK, StoreTypeOK
  <2>5. ASSUME NEW a \in Actions PROVE ClaimOK(a)'
    BY <2>2 DEF Control, ClaimOK, Claimed
  <2>a. /\ held'[r] = [id |-> o, state |-> "PROPOSED", action |-> NoAction]
        /\ objectives'[o].action = NoAction /\ pc'[r] = "decide" /\ act'[r] = NoAction
        /\ OnlyMoves(r)
    <3>1. act[r] = NoAction
      BY <1>o, <2>2 DEF RequestOK, Bound
    <3> QED BY <1>t, <2>1, <2>2, <2>3, <3>1 DEF SaveObjective, TypeOK, StoreTypeOK, OnlyMoves
  <2>b. AboutShrinks
    <3>1. KeepsRows
      BY <2>4, <2>a DEF KeepsRows, About
    <3>2. KeepsClaims /\ pc'[r] \notin Bound
      BY <2>2, <2>a, Nothing DEF Bound
    <3> QED BY <2>a, <3>1, <3>2, ShrinksUnless
  <2>c. \A a \in Actions : ~About(o, a)'
    <3>1. \A a \in Actions : a # NoAction
      OBVIOUS
    <3>2. pc'[r] \notin Bound
      BY <2>a DEF Bound
    <3>3. \A q \in Requests : q # r => held'[q].id # o
      BY <2>3, <2>a DEF OnlyMoves
    <3> QED BY <2>2, <2>3, <2>a, <3>1, <3>2, <3>3 DEF About
  <2>6. RequestOK(r)'
    <3>1. \A q \in Requests \ {r} : held'[q].id # o
      BY <2>3, <2>a DEF OnlyMoves
    <3>3. \A a \in Actions : ~About(held[r].id, a)'
      BY <2>3, <2>a, <2>c, NothingAbout
    <3>2. OwnsItsRow(r)'
      BY <2>3, <2>a, <3>1, <3>3 DEF OwnsItsRow
    <3> QED BY <2>a, <3>2 DEF RequestOK, Bound, Claiming
  <2>7. ASSUME NEW q \in Requests \ {r} PROVE RequestOK(q)'
    <3>1. pc'[q] = pc[q] /\ held'[q] = held[q] /\ act'[q] = act[q]
      BY <2>a DEF OnlyMoves
    <3>2. HoldsItsRow(q) => HoldsItsRow(q)'
      BY <3>1 DEF HoldsItsRow
    <3>3. OwnsItsRow(q) => OwnsItsRow(q)'
      <4> SUFFICES ASSUME OwnsItsRow(q) PROVE OwnsItsRow(q)'
        OBVIOUS
      <4>3. PICK x \in ObjectiveIds : x = held[q].id
        BY DEF OwnsItsRow
      <4>4. \A a \in Actions : ~About(x, a)'
        BY <2>b, <4>3 DEF OwnsItsRow, AboutShrinks
      <4>1. \A a \in Actions : ~About(held[q].id, a)'
        BY <3>1, <4>3, <4>4, NothingAbout
      <4>2. \A p \in Requests \ {q} : held'[p].id # held'[q].id
        BY <2>3, <2>a, <3>1 DEF OwnsItsRow, OnlyMoves
      <4> QED BY <3>1, <4>1, <4>2 DEF OwnsItsRow
    <3> QED BY <1>o, <1>l, <2>2, <3>1, <3>2, <3>3 DEF RequestOK, Claimed
  <2> QED BY <1>t, <2>5, <2>6, <2>7, <2>b, ShrinkingKeepsOne DEF Control
<1>4. ASSUME NEW r \in Requests, NEW a \in Actions, DecideAction(r, a),
             UNCHANGED crashes
      PROVE  Control'
  <2> DEFINE o == held[r].id
  <2>1. PICK s : /\ held' = [held EXCEPT ![r] = [id |-> o, state |-> s, action |-> a]]
                 /\ SaveObjective(o, [state |-> s, action |-> a])
    BY <1>4 DEF DecideAction
  <2>2. /\ UNCHANGED actions /\ act' = [act EXCEPT ![r] = a]
        /\ pc' = [pc EXCEPT ![r] = "authorize"] /\ pc[r] = "decide"
    BY <1>4 DEF DecideAction, Goto
  <2>3. OwnsItsRow(r)
    BY <1>o, <2>2 DEF RequestOK, Deciding
  <2>4. \A x \in ObjectiveIds \ {o} : objectives'[x] = objectives[x]
    BY <1>t, <2>1 DEF SaveObjective, TypeOK, StoreTypeOK
  <2>5. ASSUME NEW b \in Actions PROVE ClaimOK(b)'
    BY <2>2 DEF Control, ClaimOK, Claimed
  <2>a. /\ held'[r].id = o /\ held'[r].action = a /\ act'[r] = a
        /\ objectives'[o].action = a /\ o \in ObjectiveIds /\ pc'[r] = "authorize"
        /\ \A q \in Requests : held'[q].id = held[q].id
        /\ OnlyMoves(r)
    BY <1>t, <2>1, <2>2, <2>3 DEF OwnsItsRow, SaveObjective, TypeOK, StoreTypeOK, OnlyMoves
  <2>b. ASSUME NEW x \in ObjectiveIds, NEW b \in Actions, About(x, b)'
        PROVE  About(x, b) \/ (x = o /\ b = a)
    <3>1. CASE objectives'[x].action = b
      BY <2>4, <2>a, <3>1 DEF About
    <3>2. CASE actions'[b].objective = x
      BY <2>2, <3>2 DEF About
    <3>3. ASSUME NEW q \in Requests, pc'[q] \in Bound, held'[q].id = x, act'[q] = b, q # r
          PROVE  About(x, b)
      <4>1. pc[q] \in Bound /\ held[q].id = x /\ act[q] = b
        BY <2>a, <3>3 DEF OnlyMoves
      <4> QED BY <4>1 DEF About
    <3> QED BY <2>a, <2>b, <3>1, <3>2, <3>3 DEF About
  <2>c. RowsAreAboutOne'
    <3>1. \A b \in Actions : ~About(o, b)
      BY <2>3 DEF OwnsItsRow
    <3>2. RowsAreAboutOne
      BY DEF Control
    <3>3. ASSUME NEW x \in ObjectiveIds, NEW b \in Actions, NEW c \in Actions,
                 About(x, b)', About(x, c)'
          PROVE  b = c
      BY <2>b, <3>1, <3>2, <3>3 DEF RowsAreAboutOne
    <3> QED BY <3>3 DEF RowsAreAboutOne
  <2>6. RequestOK(r)'
    BY <2>a DEF RequestOK, HoldsItsRow, Bound, Deciding, Claiming
  <2>7. ASSUME NEW q \in Requests \ {r} PROVE RequestOK(q)'
    <3>1. /\ pc'[q] = pc[q] /\ held'[q] = held[q] /\ act'[q] = act[q]
          /\ held[q].id # o
      BY <2>3, <2>a DEF OnlyMoves, OwnsItsRow
    <3>2. HoldsItsRow(q) => HoldsItsRow(q)'
      BY <3>1 DEF HoldsItsRow
    <3>3. OwnsItsRow(q) => OwnsItsRow(q)'
      <4> SUFFICES ASSUME OwnsItsRow(q) PROVE OwnsItsRow(q)'
        OBVIOUS
      <4>3. PICK x \in ObjectiveIds : x = held[q].id
        BY DEF OwnsItsRow
      <4>4. \A b \in Actions : ~About(x, b)'
        BY <2>b, <3>1, <4>3 DEF OwnsItsRow
      <4>1. \A b \in Actions : ~About(held[q].id, b)'
        BY <3>1, <4>3, <4>4, NothingAbout
      <4> QED BY <2>a, <3>1, <4>1 DEF OwnsItsRow
    <3> QED BY <1>o, <1>l, <2>2, <3>1, <3>2, <3>3 DEF RequestOK, Claimed
  <2> QED BY <1>t, <2>5, <2>6, <2>7, <2>c DEF Control
<1>5. ASSUME NEW r \in Requests, DecideTerminal(r), UNCHANGED crashes PROVE Control'
  BY <1>5, <1>t, <1>l, Nothing, ReturnStep DEF DecideTerminal, Return
<1>6. ASSUME NEW r \in Requests, DecideInvalid(r), UNCHANGED crashes PROVE Control'
  BY <1>6, <1>t, <1>l, Nothing, ReturnStep DEF DecideInvalid, Return
<1>7. ASSUME NEW r \in Requests, DecideRaises(r), UNCHANGED crashes PROVE Control'
  <2>1. pc[r] \in Deciding /\ pc[r] \notin Bound
    BY <1>7 DEF DecideRaises, Deciding, Bound
  <2>2. KeepsRows /\ KeepsClaims
    BY <1>7, <1>t, <1>r, <2>1, SaveCopyKeepsRows, Nothing DEF DecideRaises
  <2> QED BY <1>7, <1>t, <2>1, <2>2, MoveStep
          DEF DecideRaises, Deciding, Bound, Claiming, Locations
<1>8. ASSUME NEW r \in Requests, SaveDecision(r), UNCHANGED crashes PROVE Control'
  BY <1>8, <1>t, <1>l, Nothing, ReturnStep DEF SaveDecision, Return
<1>9. ASSUME NEW r \in Requests, Bind(r), UNCHANGED crashes PROVE Control'
  <2>1. pc[r] \in Bound /\ pc[r] \notin Deciding
    BY <1>9 DEF Bind, Deciding, Bound
  <2>2. KeepsRows /\ KeepsClaims
    BY <1>9, <1>t, <1>r, <2>1, SaveCopyKeepsRows, Nothing DEF Bind
  <2> QED BY <1>9, <1>t, <2>1, <2>2, MoveStep
          DEF Bind, Deciding, Bound, Claiming, Locations
<1>10. ASSUME NEW r \in Requests, Authorize(r), UNCHANGED crashes PROVE Control'
  <2>1. pc[r] = "authorize" /\ pc[r] \in Bound /\ KeepsClaims
    BY <1>10, Nothing DEF Authorize, Bound
  <2>2. ASSUME NEW l \in {"prepare", "prior"}, Goto(r, l), UNCHANGED <<objectives, frame>>
        PROVE  Control'
    BY <1>t, <2>1, <2>2, Nothing, MoveStep DEF Deciding, Bound, Claiming, Locations
  <2>3. ASSUME NEW s, NEW res, SaveCopy(r, s), Return(r, res) PROVE Control'
    <3>1. KeepsRows
      BY <1>t, <1>r, <2>1, <2>3, SaveCopyKeepsRows
    <3> QED BY <1>t, <1>l, <2>1, <2>3, <3>1, ReturnStep DEF Return
  <2> QED BY <1>10, <2>2, <2>3 DEF Authorize
<1>11. ASSUME NEW r \in Requests, Prepare(r), UNCHANGED crashes PROVE Control'
  <2>1. pc[r] = "prepare" /\ pc[r] \in Bound /\ KeepsClaims
    BY <1>11, Nothing DEF Prepare, Bound
  <2>2. KeepsRows
    BY <1>11, <1>t, <1>r, <2>1, SaveCopyKeepsRows DEF Prepare
  <2> QED BY <1>11, <1>t, <2>1, <2>2, MoveStep
          DEF Prepare, Deciding, Bound, Claiming, Locations
<1>12. ASSUME NEW r \in Requests, SaveUnprepared(r), UNCHANGED crashes PROVE Control'
  BY <1>12, <1>t, <1>l, Nothing, ReturnStep DEF SaveUnprepared, Return
<1>13. ASSUME NEW r \in Requests, Prior(r), UNCHANGED crashes PROVE Control'
  <2>1. KeepsRows /\ KeepsClaims /\ pc[r] = "prior"
    BY <1>13, Nothing DEF Prior
  <2>2. ASSUME NEW l \in {"saveReconciled", "claim"}, Goto(r, l), UNCHANGED frame
        PROVE  Control'
    BY <1>t, <2>1, <2>2, MoveStep DEF Deciding, Bound, Claiming, Locations
  <2>3. ASSUME NEW res, Return(r, res) PROVE Control'
    BY <1>t, <1>l, <2>1, <2>3, ReturnStep DEF Return
  <2> QED BY <1>13, <2>2, <2>3 DEF Prior
<1>14. ASSUME NEW r \in Requests, SaveReconciled(r), UNCHANGED crashes PROVE Control'
  <2>1. act[r] \in Actions
    BY <1>14, <1>o DEF SaveReconciled, RequestOK, Bound
  <2>2. KeepsRows /\ KeepsClaims
    BY <1>14, <1>t, <2>1, Nothing, UpdateKeepsClaims DEF SaveReconciled, Control
  <2> QED BY <1>14, <1>t, <1>l, <2>2, ReturnStep DEF SaveReconciled, Return
<1>15. ASSUME NEW r \in Requests, Claim(r), UNCHANGED crashes PROVE Control'
  <2> DEFINE b == act[r]
  <2>1. /\ b \in Actions /\ HoldsItsRow(r) /\ pc[r] = "claim"
        /\ ClaimAction(b, held[r].id)
    BY <1>15, <1>o DEF Claim, RequestOK, Bound
  <2>2. /\ UNCHANGED <<objectives, held, act>> /\ pc' = [pc EXCEPT ![r] = "canonical"]
    BY <1>15 DEF Claim, Goto
  <2>3. \A c \in Actions \ {b} : actions'[c] = actions[c]
    BY <1>t, <2>1 DEF ClaimAction, TypeOK, StoreTypeOK
  <2>4. Claimed(b) => actions'[b] = actions[b]
    BY <2>1 DEF ClaimAction, Claimed
  <2>5. ~Claimed(b) => actions'[b] = [objective |-> held[r].id, state |-> "EXECUTING"]
    BY <1>t, <2>1 DEF ClaimAction, Claimed, TypeOK, StoreTypeOK
  <2>6. ASSUME NEW c \in Actions PROVE ClaimOK(c)' /\ (Claimed(c) => Claimed(c)')
    <3>1. CASE c # b
      BY <2>2, <2>3, <3>1 DEF Control, ClaimOK, Claimed
    <3>2. CASE c = b /\ Claimed(b)
      BY <2>2, <2>4, <3>2 DEF Control, ClaimOK, Claimed
    <3>3. CASE c = b /\ ~Claimed(b)
      BY <2>1, <2>2, <2>5, <3>3 DEF ClaimOK, Claimed, HoldsItsRow
    <3> QED BY <3>1, <3>2, <3>3
  <2>7. Claimed(b)'
    <3>1. [objective |-> held[r].id, state |-> "EXECUTING"] # NoClaim
      BY DEF NoClaim
    <3> QED BY <2>2, <2>4, <2>5, <3>1 DEF Claimed
  <2>a. AboutShrinks
    <3> SUFFICES ASSUME NEW o \in ObjectiveIds, NEW c \in Actions, About(o, c)'
                 PROVE  About(o, c)
      BY DEF AboutShrinks
    <3>1. CASE objectives'[o].action = c
      BY <2>2, <3>1 DEF About
    <3>2. CASE actions'[c].objective = o
      <4>1. actions[c].objective = o \/ (c = b /\ o = held[r].id)
        BY <2>3, <2>4, <2>5, <3>2
      <4> QED BY <2>1, <4>1 DEF About, Bound
    <3>3. ASSUME NEW q \in Requests, pc'[q] \in Bound, held'[q].id = o, act'[q] = c
          PROVE  About(o, c)
      <4>1. pc[q] \in Bound
        BY <1>t, <2>1, <2>2, <3>3 DEF TypeOK, Bound
      <4> QED BY <2>2, <3>3, <4>1 DEF About
    <3> QED BY <3>1, <3>2, <3>3 DEF About
  <2>8. ASSUME NEW q \in Requests PROVE RequestOK(q)'
    <3>1. (HoldsItsRow(q) => HoldsItsRow(q)') /\ (OwnsItsRow(q) => OwnsItsRow(q)')
      BY <2>2, <2>a DEF HoldsItsRow, OwnsItsRow, AboutShrinks
    <3>2. CASE q = r
      BY <1>t, <1>o, <2>1, <2>2, <2>7, <3>1, <3>2
      DEF RequestOK, Bound, Deciding, Locations, TypeOK, Claimed
    <3>3. CASE q # r
      <4>1. pc'[q] = pc[q] /\ act'[q] = act[q]
        BY <1>t, <2>2, <3>3 DEF TypeOK
      <4>2. pc[q] \in Claiming => Claimed(act[q])'
        BY <1>o, <1>l, <2>6, <4>1 DEF RequestOK, Claimed
      <4> QED BY <1>o, <2>2, <3>1, <4>1, <4>2 DEF RequestOK, Claimed
    <3> QED BY <3>2, <3>3
  <2> QED BY <1>t, <2>6, <2>8, <2>a, ShrinkingKeepsOne DEF Control
<1>16. ASSUME NEW r \in Requests, Canonical(r), UNCHANGED crashes PROVE Control'
  <2>1. KeepsRows /\ KeepsClaims /\ pc[r] = "canonical"
    BY <1>16, Nothing DEF Canonical
  <2>2. ASSUME NEW res, Return(r, res) PROVE Control'
    BY <1>t, <1>l, <2>1, <2>2, ReturnStep DEF Return
  <2> DEFINE id == actions[act[r]].objective
  <2>3. CASE /\ held' = [held EXCEPT ![r] = IF objectives[id] = NoRow THEN @
                           ELSE [id |-> id, state |-> "none",
                                 action |-> objectives[id].action]]
             /\ Goto(r, "execute")
             /\ UNCHANGED <<act, objectives, actions>>
    <3>1. /\ act[r] \in Actions /\ Claimed(act[r]) /\ id \in ObjectiveIds
          /\ About(id, act[r]) /\ HoldsItsRow(r) /\ About(held[r].id, act[r])
      BY <1>o, <2>1 DEF RequestOK, Control, ClaimOK, Bound, Claiming, About
    <3>2. objectives[id].action \in {act[r], NoAction}
      <4>1. objectives[id].action \in Actions => About(id, objectives[id].action)
        BY DEF About
      <4> QED BY <1>t, <3>1, <4>1 DEF Control, RowsAreAboutOne, TypeOK, StoreTypeOK, ObjectiveRows
    <3>3. /\ OnlyMoves(r) /\ pc'[r] = "execute" /\ act'[r] = act[r]
          /\ \/ held'[r] = held[r]
             \/ held'[r] = [id |-> id, state |-> "none", action |-> objectives[id].action]
      BY <1>t, <2>3 DEF OnlyMoves, Goto, TypeOK
    <3>4. /\ held'[r].id \in ObjectiveIds /\ held'[r].action \in {act[r], NoAction}
          /\ About(held'[r].id, act[r])
      BY <3>1, <3>2, <3>3 DEF HoldsItsRow
    <3>5. RequestOK(r)'
      BY <2>3, <3>1, <3>3, <3>4 DEF RequestOK, HoldsItsRow, Bound, Deciding, Claimed
    <3> QED BY <1>t, <2>1, <3>1, <3>3, <3>4, <3>5, QuietStep
  <2> QED BY <1>16, <2>2, <2>3 DEF Canonical
<1>17. ASSUME NEW r \in Requests, Execute(r), UNCHANGED crashes PROVE Control'
  <2>1. /\ KeepsRows /\ KeepsClaims /\ pc[r] = "execute"
        /\ UNCHANGED <<act, held>> /\ OnlyMoves(r)
        /\ pc'[r] \in {"saveObservation", "markObserved"} /\ UNCHANGED <<objectives, actions>>
    BY <1>17, <1>t, Nothing DEF Execute, TypeOK, Goto, OnlyMoves
  <2>2. RequestOK(r)'
    BY <1>o, <2>1 DEF RequestOK, HoldsItsRow, Bound, Deciding, Claiming, Claimed
  <2>3. About(held'[r].id, act'[r])
    BY <2>1 DEF About, Bound
  <2> QED BY <1>t, <2>1, <2>2, <2>3, QuietStep
<1>18. ASSUME NEW r \in Requests, RecordObservation(r), UNCHANGED crashes PROVE Control'
  BY <1>18, <1>t, Nothing, MoveStep
  DEF RecordObservation, Deciding, Bound, Claiming, Locations
<1>19. ASSUME NEW r \in Requests, MarkObserved(r), UNCHANGED crashes PROVE Control'
  <2>1. pc[r] = "markObserved" /\ pc[r] \in Bound /\ act[r] \in Actions
    BY <1>19, <1>o DEF MarkObserved, Bound, RequestOK
  <2>2. KeepsRows /\ KeepsClaims
    BY <1>19, <1>t, <1>r, <2>1, SaveCopyKeepsRows, UpdateKeepsClaims
    DEF MarkObserved, Control
  <2> QED BY <1>19, <1>t, <2>1, <2>2, MoveStep
          DEF MarkObserved, Deciding, Bound, Claiming, Locations
<1>20. ASSUME NEW r \in Requests, Verify(r), UNCHANGED crashes PROVE Control'
  <2>1. pc[r] = "verify" /\ pc[r] \in Bound /\ KeepsClaims
    BY <1>20, Nothing DEF Verify, Bound
  <2>2. KeepsRows
    BY <1>20, <1>t, <1>r, <2>1, SaveCopyKeepsRows, Nothing DEF Verify, Conclude
  <2> QED BY <1>20, <1>t, <2>1, <2>2, MoveStep
          DEF Verify, Deciding, Bound, Claiming, Locations
<1>21. ASSUME NEW r \in Requests, SaveFinalResult(r), UNCHANGED crashes PROVE Control'
  <2>1. act[r] \in Actions
    BY <1>21, <1>o DEF SaveFinalResult, RequestOK, Bound
  <2>2. KeepsRows /\ KeepsClaims
    BY <1>21, <1>t, <2>1, Nothing, UpdateKeepsClaims DEF SaveFinalResult, Control
  <2> QED BY <1>21, <1>t, <1>l, <2>2, ReturnStep DEF SaveFinalResult, Return
<1>22. ASSUME NEW r \in Requests, Crash(r) PROVE Control'
  BY <1>22, <1>t, <1>l, Nothing, ReturnStep DEF Crash
<1>23. ASSUME NEW r \in Requests, Replay(r) PROVE Control'
  BY <1>23, <1>t, Nothing, MoveStep
  DEF Replay, Deciding, Bound, Claiming, Locations
<1> QED
  BY <1>1, <1>2, <1>3, <1>4, <1>5, <1>6, <1>7, <1>8, <1>9, <1>10, <1>11, <1>12,
     <1>13, <1>14, <1>15, <1>16, <1>17, <1>18, <1>19, <1>20, <1>21, <1>22, <1>23
  DEF Next, Step, RunStep

-----------------------------------------------------------------------------
ClaimsGrow == \A a \in Actions : Claimed(a) => Claimed(a)'
OnlyHolds(r) == \A q \in Requests \ {r} :
  act'[q] = act[q] /\ won'[q] = won[q] /\ seen'[q] = seen[q]

\* No call and no record is made: only the request that moved has to be looked at
LEMMA CustodyQuiet ==
  ASSUME Control, Custody, TypeOK', NEW r \in Requests,
         UNCHANGED <<calls, observations, effects>>, ClaimsGrow, OnlyHolds(r),
         \A q \in Requests \ {r} : pc'[q] = pc[q],
         CustodyOK(r)', Owns(r)' => Owns(r) /\ act'[r] = act[r]
  PROVE  Custody'
<1>1. ASSUME NEW a \in Actions PROVE CallsOK(a)'
  BY DEF Custody, CallsOK, ClaimsGrow
<1>2. ASSUME NEW q \in Requests \ {r}
      PROVE  CustodyOK(q)' /\ (Owns(q)' <=> Owns(q)) /\ act'[q] = act[q]
  BY DEF Custody, CustodyOK, Owns, OnlyHolds
<1>3. ASSUME NEW p \in Requests, NEW q \in Requests, Owns(p)', Owns(q)', p # q
      PROVE  act'[p] # act'[q]
  BY <1>2, <1>3 DEF Custody
<1> QED BY <1>1, <1>2, <1>3 DEF Custody

\* a request that goes where it neither calls nor records has nothing to keep
LEMMA CustodyElsewhere ==
  ASSUME Control, Custody, TypeOK', NEW r \in Requests,
         UNCHANGED <<calls, observations, effects>>, ClaimsGrow, OnlyHolds(r),
         NEW l, l \notin Claiming, Goto(r, l)
  PROVE  Custody'
<1>1. pc'[r] = l /\ \A q \in Requests \ {r} : pc'[q] = pc[q]
  BY DEF Control, TypeOK, Goto
<1>2. CustodyOK(r)' /\ ~Owns(r)'
  BY <1>1 DEF CustodyOK, Owns, Claiming
<1> QED BY <1>1, <1>2, CustodyQuiet

LEMMA CustodyStep ==
  ASSUME Control, Custody, [Next]_vars
  PROVE  Custody'
<1> USE StoreAssumption, KernelAssumption DEF storeVars, worldVars
<1>t. TypeOK /\ TypeOK'
  BY TypeStep DEF Control
<1>c. \A a \in Actions : ClaimOK(a)
  BY DEF Control
<1>o. \A r \in Requests : RequestOK(r) /\ CustodyOK(r)
  BY DEF Control, Custody
<1>g. /\ UNCHANGED actions => ClaimsGrow
      /\ KeepsClaims => ClaimsGrow
  BY DEF ClaimsGrow, KeepsClaims, Claimed
<1>u. ASSUME NEW a \in Actions, NEW s, UpdateActionState(a, s) PROVE ClaimsGrow
  BY <1>t, <1>c, <1>g, <1>u, UpdateKeepsClaims
<1>h. /\ UNCHANGED frame => \A r \in Requests : OnlyHolds(r)
      /\ \A r \in Requests : Unwind(r) => OnlyHolds(r)
  BY <1>t DEF frame, OnlyHolds, Unwind, TypeOK
<1>l. {"lookup", "create", "decide", "saveDecision", "bind", "authorize", "prepare",
       "saveUnprepared", "prior", "saveReconciled", "claim", "done", "crashed"}
        \subseteq Locations \ Claiming
  BY DEF Locations, Claiming
<1>1. CASE UNCHANGED vars
  BY <1>1 DEF vars, localVars, frame, Custody, CallsOK, CustodyOK, Owns, Claimed
<1>2. ASSUME NEW r \in Requests, Lookup(r), UNCHANGED crashes PROVE Custody'
  <2>1. OnlyHolds(r) /\ (Goto(r, "bind") \/ Goto(r, "create"))
    BY <1>2, <1>t DEF Lookup, OnlyHolds, TypeOK
  <2> QED BY <1>2, <1>t, <1>g, <1>l, <2>1, CustodyElsewhere DEF Lookup
<1>3. ASSUME NEW r \in Requests, Create(r), UNCHANGED crashes PROVE Custody'
  BY <1>3, <1>t, <1>g, <1>l, CustodyElsewhere DEF Create, OnlyHolds
<1>4. ASSUME NEW r \in Requests, NEW a \in Actions, DecideAction(r, a),
             UNCHANGED crashes
      PROVE  Custody'
  <2>1. OnlyHolds(r) /\ Goto(r, "authorize") /\ UNCHANGED <<actions, observations, worldVars>>
    BY <1>4, <1>t DEF DecideAction, OnlyHolds, TypeOK
  <2> QED BY <1>t, <1>g, <1>l, <2>1, CustodyElsewhere
<1>5. ASSUME NEW r \in Requests, Unwind(r), ClaimsGrow,
             UNCHANGED <<calls, observations, effects>>,
             Goto(r, "done") \/ Goto(r, "crashed")
      PROVE  Custody'
  BY <1>5, <1>t, <1>h, <1>l, CustodyElsewhere
<1>6. ASSUME NEW r \in Requests, UNCHANGED <<frame, calls, observations, effects>>,
             ClaimsGrow, NEW l \in Locations \ Claiming, Goto(r, l)
      PROVE  Custody'
  BY <1>6, <1>t, <1>h, CustodyElsewhere
<1>7. ASSUME NEW r \in Requests, UNCHANGED crashes,
             \/ DecideTerminal(r) \/ DecideInvalid(r) \/ SaveDecision(r)
             \/ SaveUnprepared(r)
      PROVE  Custody'
  BY <1>5, <1>7, <1>g DEF DecideTerminal, DecideInvalid, SaveDecision,
                          SaveUnprepared, Return
<1>8. ASSUME NEW r \in Requests, SaveReconciled(r) \/ SaveFinalResult(r),
             UNCHANGED crashes
      PROVE  Custody'
  <2>1. act[r] \in Actions
    BY <1>8, <1>o DEF SaveReconciled, SaveFinalResult, RequestOK, Bound
  <2> QED BY <1>5, <1>8, <1>u, <2>1 DEF SaveReconciled, SaveFinalResult, Return
<1>9. ASSUME NEW r \in Requests, UNCHANGED crashes,
             DecideRaises(r) \/ Bind(r) \/ Prepare(r)
      PROVE  Custody'
  BY <1>6, <1>9, <1>g, <1>l DEF DecideRaises, Bind, Prepare
<1>10. ASSUME NEW r \in Requests, Authorize(r), UNCHANGED crashes PROVE Custody'
  <2>1. UNCHANGED <<actions, calls, observations, effects>>
    BY <1>10 DEF Authorize
  <2>2. \/ UNCHANGED frame /\ (Goto(r, "prepare") \/ Goto(r, "prior"))
        \/ Unwind(r) /\ Goto(r, "done")
    BY <1>10 DEF Authorize, Return
  <2> QED BY <1>5, <1>6, <1>g, <1>l, <2>1, <2>2
<1>11. ASSUME NEW r \in Requests, Prior(r), UNCHANGED crashes PROVE Custody'
  <2>1. UNCHANGED <<actions, calls, observations, effects>>
    BY <1>11 DEF Prior
  <2>2. \/ UNCHANGED frame /\ (Goto(r, "saveReconciled") \/ Goto(r, "claim"))
        \/ Unwind(r) /\ Goto(r, "done")
    BY <1>11 DEF Prior, Return
  <2> QED BY <1>5, <1>6, <1>g, <1>l, <2>1, <2>2
<1>12. ASSUME NEW r \in Requests, Claim(r), UNCHANGED crashes PROVE Custody'
  <2> DEFINE a == act[r]
  <2>1. a \in Actions
    BY <1>12, <1>o DEF Claim, RequestOK, Bound
  <2>2. /\ UNCHANGED <<calls, observations, effects, act, seen>>
        /\ won' = [won EXCEPT ![r] = ~Claimed(a)]
        /\ pc' = [pc EXCEPT ![r] = "canonical"]
        /\ ClaimAction(a, held[r].id)
    BY <1>12 DEF Claim, Claimed, Goto
  <2>3. ClaimsGrow
    <3>1. ASSUME NEW b \in Actions, Claimed(b) PROVE actions'[b] = actions[b]
      BY <1>t, <2>1, <2>2, <3>1 DEF ClaimAction, Claimed, TypeOK, StoreTypeOK
    <3> QED BY <3>1 DEF ClaimsGrow, Claimed
  <2>4. /\ pc'[r] = "canonical" /\ won'[r] = ~Claimed(a)
        /\ \A q \in Requests \ {r} : pc'[q] = pc[q] /\ won'[q] = won[q]
    BY <1>t, <2>2 DEF TypeOK
  <2>5. ~Claimed(a) => calls[a] = 0 /\ observations[a] = "none"
    BY <1>t, <2>1 DEF Custody, CallsOK, TypeOK
  <2>6. ASSUME NEW q \in Requests, q # r, Owns(q), act[q] = a PROVE Claimed(a)
    BY <1>o, <2>6 DEF RequestOK, Owns, Claiming
  <2>7. ASSUME NEW b \in Actions PROVE CallsOK(b)'
    BY <2>2, <2>3 DEF Custody, CallsOK, ClaimsGrow
  <2>8. CustodyOK(r)' /\ (Owns(r)' => ~Claimed(a))
    BY <2>2, <2>4, <2>5 DEF CustodyOK, Owns
  <2>9. ASSUME NEW q \in Requests \ {r} PROVE CustodyOK(q)' /\ (Owns(q)' <=> Owns(q))
    BY <1>o, <2>2, <2>4 DEF CustodyOK, Owns
  <2>10. ASSUME NEW p \in Requests, NEW q \in Requests, Owns(p)', Owns(q)', p # q
         PROVE  act'[p] # act'[q]
    BY <2>2, <2>6, <2>8, <2>9, <2>10 DEF Custody
  <2> QED BY <2>7, <2>8, <2>9, <2>10 DEF Custody
<1>13. ASSUME NEW r \in Requests, Canonical(r), UNCHANGED crashes PROVE Custody'
  <2>1. UNCHANGED <<actions, calls, observations, effects>> /\ pc[r] = "canonical"
    BY <1>13 DEF Canonical
  <2>2. CASE Unwind(r) /\ Goto(r, "done")
    BY <1>5, <1>g, <2>1, <2>2
  <2>3. CASE /\ won[r] \/ observations[act[r]] # "none"
             /\ Goto(r, "execute") /\ UNCHANGED <<origin, act, won, seen, out>>
    <3>1. pc'[r] = "execute" /\ OnlyHolds(r) /\ \A q \in Requests \ {r} : pc'[q] = pc[q]
      BY <1>t, <2>3 DEF Goto, TypeOK, OnlyHolds
    <3>2. CustodyOK(r)' /\ (Owns(r)' => Owns(r) /\ act'[r] = act[r])
      BY <1>o, <2>1, <2>3, <3>1 DEF CustodyOK, Owns
    <3> QED BY <1>t, <1>g, <2>1, <3>1, <3>2, CustodyQuiet
  <2> QED BY <1>13, <2>2, <2>3 DEF Canonical, Return, Reverifiable
<1>14. ASSUME NEW r \in Requests, Execute(r), UNCHANGED crashes PROVE Custody'
  <2> DEFINE a == act[r]
  <2>1. /\ a \in Actions /\ pc[r] = "execute" /\ Claimed(a)
        /\ UNCHANGED <<actions, observations, act, won>>
    BY <1>14, <1>o DEF Execute, RequestOK, Bound, Claiming
  <2>2. CASE observations[a] # "none"
    <3>1. /\ pc'[r] = "markObserved" /\ \A q \in Requests \ {r} : pc'[q] = pc[q]
          /\ seen'[r] = observations[a] /\ OnlyHolds(r) /\ UNCHANGED worldVars
      BY <1>14, <1>t, <2>2 DEF Execute, MustExecute, Goto, TypeOK, OnlyHolds
    <3>2. Stored(observations[a]) = observations[a]
      BY <2>1 DEF Stored, Custody, CallsOK
    <3>3. CustodyOK(r)' /\ ~Owns(r)'
      BY <2>1, <2>2, <3>1, <3>2 DEF CustodyOK, Owns
    <3> QED BY <1>t, <1>g, <2>1, <3>1, <3>3, CustodyQuiet
  <2>3. CASE observations[a] = "none"
    <3>1. PICK kind \in ExecutorOutcomes, landed \in {0, 1} :
            /\ seen' = [seen EXCEPT ![r] = kind]
            /\ effects' = [effects EXCEPT ![a] = @ + landed]
      BY <1>14, <2>3 DEF Execute, MustExecute
    <3>2. calls' = [calls EXCEPT ![a] = @ + 1] /\ pc' = [pc EXCEPT ![r] = "saveObservation"]
      BY <1>14, <2>3 DEF Execute, MustExecute, Goto
    <3>3. Owns(r) /\ calls[a] = 0 /\ effects[a] <= 0
      BY <1>o, <2>1, <2>3 DEF CustodyOK, Owns, Custody, CallsOK
    <3>4. calls'[a] = 1 /\ effects'[a] \in {0, 1} /\ seen'[r] # "none" /\ pc'[r] = "saveObservation"
      <4>1. seen'[r] # "none" /\ pc'[r] = "saveObservation"
        BY <1>t, <3>1, <3>2 DEF TypeOK, ObservationKinds
      <4>2. effects[a] \in Nat /\ calls[a] \in Nat
        BY <1>t, <2>1 DEF TypeOK
      <4>3. calls'[a] = calls[a] + 1 /\ effects'[a] = effects[a] + landed
        BY <1>t, <2>1, <3>1, <3>2 DEF TypeOK
      <4>4. effects[a] = 0 /\ calls[a] = 0
        BY <3>3, <4>2
      <4> QED BY <3>1, <4>1, <4>3, <4>4
    <3>5. ASSUME NEW b \in Actions PROVE CallsOK(b)'
      <4>1. CASE b = a
        BY <2>1, <2>3, <3>4, <4>1 DEF CallsOK, Claimed
      <4>2. CASE b # a
        <5>1. calls'[b] = calls[b] /\ effects'[b] = effects[b]
          BY <1>t, <3>1, <3>2, <4>2 DEF TypeOK
        <5> QED BY <2>1, <5>1 DEF Custody, CallsOK, Claimed
      <4> QED BY <4>1, <4>2
    <3>6. CustodyOK(r)'
      BY <2>1, <2>3, <3>4 DEF CustodyOK, Owns
    <3>7. ASSUME NEW q \in Requests \ {r} PROVE CustodyOK(q)' /\ (Owns(q)' <=> Owns(q))
      <4>1. pc'[q] = pc[q] /\ seen'[q] = seen[q]
        BY <1>t, <3>1, <3>2 DEF TypeOK, ObservationKinds
      <4>2. Owns(q) => act[q] # a /\ act[q] \in Actions
        BY <1>o, <3>3 DEF Custody, RequestOK, Owns, Bound
      <4>3. Owns(q) => calls'[act[q]] = calls[act[q]]
        BY <1>t, <3>2, <4>2 DEF TypeOK
      <4> QED BY <1>o, <2>1, <4>1, <4>3 DEF CustodyOK, Owns
    <3>8. ASSUME NEW p \in Requests, NEW q \in Requests, Owns(p)', Owns(q)', p # q
          PROVE  act'[p] # act'[q]
      BY <2>1, <3>3, <3>7, <3>8 DEF Custody
    <3> QED BY <3>5, <3>6, <3>7, <3>8 DEF Custody
  <2> QED BY <2>2, <2>3
<1>15. ASSUME NEW r \in Requests, RecordObservation(r), UNCHANGED crashes
       PROVE  Custody'
  <2> DEFINE a == act[r]
  <2>1. /\ a \in Actions /\ Claimed(a) /\ pc[r] = "saveObservation" /\ Owns(r)
        /\ calls[a] = 1 /\ seen[r] # "none"
    BY <1>15, <1>o DEF RecordObservation, RequestOK, CustodyOK, Bound, Claiming, Owns
  <2>2. /\ UNCHANGED <<actions, act, won, seen, calls, effects>>
        /\ pc' = [pc EXCEPT ![r] = "markObserved"]
        /\ observations' = [observations EXCEPT ![a] = Stored(seen[r])]
    BY <1>15, <2>1 DEF RecordObservation, frame, Goto, SaveObservation, Claimed
  <2>3. /\ observations'[a] = Stored(seen[r]) /\ pc'[r] = "markObserved"
        /\ \A q \in Requests \ {r} : pc'[q] = pc[q]
        /\ \A b \in Actions \ {a} : observations'[b] = observations[b]
    BY <1>t, <2>1, <2>2 DEF TypeOK, StoreTypeOK
  <2>4. Stored(seen[r]) \notin {"none", "unknown"}
    BY <2>1 DEF Stored
  <2>5. ASSUME NEW b \in Actions PROVE CallsOK(b)'
    BY <2>1, <2>2, <2>3, <2>4 DEF Custody, CallsOK, Claimed
  <2>6. CustodyOK(r)' /\ ~Owns(r)'
    BY <2>1, <2>2, <2>3 DEF CustodyOK, Owns
  <2>7. ASSUME NEW q \in Requests \ {r} PROVE CustodyOK(q)' /\ (Owns(q)' <=> Owns(q))
    <3>1. pc'[q] = pc[q] /\ (Owns(q)' <=> Owns(q))
      BY <2>2, <2>3 DEF Owns
    <3>2. Owns(q) => act[q] # a
      BY <2>1 DEF Custody
    <3>3. pc[q] \in Claiming => act[q] \in Actions
      BY <1>o DEF RequestOK, Claiming, Bound
    <3>4. CASE act[q] # a
      BY <1>o, <2>2, <2>3, <3>1, <3>3, <3>4 DEF CustodyOK, Owns, Claiming
    <3>5. CASE act[q] = a
      <4>1. observations[a] = "none"
        BY <1>o, <2>1 DEF CustodyOK
      <4>2. pc[q] \notin {"markObserved", "verify", "saveObservation"}
        BY <1>o, <2>1, <3>2, <3>5, <4>1 DEF CustodyOK, Stored, Owns
      <4> QED BY <1>o, <2>2, <2>3, <2>4, <3>1, <3>2, <3>5, <4>2 DEF CustodyOK, Owns
    <3> QED BY <3>1, <3>4, <3>5
  <2>8. ASSUME NEW p \in Requests, NEW q \in Requests, Owns(p)', Owns(q)', p # q
        PROVE  act'[p] # act'[q]
    BY <2>2, <2>6, <2>7, <2>8 DEF Custody
  <2> QED BY <2>5, <2>6, <2>7, <2>8 DEF Custody
<1>16. ASSUME NEW r \in Requests, MarkObserved(r) \/ Verify(r), UNCHANGED crashes
       PROVE  Custody'
  <2>1. /\ UNCHANGED <<calls, observations, effects, frame>>
        /\ \/ pc[r] = "markObserved" /\ Goto(r, "verify")
           \/ pc[r] = "verify" /\ Goto(r, "saveResult")
    BY <1>16 DEF MarkObserved, Verify
  <2>2. act[r] \in Actions
    BY <1>o, <2>1 DEF RequestOK, Bound
  <2>3. ClaimsGrow
    BY <1>16, <1>g, <1>u, <2>2 DEF MarkObserved, Verify
  <2>4. /\ \A q \in Requests \ {r} : pc'[q] = pc[q]
        /\ \/ pc[r] = "markObserved" /\ pc'[r] = "verify"
           \/ pc[r] = "verify" /\ pc'[r] = "saveResult"
    BY <1>t, <2>1 DEF TypeOK, Goto
  <2>5. CustodyOK(r)' /\ ~Owns(r)'
    <3>1. CustodyOK(r) /\ UNCHANGED <<act, won, seen>>
      BY <1>o, <2>1 DEF frame
    <3> QED BY <2>1, <2>4, <3>1 DEF CustodyOK, Owns, Stored
  <2> QED BY <1>t, <1>h, <2>1, <2>3, <2>4, <2>5, CustodyQuiet
<1>17. ASSUME NEW r \in Requests, Crash(r) PROVE Custody'
  BY <1>5, <1>17, <1>g DEF Crash
<1>18. ASSUME NEW r \in Requests, Replay(r) PROVE Custody'
  BY <1>6, <1>18, <1>g, <1>l DEF Replay
<1> QED
  BY <1>1, <1>2, <1>3, <1>4, <1>7, <1>8, <1>9, <1>10, <1>11, <1>12, <1>13,
     <1>14, <1>15, <1>16, <1>17, <1>18 DEF Next, Step, RunStep

-----------------------------------------------------------------------------
RowsBacked == \A o \in ObjectiveIds : Backed(objectives[o].action, objectives[o].state, FALSE)
ClaimsBacked == \A a \in Actions : Justified(a, actions[a].state, FALSE)
ResultBacked == /\ Backed(result.action, result.state, result.retryable)
                /\ result.key \in Actions => result.action = result.key
RequestsBacked == \A r \in Requests : PublishedOK(r)

LEMMA PublishedParts ==
  Published <=> RowsBacked /\ ClaimsBacked /\ ResultBacked /\ RequestsBacked
BY DEF Published, RowsBacked, ClaimsBacked, ResultBacked, RequestsBacked

\* effects and records last
Lasting == \A a \in Actions :
  /\ effects'[a] >= effects[a]
  /\ observations[a] # "none" => observations'[a] = observations[a]

LEMMA StepLasts ==
  ASSUME Control, Custody, [Next]_vars
  PROVE  Lasting
<1> USE DEF storeVars, worldVars
<1>t. TypeOK
  BY DEF Control
<1>1. UNCHANGED <<effects, observations>> => Lasting
  BY <1>t DEF Lasting, TypeOK
<1>2. ASSUME NEW r \in Requests, Execute(r) PROVE Lasting
  <2>1. act[r] \in Actions
    BY <1>2 DEF Control, RequestOK, Bound, Execute
  <2>2. CASE UNCHANGED worldVars
    BY <1>1, <1>2, <2>2 DEF Execute
  <2>3. CASE \E landed \in {0, 1} : effects' = [effects EXCEPT ![act[r]] = @ + landed]
    BY <1>2, <1>t, <2>1, <2>3 DEF Execute, Lasting, TypeOK
  <2> QED BY <1>2, <2>2, <2>3 DEF Execute
<1>3. ASSUME NEW r \in Requests, RecordObservation(r) PROVE Lasting
  <2>1. observations[act[r]] = "none" /\ act[r] \in Actions
    BY <1>3 DEF RecordObservation, Control, RequestOK, Custody, CustodyOK, Owns, Bound
  <2> QED BY <1>3, <1>t, <2>1 DEF RecordObservation, SaveObservation, Lasting, TypeOK,
                                  StoreTypeOK
<1>4. ASSUME NEW r \in Requests,
             \/ RunStep(r) /\ ~Execute(r) /\ ~RecordObservation(r)
             \/ Crash(r) \/ Replay(r)
             \/ \E a \in Actions : DecideAction(r, a)
      PROVE  UNCHANGED <<effects, observations>>
  BY <1>4 DEF RunStep, Lookup, Create, DecideTerminal, DecideInvalid, DecideRaises,
     SaveDecision, Bind, Authorize, Prepare, SaveUnprepared, Prior, SaveReconciled,
     Claim, Canonical, MarkObserved, Verify, SaveFinalResult, Crash, Replay, DecideAction
<1>5. CASE UNCHANGED vars
  BY <1>1, <1>5 DEF vars
<1> QED BY <1>1, <1>2, <1>3, <1>4, <1>5 DEF Next, Step

\* so what is justified stays justified
LEMMA JustifiedLasts ==
  ASSUME TypeOK, TypeOK', Lasting, NEW a, NEW s, NEW b
  PROVE  /\ a \in Actions /\ Justified(a, s, b) => Justified(a, s, b)'
         /\ Backed(a, s, b) => Backed(a, s, b)'
BY DEF Lasting, Justified, Backed, TypeOK

LEMMA UnchangedBacked ==
  ASSUME TypeOK, TypeOK', Lasting, Published
  PROVE  /\ UNCHANGED objectives => RowsBacked'
         /\ UNCHANGED actions => ClaimsBacked'
         /\ UNCHANGED result => ResultBacked'
<1> USE PublishedParts
<1>1. ASSUME UNCHANGED objectives PROVE RowsBacked'
  BY <1>1, JustifiedLasts DEF RowsBacked, Backed, Justified
<1>2. ASSUME UNCHANGED actions PROVE ClaimsBacked'
  BY <1>2, JustifiedLasts DEF ClaimsBacked, Justified
<1>3. ASSUME UNCHANGED result PROVE ResultBacked'
  BY <1>3, JustifiedLasts DEF ResultBacked, Backed, Justified
<1> QED BY <1>1, <1>2, <1>3

LEMMA SaveObjectiveBacked ==
  ASSUME TypeOK, TypeOK', Lasting, Published, NEW o \in ObjectiveIds, NEW s, NEW a,
         SaveObjective(o, [state |-> s, action |-> a]), Backed(a, s, FALSE)'
  PROVE  RowsBacked'
<1>1. ASSUME NEW x \in ObjectiveIds
      PROVE  Backed(objectives[x].action, objectives[x].state, FALSE)'
  <2>1. CASE x = o
    BY <2>1 DEF SaveObjective, TypeOK, StoreTypeOK, Backed, Justified
  <2>2. CASE x # o
    <3>1. objectives'[x] = objectives[x]
      BY <2>2 DEF SaveObjective, TypeOK, StoreTypeOK
    <3> QED BY <3>1, PublishedParts, JustifiedLasts DEF RowsBacked, Backed, Justified
  <2> QED BY <2>1, <2>2
<1> QED BY <1>1 DEF RowsBacked

LEMMA UpdateBacked ==
  ASSUME TypeOK, TypeOK', Lasting, Published, NEW a \in Actions, NEW s,
         UpdateActionState(a, s), Justified(a, s, FALSE)'
  PROVE  ClaimsBacked'
<1>1. ASSUME NEW x \in Actions PROVE Justified(x, actions[x].state, FALSE)'
  <2>1. CASE x = a /\ actions'[x].state = s
    BY <2>1 DEF Justified
  <2>2. CASE actions'[x] = actions[x]
    BY <2>2, PublishedParts, JustifiedLasts DEF ClaimsBacked, Justified
  <2>3. CASE actions' = actions
    BY <2>2, <2>3
  <2>4. CASE actions' = [actions EXCEPT ![a].state = s]
    <3>1. x # a => actions'[x] = actions[x]
      BY <2>4 DEF TypeOK, StoreTypeOK
    <3>2. x = a => actions'[x].state = s
      BY <2>4 DEF TypeOK, StoreTypeOK, ActionRows
    <3> QED BY <2>1, <2>2, <3>1, <3>2
  <2> QED BY <2>3, <2>4 DEF UpdateActionState
<1> QED BY <1>1 DEF ClaimsBacked

LEMMA SaveResultBacked ==
  ASSUME TypeOK, TypeOK', NEW key \in Keys, NEW res \in Results, SaveResult(key, res),
         Backed(res.action, res.state, res.retryable)',
         key \in Actions => res.action = key
  PROVE  ResultBacked'
BY DEF SaveResult, ResultBacked, Results, Backed, Justified

\* the requests that did not move, and one that moved with nothing new to say
LEMMA OthersBacked ==
  ASSUME TypeOK, TypeOK', Lasting, Published, NEW r \in Requests,
         \A q \in Requests \ {r} :
           pc'[q] = pc[q] /\ act'[q] = act[q] /\ held'[q] = held[q] /\ out'[q] = out[q],
         PublishedOK(r)'
  PROVE  RequestsBacked'
<1>1. ASSUME NEW q \in Requests \ {r} PROVE PublishedOK(q)'
  <2>1. PublishedOK(q)
    BY PublishedParts DEF RequestsBacked
  <2>2. pc'[q] = pc[q] /\ act'[q] = act[q] /\ held'[q] = held[q] /\ out'[q] = out[q]
    OBVIOUS
  <2>3. Backed(held[q].action, held[q].state, FALSE)'
    BY <2>1, <2>2, JustifiedLasts DEF PublishedOK, Backed, Justified
  <2>4. Backed(out[q].action, out[q].state, out[q].retryable)'
    <3>1. \A a \in Actions : effects[a] > 0 => effects'[a] > 0
      BY DEF TypeOK, Lasting
    <3>2. Backed(out[q].action, out[q].state, out[q].retryable)
      BY <2>1 DEF PublishedOK
    <3> QED BY <2>2, <3>1, <3>2 DEF Backed, Justified, Lasting
  <2> QED BY <2>1, <2>2, <2>3, <2>4 DEF PublishedOK
<1> QED BY <1>1 DEF RequestsBacked

LEMMA ReturnBacked ==
  ASSUME TypeOK, TypeOK', Lasting, Published, NEW r \in Requests,
         Unwind(r), NEW l \in {"done", "crashed", "outside"}, Goto(r, l),
         NEW res, out' = [out EXCEPT ![r] = res],
         Backed(res.action, res.state, res.retryable)
  PROVE  RequestsBacked'
<1> USE StoreAssumption
<1>1. \A q \in Requests \ {r} :
        pc'[q] = pc[q] /\ act'[q] = act[q] /\ held'[q] = held[q] /\ out'[q] = out[q]
  BY DEF TypeOK, Unwind, Goto
<1>2. pc'[r] \in {"done", "crashed", "outside"} /\ held'[r] = NoCopy /\ out'[r] = res
  BY DEF TypeOK, Unwind, Goto
<1>3. PublishedOK(r)'
  BY <1>2, JustifiedLasts DEF PublishedOK, Backed, Justified, NoCopy
<1> QED BY <1>1, <1>3, OthersBacked

LEMMA MoveBacked ==
  ASSUME TypeOK, TypeOK', Lasting, Published, NEW r \in Requests,
         UNCHANGED <<act, held, out>>, NEW l, Goto(r, l),
         l \notin {"saveUnprepared", "saveReconciled", "saveResult", "saveDecision"}
  PROVE  RequestsBacked'
<1>1. \A q \in Requests \ {r} :
        pc'[q] = pc[q] /\ act'[q] = act[q] /\ held'[q] = held[q] /\ out'[q] = out[q]
  BY DEF TypeOK, Goto
<1>2. pc'[r] = l
  BY DEF TypeOK, Goto
<1>3. PublishedOK(r)'
  BY <1>2, PublishedParts, JustifiedLasts DEF RequestsBacked, PublishedOK, Backed, Justified
<1> QED BY <1>1, <1>3, OthersBacked

\* The third layer is preserved by every step.
LEMMA PublishedStep ==
  ASSUME Control, Custody, Published, [Next]_vars
  PROVE  Published'
<1> USE StoreAssumption, KernelAssumption DEF storeVars, worldVars
<1> DEFINE Rest == RowsBacked' /\ ClaimsBacked' /\ ResultBacked' /\ RequestsBacked'
<1> SUFFICES Rest
  BY DEF Published, RowsBacked, ClaimsBacked, ResultBacked, RequestsBacked
<1>t. TypeOK /\ TypeOK'
  BY TypeStep DEF Control
<1>m. Lasting
  BY StepLasts
<1>p. RowsBacked /\ ClaimsBacked /\ ResultBacked /\ RequestsBacked
  BY PublishedParts
<1>u. /\ UNCHANGED objectives => RowsBacked'
      /\ UNCHANGED actions => ClaimsBacked'
      /\ UNCHANGED result => ResultBacked'
  BY <1>t, <1>m, UnchangedBacked
<1>o. \A r \in Requests : RequestOK(r) /\ CustodyOK(r) /\ PublishedOK(r)
  BY DEF Control, Custody, Published
<1>k. Actions \subseteq Keys /\ "decision" \in Keys \ Actions
  BY DEF Keys
<1>e. \A a \in Actions : effects[a] > 0 => effects'[a] > 0
  BY <1>t, <1>m DEF TypeOK, Lasting
<1>a. ASSUME NEW r \in Requests, pc[r] \in Bound
      PROVE  act[r] \in Actions /\ held[r].id \in ObjectiveIds /\ held[r].action \in {act[r], NoAction}
  BY <1>a, <1>o DEF RequestOK, HoldsItsRow
<1>n. ASSUME NEW a \in Actions, NEW s \in {"PROPOSED", "VALIDATED", "EXECUTING", "BLOCKED",
                                           "APPROVAL_REQUIRED", "none"}
      PROVE  Justified(a, s, FALSE) /\ Justified(a, s, FALSE)'
  BY DEF Justified
\* the parts of a step that saves nothing and moves on, or returns what it has
<1>r. ASSUME NEW r \in Requests, NEW res, Return(r, res),
             Backed(res.action, res.state, res.retryable)
      PROVE  RequestsBacked'
  BY <1>r, <1>t, <1>m, ReturnBacked DEF Return
<1>v. ASSUME NEW r \in Requests, UNCHANGED <<act, held, out>>, NEW l, Goto(r, l),
             l \notin {"saveUnprepared", "saveReconciled", "saveResult", "saveDecision"}
      PROVE  RequestsBacked'
  BY <1>v, <1>t, <1>m, MoveBacked
<1>c. ASSUME NEW r \in Requests, NEW a \in Actions, pc[r] \in Bound, act[r] = a, NEW s,
             SaveCopy(r, s), Justified(a, s, FALSE)' \/ s = held[r].state
      PROVE  RowsBacked'
  <2>1. PICK o \in ObjectiveIds, b \in {a, NoAction} : o = held[r].id /\ b = held[r].action
    BY <1>a, <1>c
  <2>2. SaveObjective(o, [state |-> s, action |-> b])
    BY <1>c, <2>1 DEF SaveCopy
  <2>3. Backed(b, s, FALSE)'
    <3>1. CASE Justified(a, s, FALSE)'
      BY <2>1, <3>1 DEF Backed
    <3>2. CASE s = held[r].state
      <4>1. Backed(b, s, FALSE)
        BY <1>o, <2>1, <3>2 DEF PublishedOK
      <4> QED BY <1>t, <1>m, <4>1, JustifiedLasts
    <3> QED BY <1>c, <3>1, <3>2
  <2> QED BY <1>t, <1>m, <2>1, <2>2, <2>3, SaveObjectiveBacked
\* a Result that is being built, to be saved next
<1>b. ASSUME NEW r \in Requests, NEW a \in Actions, act[r] = a,
             UNCHANGED frame, NEW s \in ObjectiveStates, NEW again \in BOOLEAN,
             Answer(r, s, again), Justified(a, s, again)',
             NEW l \in {"saveUnprepared", "saveResult"}, Goto(r, l)
      PROVE  RequestsBacked'
  <2>1. /\ pc'[r] = l /\ act'[r] = a /\ held'[r] = held[r]
        /\ out'[r] = Res(r, s, again)
        /\ \A q \in Requests \ {r} :
             pc'[q] = pc[q] /\ act'[q] = act[q] /\ held'[q] = held[q] /\ out'[q] = out[q]
    BY <1>t, <1>b DEF Answer, Goto, frame, TypeOK
  <2>2. out'[r].action = a /\ out'[r].state = s /\ out'[r].retryable = again
    BY <1>b, <2>1 DEF Res
  <2>3. Backed(held[r].action, held[r].state, FALSE)'
    <3>1. Backed(held[r].action, held[r].state, FALSE)
      BY <1>o DEF PublishedOK
    <3> QED BY <1>m, <1>e, <2>1, <3>1 DEF Lasting, Backed, Justified
  <2>4. Backed(out[r].action, out[r].state, out[r].retryable)'
    BY <1>b, <2>2 DEF Backed, Justified
  <2>5. PublishedOK(r)'
    BY <2>1, <2>2, <2>3, <2>4 DEF PublishedOK
  <2> QED BY <1>t, <1>m, <2>1, <2>5, OthersBacked
\* saving the Result that was built, and returning it
<1>s. ASSUME NEW r \in Requests, NEW key \in Keys, SaveResult(key, out[r]),
             Return(r, out[r]), key \in Actions => out[r].action = key
      PROVE  ResultBacked' /\ RequestsBacked'
  <2>1. PICK res \in Results : res = out[r]
    BY <1>t DEF TypeOK
  <2>2. Backed(res.action, res.state, res.retryable)
    BY <1>o, <2>1 DEF PublishedOK
  <2>3. Backed(res.action, res.state, res.retryable)'
    BY <1>m, <1>e, <2>2 DEF Backed, Justified, Lasting
  <2> QED BY <1>t, <1>s, <1>r, <2>1, <2>2, <2>3, SaveResultBacked
<1>1. CASE UNCHANGED vars
  <2>1. \A r \in Requests : UNCHANGED <<objectives, actions, result, pc, act, held, out>>
    BY <1>1 DEF vars, localVars, frame
  <2>2. RequestsBacked'
    BY <1>1, <1>p DEF vars, localVars, frame, RequestsBacked, PublishedOK, Backed, Justified
  <2> QED BY <1>1, <1>u, <2>2 DEF vars
<1>2. ASSUME NEW r \in Requests, Lookup(r), UNCHANGED crashes PROVE Rest
  <2>1. UNCHANGED <<objectives, actions, result, out>>
    BY <1>2 DEF Lookup
  <2>2. CASE GetObjectiveByCorrelation.action # NoAction
    <3>1. newest \in ObjectiveIds
      BY <1>t, <2>2 DEF GetObjectiveByCorrelation, NoRow, TypeOK, StoreTypeOK
    <3>2. /\ held'[r].state = objectives[newest].state /\ pc'[r] = "bind"
          /\ held'[r].action = objectives[newest].action /\ out'[r] = out[r]
          /\ \A q \in Requests \ {r} :
               pc'[q] = pc[q] /\ act'[q] = act[q] /\ held'[q] = held[q] /\ out'[q] = out[q]
      BY <1>2, <1>t, <2>1, <2>2, <3>1 DEF Lookup, GetObjectiveByCorrelation, TypeOK, Goto
    <3>3. PublishedOK(r)'
      <4>1. Backed(held[r].action, held[r].state, FALSE)'
        BY <1>2, <1>p, <3>1, <3>2 DEF Lookup, RowsBacked, Backed, Justified
      <4>2. Backed(out[r].action, out[r].state, out[r].retryable)'
        BY <1>2, <1>o, <3>2 DEF Lookup, PublishedOK, Backed, Justified
      <4> QED BY <3>2, <4>1, <4>2 DEF PublishedOK
    <3> QED BY <1>t, <1>m, <1>u, <2>1, <3>2, <3>3, OthersBacked
  <2>3. CASE GetObjectiveByCorrelation.action = NoAction
    BY <1>2, <1>u, <1>v, <2>1, <2>3 DEF Lookup
  <2> QED BY <2>2, <2>3
<1>3. ASSUME NEW r \in Requests, Create(r), UNCHANGED crashes PROVE Rest
  <2>1. PICK o \in ObjectiveIds :
          /\ held' = [held EXCEPT ![r] = [id |-> o, state |-> "PROPOSED",
                                          action |-> NoAction]]
          /\ SaveObjective(o, [state |-> "PROPOSED", action |-> NoAction])
    BY <1>3 DEF Create, FreshIds
  <2>2. UNCHANGED <<actions, result, out, act, effects, observations>> /\ Goto(r, "decide")
    BY <1>3 DEF Create
  <2>3. RowsBacked'
    BY <1>t, <1>m, <2>1, SaveObjectiveBacked DEF Backed
  <2>4. /\ pc'[r] = "decide" /\ held'[r].action = NoAction
        /\ \A q \in Requests \ {r} : pc'[q] = pc[q] /\ held'[q] = held[q]
    BY <1>t, <2>1, <2>2 DEF TypeOK, Goto
  <2>5. PublishedOK(r)'
    <3>1. Backed(out[r].action, out[r].state, out[r].retryable)'
      BY <1>o, <2>2 DEF PublishedOK, Backed, Justified
    <3> QED BY <2>4, <3>1 DEF PublishedOK, Backed
  <2> QED BY <1>t, <1>m, <1>u, <2>2, <2>3, <2>4, <2>5, OthersBacked
<1>4. ASSUME NEW r \in Requests, NEW a \in Actions, DecideAction(r, a),
             UNCHANGED crashes
      PROVE  Rest
  <2>1. OwnsItsRow(r)
    BY <1>4, <1>o DEF DecideAction, RequestOK, Deciding
  <2>2. PICK s \in {"VALIDATED", "PROPOSED"} :
          /\ held' = [held EXCEPT ![r] = [id |-> held[r].id, state |-> s, action |-> a]]
          /\ SaveObjective(held[r].id, [state |-> s, action |-> a])
    BY <1>4, <2>1 DEF DecideAction, OwnsItsRow
  <2>3. /\ UNCHANGED <<actions, result, out, effects, observations>> /\ Goto(r, "authorize")
        /\ act' = [act EXCEPT ![r] = a]
    BY <1>4 DEF DecideAction
  <2>4. RowsBacked'
    BY <1>t, <1>m, <1>n, <2>1, <2>2, SaveObjectiveBacked DEF Backed, OwnsItsRow
  <2>5. /\ pc'[r] = "authorize" /\ held'[r].action = a /\ held'[r].state = s
        /\ \A q \in Requests \ {r} :
             pc'[q] = pc[q] /\ act'[q] = act[q] /\ held'[q] = held[q]
    BY <1>t, <2>2, <2>3 DEF TypeOK, Goto
  <2>6. PublishedOK(r)'
    <3>1. Backed(out[r].action, out[r].state, out[r].retryable)'
      BY <1>o, <2>3 DEF PublishedOK, Backed, Justified
    <3> QED BY <2>5, <3>1 DEF PublishedOK, Backed, Justified
  <2> QED BY <1>t, <1>m, <1>u, <2>3, <2>4, <2>5, <2>6, OthersBacked
<1>5. ASSUME NEW r \in Requests, DecideTerminal(r), UNCHANGED crashes PROVE Rest
  <2>1. act[r] = NoAction
    BY <1>5, <1>o DEF DecideTerminal, RequestOK, Bound
  <2>2. PICK s : Return(r, Res(r, s, FALSE))
    BY <1>5 DEF DecideTerminal
  <2> QED BY <1>5, <1>r, <1>u, <2>1, <2>2 DEF DecideTerminal, Res, Backed
<1>6. ASSUME NEW r \in Requests, DecideInvalid(r), UNCHANGED crashes PROVE Rest
  <2>1. act[r] = NoAction
    BY <1>6, <1>o DEF DecideInvalid, RequestOK, Bound
  <2>2. PICK res : res = Res(r, "BLOCKED", TRUE)
    OBVIOUS
  <2>3. res.action = NoAction
    BY <2>1, <2>2 DEF Res
  <2>4. res \in Results
    BY <1>t, <2>2 DEF TypeOK, Res, Results, Keys, ObjectiveStates
  <2>5. RequestsBacked'
    BY <1>6, <1>r, <2>2, <2>3 DEF DecideInvalid, Backed
  <2>6. ResultBacked'
    BY <1>6, <1>t, <1>k, <2>2, <2>3, <2>4, SaveResultBacked DEF DecideInvalid, Backed
  <2> QED BY <1>6, <1>u, <2>5, <2>6 DEF DecideInvalid
<1>7. ASSUME NEW r \in Requests, DecideRaises(r), UNCHANGED crashes PROVE Rest
  <2>1. OwnsItsRow(r)
    BY <1>7, <1>o DEF DecideRaises, RequestOK, Deciding
  <2>2. RowsBacked'
    BY <1>7, <1>t, <1>m, <2>1, SaveObjectiveBacked
    DEF DecideRaises, SaveCopy, OwnsItsRow, Backed
  <2>3. /\ pc'[r] = "saveDecision" /\ out'[r] = Res(r, "FAILED", TRUE)
        /\ UNCHANGED <<act, held>>
        /\ \A q \in Requests \ {r} : pc'[q] = pc[q] /\ out'[q] = out[q]
    BY <1>7, <1>t DEF DecideRaises, Answer, Goto, frame, TypeOK
  <2>4. PublishedOK(r)'
    <3>1. held'[r].action = NoAction
      BY <2>1, <2>3 DEF OwnsItsRow
    <3>2. /\ out'[r].action = NoAction /\ out'[r].state = "FAILED"
          /\ out'[r].retryable = TRUE
      BY <2>1, <2>3 DEF OwnsItsRow, Res
    <3> QED BY <2>3, <3>1, <3>2 DEF PublishedOK, Backed
  <2> QED BY <1>7, <1>t, <1>m, <1>u, <2>2, <2>3, <2>4, OthersBacked DEF DecideRaises
<1>8. ASSUME NEW r \in Requests, SaveDecision(r), UNCHANGED crashes PROVE Rest
  BY <1>8, <1>k, <1>s, <1>u DEF SaveDecision
<1>9. ASSUME NEW r \in Requests, Bind(r), UNCHANGED crashes PROVE Rest
  <2>1. PICK a \in Actions : a = act[r]
    BY <1>9, <1>a DEF Bind, Bound
  <2>2. PICK s : s = held[r].state
    OBVIOUS
  <2>4. RowsBacked'
    BY <1>9, <1>c, <2>1, <2>2 DEF Bind, Bound
  <2> QED BY <1>9, <1>u, <1>v, <2>4 DEF Bind, frame
<1>10. ASSUME NEW r \in Requests, Authorize(r), UNCHANGED crashes PROVE Rest
  <2>1. PICK a \in Actions : a = act[r]
    BY <1>10, <1>a DEF Authorize, Bound
  <2>2. CASE UNCHANGED <<objectives, newest, frame, out>>
             /\ (Goto(r, "prepare") \/ Goto(r, "prior"))
    BY <1>10, <1>u, <1>v, <2>2 DEF Authorize, frame
  <2>3. ASSUME NEW s \in {"BLOCKED", "APPROVAL_REQUIRED"},
               SaveCopy(r, s), Return(r, Res(r, s, FALSE))
        PROVE  Rest
    <3>1. RowsBacked'
      BY <1>10, <1>c, <1>n, <2>1, <2>3 DEF Authorize, Bound
    <3>2. Backed(Res(r, s, FALSE).action, Res(r, s, FALSE).state, Res(r, s, FALSE).retryable)
      BY <1>n, <2>1 DEF Res, Backed
    <3>3. RequestsBacked'
      BY <1>r, <2>3, <3>2
    <3> QED BY <1>10, <1>u, <3>1, <3>3 DEF Authorize
  <2> QED BY <1>10, <2>2, <2>3 DEF Authorize
<1>11. ASSUME NEW r \in Requests, Prepare(r), UNCHANGED crashes PROVE Rest
  <2>1. PICK a \in Actions : a = act[r]
    BY <1>11, <1>a DEF Prepare, Bound
  <2>2. PICK s : s = held[r].state
    OBVIOUS
  <2>3. CASE SaveCopy(r, s) /\ Goto(r, "prior") /\ UNCHANGED out
    <3>2. RowsBacked'
      BY <1>11, <1>c, <2>1, <2>2, <2>3 DEF Prepare, Bound
    <3> QED BY <1>11, <1>u, <1>v, <2>3, <3>2 DEF Prepare, frame
  <2>4. CASE SaveCopy(r, "BLOCKED") /\ Answer(r, "BLOCKED", FALSE)
             /\ Goto(r, "saveUnprepared")
    <3>1. RowsBacked'
      BY <1>11, <1>c, <1>n, <2>1, <2>4 DEF Prepare, Bound
    <3>2. RequestsBacked'
      BY <1>11, <1>b, <1>n, <2>1, <2>4 DEF Prepare, ObjectiveStates
    <3> QED BY <1>11, <1>u, <3>1, <3>2 DEF Prepare
  <2> QED BY <1>11, <2>2, <2>3, <2>4 DEF Prepare
<1>12. ASSUME NEW r \in Requests, SaveUnprepared(r), UNCHANGED crashes PROVE Rest
  <2>1. act[r] \in Keys /\ out[r].action = act[r]
    BY <1>12, <1>a, <1>k, <1>o DEF SaveUnprepared, Bound, PublishedOK
  <2> QED BY <1>12, <1>s, <1>u, <2>1 DEF SaveUnprepared
<1>13. ASSUME NEW r \in Requests, Prior(r), UNCHANGED crashes PROVE Rest
  <2>1. PICK a \in Actions : a = act[r]
    BY <1>13, <1>a DEF Prior, Bound
  <2>2. PICK prior : prior = GetResult(a)
    OBVIOUS
  <2>3. /\ prior \in Results /\ Backed(prior.action, prior.state, prior.retryable)
        /\ prior = NoResult \/ prior.action = a
    <3>1. result \in Results /\ NoResult \in Results
      BY <1>t DEF TypeOK, StoreTypeOK, NoResult, Results, Keys
    <3>2. CASE prior = NoResult
      BY <3>1, <3>2 DEF NoResult, Backed
    <3>3. CASE prior = result /\ result.key = a
      BY <1>p, <3>1, <3>3 DEF ResultBacked
    <3> QED BY <2>2, <3>2, <3>3 DEF GetResult
  <2>4. UNCHANGED <<objectives, actions, result, effects, observations>>
    BY <1>13 DEF Prior
  <2>5. CASE Return(r, prior)
    BY <1>r, <1>u, <2>3, <2>4, <2>5
  <2>6. CASE Goto(r, "claim") /\ UNCHANGED <<frame, out>>
    BY <1>u, <1>v, <2>4, <2>6 DEF frame
  <2>7. CASE /\ prior # NoResult /\ Confirms(a) /\ UNCHANGED frame
             /\ out' = [out EXCEPT ![r] = [prior EXCEPT !.state = "COMPLETED",
                                                        !.retryable = FALSE]]
             /\ Goto(r, "saveReconciled")
    <3>1. /\ pc'[r] = "saveReconciled" /\ UNCHANGED <<act, held>>
          /\ \A q \in Requests \ {r} : pc'[q] = pc[q] /\ out'[q] = out[q]
          /\ out'[r] = [prior EXCEPT !.state = "COMPLETED", !.retryable = FALSE]
      BY <1>t, <2>7 DEF TypeOK, Goto, frame
    <3>2. out'[r].action = a /\ out'[r].state = "COMPLETED" /\ out'[r].retryable = FALSE
      <4>1. prior.action = a /\ prior \in Results
        BY <2>3, <2>7
      <4>2. out'[r].action = prior.action
        BY <3>1, <4>1 DEF Results
      <4>3. out'[r].state = "COMPLETED"
        BY <3>1, <4>1 DEF Results
      <4>4. out'[r].retryable = FALSE
        BY <3>1, <4>1 DEF Results
      <4> QED BY <4>1, <4>2, <4>3, <4>4
    <3>3. effects'[a] > 0
      BY <2>4, <2>7 DEF Confirms
    <3>4. Backed(held[r].action, held[r].state, FALSE)'
      BY <1>o, <2>4, <3>1 DEF PublishedOK, Backed, Justified
    <3>5. PublishedOK(r)'
      BY <2>1, <3>1, <3>2, <3>3, <3>4 DEF PublishedOK, Backed, Justified, ObjectiveStates
    <3> QED BY <1>t, <1>m, <1>u, <2>4, <3>1, <3>5, OthersBacked
  <2> QED BY <1>13, <2>1, <2>2, <2>5, <2>6, <2>7 DEF Prior
<1>14. ASSUME NEW r \in Requests, SaveReconciled(r), UNCHANGED crashes PROVE Rest
  <2>1. PICK a \in Actions : a = act[r]
    BY <1>14, <1>a DEF SaveReconciled, Bound
  <2>2. out[r].action = a /\ out[r].state = "COMPLETED"
    BY <1>14, <1>o, <2>1 DEF SaveReconciled, PublishedOK
  <2>3. Justified(a, "COMPLETED", FALSE)'
    BY <1>14, <1>o, <2>2 DEF SaveReconciled, PublishedOK, Backed, Justified
  <2>4. ClaimsBacked'
    BY <1>14, <1>t, <1>m, <2>1, <2>3, UpdateBacked DEF SaveReconciled
  <2> QED BY <1>14, <1>k, <1>s, <1>u, <2>1, <2>2, <2>4 DEF SaveReconciled
<1>15. ASSUME NEW r \in Requests, Claim(r), UNCHANGED crashes PROVE Rest
  <2>1. UNCHANGED <<objectives, result, act, held, out, effects, observations>>
        /\ Goto(r, "canonical")
    BY <1>15 DEF Claim
  <2>2. ASSUME NEW b \in Actions PROVE Justified(b, actions[b].state, FALSE)'
    <3>1. actions'[b] = actions[b] \/ actions'[b].state = "EXECUTING"
      BY <1>15, <1>t DEF Claim, ClaimAction, TypeOK, StoreTypeOK
    <3> QED BY <1>p, <2>1, <3>1 DEF ClaimsBacked, Justified
  <2> QED BY <1>u, <1>v, <2>1, <2>2 DEF ClaimsBacked
<1>16. ASSUME NEW r \in Requests, Canonical(r), UNCHANGED crashes PROVE Rest
  <2>1. PICK a \in Actions : a = act[r]
    BY <1>16, <1>a DEF Canonical, Bound
  <2>2. PICK known : known = GetResult(a)
    OBVIOUS
  <2>3. Backed(known.action, known.state, known.retryable)
    BY <1>p, <2>2 DEF GetResult, ResultBacked, Backed, NoResult
  <2>4. UNCHANGED <<objectives, actions, result, effects, observations>>
    BY <1>16 DEF Canonical
  <2>5. CASE Return(r, known)
    BY <1>r, <1>u, <2>3, <2>4, <2>5
  <2> DEFINE id == actions[a].objective
  <2>6. CASE Return(r, [key |-> "none", action |-> a, objective |-> id,
                        state |-> "EXECUTING", retryable |-> FALSE])
    BY <1>n, <1>r, <1>u, <2>4, <2>6 DEF Backed
  <2>7. CASE /\ held' = [held EXCEPT ![r] = IF objectives[id] = NoRow THEN @
                           ELSE [id |-> id, state |-> "none",
                                 action |-> objectives[id].action]]
             /\ Goto(r, "execute")
             /\ UNCHANGED <<act, out>>
    <3>1. /\ pc'[r] = "execute"
          /\ held'[r] = held[r] \/ held'[r].state = "none"
          /\ \A q \in Requests \ {r} : pc'[q] = pc[q] /\ held'[q] = held[q]
      BY <1>t, <2>7 DEF TypeOK, Goto
    <3>2. Backed(held[r].action, held[r].state, FALSE)'
      BY <1>n, <1>o, <2>4, <3>1 DEF PublishedOK, Backed, Justified
    <3>3. Backed(out[r].action, out[r].state, out[r].retryable)'
      BY <1>o, <2>4, <2>7 DEF PublishedOK, Backed, Justified
    <3>4. PublishedOK(r)'
      BY <1>t, <2>7, <3>1, <3>2, <3>3 DEF PublishedOK, TypeOK, Goto
    <3> QED BY <1>t, <1>m, <1>u, <2>4, <2>7, <3>1, <3>4, OthersBacked DEF Goto, TypeOK
  <2> QED BY <1>16, <2>1, <2>2, <2>5, <2>6, <2>7 DEF Canonical
<1>17. ASSUME NEW r \in Requests, Execute(r), UNCHANGED crashes PROVE Rest
  <2>1. /\ UNCHANGED <<objectives, actions, result, act, held, out>>
        /\ Goto(r, "saveObservation") \/ Goto(r, "markObserved")
    BY <1>17 DEF Execute
  <2> QED BY <1>u, <1>v, <2>1
<1>18. ASSUME NEW r \in Requests, RecordObservation(r), UNCHANGED crashes PROVE Rest
  <2>1. /\ UNCHANGED <<objectives, actions, result, act, held, out>>
        /\ Goto(r, "markObserved")
    BY <1>18 DEF RecordObservation, frame
  <2> QED BY <1>u, <1>v, <2>1
<1>19. ASSUME NEW r \in Requests, MarkObserved(r), UNCHANGED crashes PROVE Rest
  <2>1. PICK a \in Actions : a = act[r]
    BY <1>19, <1>a DEF MarkObserved, Bound
  <2>2. Justified(a, "OBSERVED", FALSE)'
    BY <1>19, <1>o, <2>1 DEF MarkObserved, CustodyOK, Stored, Justified
  <2>3. RowsBacked'
    BY <1>19, <1>c, <2>1, <2>2 DEF MarkObserved, Bound
  <2>4. ClaimsBacked'
    BY <1>19, <1>t, <1>m, <2>1, <2>2, UpdateBacked DEF MarkObserved
  <2> QED BY <1>19, <1>u, <1>v, <2>3, <2>4 DEF MarkObserved, frame
<1>20. ASSUME NEW r \in Requests, Verify(r), UNCHANGED crashes PROVE Rest
  <2>1. PICK a \in Actions : a = act[r]
    BY <1>20, <1>a DEF Verify, Bound
  <2>2. /\ seen[r] # "none" /\ observations[a] = Stored(seen[r]) /\ pc[r] = "verify"
        /\ UNCHANGED <<actions, result, observations, effects, frame>>
        /\ Goto(r, "saveResult")
    BY <1>20, <1>o, <2>1 DEF Verify, CustodyOK
  <2>3. CASE a \in NoContract /\ Answer(r, "FAILED", FALSE) /\ UNCHANGED objectives
    <3>1. Justified(a, "FAILED", FALSE)'
      BY <2>2, <2>3 DEF Justified, Stored
    <3>2. RequestsBacked'
      BY <1>b, <2>1, <2>2, <2>3, <3>1 DEF ObjectiveStates
    <3> QED BY <1>u, <2>2, <2>3, <3>2
  <2>4. ASSUME NEW s \in ObjectiveStates, NEW again \in BOOLEAN, Conclude(r, s, again),
               Justified(a, s, again)'
        PROVE  Rest
    <3>1. Justified(a, s, FALSE)'
      BY <2>4 DEF Justified
    <3>2. RowsBacked'
      BY <1>c, <2>1, <2>2, <2>4, <3>1 DEF Conclude, Bound
    <3>3. RequestsBacked'
      BY <1>b, <2>1, <2>2, <2>4 DEF Conclude
    <3> QED BY <1>u, <2>2, <3>2, <3>3
  <2>5. CASE Confirms(a) /\ Conclude(r, "COMPLETED", FALSE)
    <3>1. Justified(a, "COMPLETED", FALSE)'
      BY <2>2, <2>5 DEF Justified, Confirms
    <3> QED BY <2>4, <2>5, <3>1 DEF ObjectiveStates
  <2>6. CASE Conclude(r, IF IsUnknown(seen[r]) THEN "OBSERVED" ELSE "FAILED",
                      OffersRetry(seen[r]))
    <3>1. PICK s \in {"OBSERVED", "FAILED"}, again \in BOOLEAN :
            /\ s = (IF IsUnknown(seen[r]) THEN "OBSERVED" ELSE "FAILED")
            /\ again = OffersRetry(seen[r])
      BY DEF OffersRetry
    <3>2. Justified(a, s, again)'
      BY <2>2, <3>1 DEF Justified, IsUnknown, OffersRetry, Stored
    <3>3. Conclude(r, s, again)
      BY <2>6, <3>1
    <3> QED BY <2>4, <3>1, <3>2, <3>3 DEF ObjectiveStates
  <2> QED BY <1>20, <2>1, <2>3, <2>5, <2>6 DEF Verify
<1>21. ASSUME NEW r \in Requests, SaveFinalResult(r), UNCHANGED crashes PROVE Rest
  <2>1. PICK a \in Actions : a = act[r]
    BY <1>21, <1>a DEF SaveFinalResult, Bound
  <2>2. PICK s : s = out[r].state
    OBVIOUS
  <2>3. out[r].action = a
    BY <1>21, <1>o, <2>1 DEF SaveFinalResult, PublishedOK
  <2>4. Justified(a, s, FALSE)'
    BY <1>21, <1>o, <2>2, <2>3 DEF SaveFinalResult, PublishedOK, Backed, Justified
  <2>5. ClaimsBacked'
    BY <1>21, <1>t, <1>m, <2>1, <2>2, <2>4, UpdateBacked DEF SaveFinalResult
  <2> QED BY <1>21, <1>k, <1>s, <1>u, <2>1, <2>3, <2>5 DEF SaveFinalResult
<1>22. ASSUME NEW r \in Requests, Crash(r) PROVE Rest
  <2>1. Backed(NoResult.action, NoResult.state, NoResult.retryable)
    BY DEF NoResult, Backed
  <2>2. RequestsBacked'
    BY <1>22, <1>t, <1>m, <2>1, ReturnBacked DEF Crash
  <2> QED BY <1>22, <1>u, <2>2 DEF Crash
<1>23. ASSUME NEW r \in Requests, Replay(r) PROVE Rest
  <2>1. /\ pc'[r] = "lookup" /\ out'[r] = NoResult /\ UNCHANGED <<act, held>>
        /\ \A q \in Requests \ {r} : pc'[q] = pc[q] /\ out'[q] = out[q]
    BY <1>23, <1>t DEF Replay, Goto, frame, TypeOK
  <2>2. PublishedOK(r)'
    <3>1. Backed(held[r].action, held[r].state, FALSE)'
      BY <1>23, <1>o DEF Replay, frame, PublishedOK, Backed, Justified
    <3>2. out'[r].action = NoAction
      BY <2>1 DEF NoResult
    <3> QED BY <2>1, <3>1, <3>2 DEF PublishedOK, Backed
  <2>3. RequestsBacked'
    BY <1>t, <1>m, <2>1, <2>2, OthersBacked
  <2> QED BY <1>23, <1>u, <2>3 DEF Replay
<1> QED
  BY <1>1, <1>2, <1>3, <1>4, <1>5, <1>6, <1>7, <1>8, <1>9, <1>10, <1>11, <1>12,
     <1>13, <1>14, <1>15, <1>16, <1>17, <1>18, <1>19, <1>20, <1>21, <1>22, <1>23
  DEF Next, Step, RunStep

-----------------------------------------------------------------------------
LEMMA InitHolds == Init => KernelIInv
<1> SUFFICES ASSUME Init PROVE KernelIInv
  OBVIOUS
<1> USE StoreAssumption, KernelAssumption DEF Init, KernelInit, StoreInit
<1>1. TypeOK
  BY DEF TypeOK, StoreTypeOK, NoRow, NoClaim, NoResult, NoCopy, ObjectiveRows, ActionRows,
         Results, Keys, Locations
<1>2. Control
  <2>1. \A o \in ObjectiveIds : \A a \in Actions : ~About(o, a)
    BY DEF About, Bound, NoRow, NoClaim
  <2> QED BY <1>1, <2>1 DEF Control, ClaimOK, Claimed, RequestOK, RowsAreAboutOne, Bound,
                            Deciding, Claiming
<1>3. Custody
  BY DEF Custody, CallsOK, CustodyOK, Owns
<1>4. Published
  BY DEF Published, PublishedOK, Justified, Backed, NoClaim, NoRow, NoResult, NoCopy, Keys
<1> QED BY <1>2, <1>3, <1>4 DEF KernelIInv

LEMMA StepHolds == KernelIInv /\ [Next]_vars => KernelIInv'
BY ControlStep, CustodyStep, PublishedStep DEF KernelIInv

\* The inductive invariant holds in every reachable state, however many requests
\* carry the correlation, whatever they decide and however often they crash.
THEOREM KernelInvariance == Spec => []KernelIInv
BY InitHolds, StepHolds, PTL DEF Spec

\* Every variable keeps its type: no statement of Kernel.run writes a row, a
\* claim or a Result about nothing.
THEOREM TypeCorrect == Spec => []TypeOK
<1>1. KernelIInv => TypeOK
  BY DEF KernelIInv, Control
<1> QED BY <1>1, KernelInvariance, PTL

\* The executor of a key is called at most once.
THEOREM ExecutesAtMostOnce == Spec => []AtMostOnce
<1>1. KernelIInv => AtMostOnce
  BY DEF KernelIInv, Custody, CallsOK, AtMostOnce
<1> QED BY <1>1, KernelInvariance, PTL

\* COMPLETED is nowhere without the effect.
THEOREM CompletesOnlyVerified == Spec => []CompletionVerified
<1>1. KernelIInv => CompletionVerified
  <2> SUFFICES ASSUME KernelIInv, NEW a \in Actions, Says(a, "COMPLETED")
               PROVE  effects[a] > 0
    BY DEF CompletionVerified
  <2> QED BY DEF KernelIInv, Published, PublishedOK, Backed, Justified, Says
<1> QED BY <1>1, KernelInvariance, PTL

\* Nothing is offered for retry that a retry could execute again.
THEOREM RetriesOnlyReverify == Spec => []RetryOnlyReverifies
<1>1. KernelIInv => RetryOnlyReverifies
  <2> SUFFICES ASSUME KernelIInv, NEW a \in Actions, Offers(a)
               PROVE  observations[a] = "succeeded"
    BY DEF RetryOnlyReverifies
  <2> QED BY DEF KernelIInv, Published, PublishedOK, Backed, Justified, Offers
<1> QED BY <1>1, KernelInvariance, PTL

\* An outcome on record as unknown is never reported as a failure.
THEOREM AmbiguityIsKept == Spec => []AmbiguousStaysOpen
<1>1. KernelIInv => AmbiguousStaysOpen
  <2> SUFFICES ASSUME KernelIInv, NEW a \in Actions \ NoContract,
                      observations[a] = "ambiguous"
               PROVE  ~Says(a, "FAILED") /\ ~Offers(a)
    BY DEF AmbiguousStaysOpen
  <2>1. ~Says(a, "FAILED")
    BY DEF KernelIInv, Published, PublishedOK, Backed, Justified, Says
  <2>2. ~Offers(a)
    BY DEF KernelIInv, Published, PublishedOK, Backed, Justified, Offers
  <2> QED BY <2>1, <2>2
<1> QED BY <1>1, KernelInvariance, PTL

-----------------------------------------------------------------------------
\* a statement that saves the Result in hand publishes it
LEMMA SavingPublishes ==
  ASSUME KernelIInv, NEW r \in Requests, NEW key, SaveResult(key, out[r]),
         UNCHANGED <<calls, effects, observations>>,
         pc[r] \in {"saveUnprepared", "saveReconciled", "saveResult"}
  PROVE  \E a \in Actions : Ledger!Publish(a)
<1>1. PICK a \in Actions : a = act[r]
  BY DEF KernelIInv, Control, RequestOK, Bound
<1>2. PICK res \in Results : res = out[r]
  BY DEF KernelIInv, Control, TypeOK
<1>3. res.action = a /\ res.state \in ObjectiveStates /\ res.retryable \in BOOLEAN
  BY <1>1, <1>2 DEF KernelIInv, Published, PublishedOK, Results
<1>4. Justified(a, res.state, res.retryable)
  BY <1>1, <1>2, <1>3 DEF KernelIInv, Published, PublishedOK, Backed
<1>5. /\ result'.action = a /\ result'.state = res.state
      /\ result'.retryable = res.retryable
  BY <1>2, <1>3 DEF SaveResult, Results
<1>6. Ledger!Publish(a)
  BY <1>3, <1>4, <1>5 DEF Ledger!Publish, Justified
<1> QED BY <1>6

LEMMA SavingRejects ==
  ASSUME TypeOK, NEW res \in Results, SaveResult("decision", res),
         res.action = NoAction, res.state \in {"BLOCKED", "FAILED"}, res.retryable = TRUE,
         UNCHANGED <<calls, effects, observations>>
  PROVE  Ledger!Reject
<1>1. /\ result'.action = NoAction /\ result'.state = res.state
      /\ result'.retryable = TRUE
  BY DEF SaveResult, Results
<1> QED BY <1>1 DEF Ledger!Reject

LEMMA LedgerStep ==
  ASSUME KernelIInv, [Next]_vars
  PROVE  [Ledger!Next]_(Ledger!ledgerVars)
<1> USE DEF storeVars, worldVars
<1> DEFINE Same == UNCHANGED <<calls, effects, observations, result>>
<1>t. TypeOK
  BY DEF KernelIInv, Control
<1>o. \A r \in Requests : RequestOK(r) /\ CustodyOK(r) /\ PublishedOK(r)
  BY DEF KernelIInv, Control, Custody, Published
<1>s. Same => UNCHANGED Ledger!ledgerVars
  BY DEF Ledger!ledgerVars
<1>1. ASSUME NEW r \in Requests, DecideInvalid(r) PROVE Ledger!Reject
  <2>1. act[r] = NoAction
    BY <1>1, <1>o DEF DecideInvalid, RequestOK, Bound
  <2>2. PICK res : res = Res(r, "BLOCKED", TRUE)
    OBVIOUS
  <2>3. /\ res \in Results /\ res.action = NoAction /\ res.state = "BLOCKED"
        /\ res.retryable = TRUE
    BY <1>t, <2>1, <2>2 DEF TypeOK, Res, Results, Keys, ObjectiveStates
  <2> QED BY <1>1, <1>t, <2>2, <2>3, SavingRejects DEF DecideInvalid
<1>2. ASSUME NEW r \in Requests, SaveDecision(r) PROVE Ledger!Reject
  <2>1. PICK res \in Results : res = out[r]
    BY <1>t DEF TypeOK
  <2>2. /\ res.action = NoAction /\ res.state = "FAILED" /\ res.retryable = TRUE
    BY <1>2, <1>o, <2>1 DEF SaveDecision, PublishedOK, Results
  <2> QED BY <1>2, <1>t, <2>1, <2>2, SavingRejects DEF SaveDecision
<1>3. ASSUME NEW r \in Requests,
             SaveUnprepared(r) \/ SaveReconciled(r) \/ SaveFinalResult(r)
      PROVE  \E a \in Actions : Ledger!Publish(a)
  <2>1. PICK key : SaveResult(key, out[r])
    BY <1>3 DEF SaveUnprepared, SaveReconciled, SaveFinalResult
  <2>2. /\ UNCHANGED <<calls, effects, observations>>
        /\ pc[r] \in {"saveUnprepared", "saveReconciled", "saveResult"}
    BY <1>3 DEF SaveUnprepared, SaveReconciled, SaveFinalResult
  <2> QED BY <2>1, <2>2, SavingPublishes
<1>4. ASSUME NEW r \in Requests, Execute(r)
      PROVE  Same \/ \E a \in Actions : Ledger!Call(a)
  <2>1. PICK a \in Actions : a = act[r]
    BY <1>4, <1>o DEF Execute, RequestOK, Bound
  <2>2. CASE observations[a] # "none"
    BY <1>4, <2>1, <2>2 DEF Execute, MustExecute
  <2>3. CASE observations[a] = "none"
    <3>1. calls[a] = 0 /\ effects[a] = 0
      <4>1. Owns(r)
        BY <1>4, <1>o, <2>1, <2>3 DEF Execute, CustodyOK, Owns
      <4>2. calls[a] = 0 /\ effects[a] <= calls[a]
        BY <1>4, <1>o, <2>1, <4>1 DEF Execute, CustodyOK, KernelIInv, Custody, CallsOK
      <4> QED BY <1>t, <4>2 DEF TypeOK
    <3>2. PICK landed \in {0, 1} : effects' = [effects EXCEPT ![a] = @ + landed]
      BY <1>4, <2>1, <2>3 DEF Execute, MustExecute
    <3>3. calls' = [calls EXCEPT ![a] = @ + 1] /\ UNCHANGED <<observations, result>>
      BY <1>4, <2>1, <2>3 DEF Execute, MustExecute
    <3>4. calls' = [calls EXCEPT ![a] = 1] /\ effects' = [effects EXCEPT ![a] = landed]
      BY <1>t, <3>1, <3>2, <3>3 DEF TypeOK
    <3>5. Ledger!Call(a)
      BY <2>3, <3>1, <3>3, <3>4 DEF Ledger!Call
    <3> QED BY <3>5
  <2> QED BY <2>2, <2>3
<1>5. ASSUME NEW r \in Requests, RecordObservation(r)
      PROVE  \E a \in Actions : Ledger!Record(a)
  <2>1. PICK a \in Actions : a = act[r]
    BY <1>5, <1>o DEF RecordObservation, RequestOK, Bound
  <2>2. /\ calls[a] = 1 /\ observations[a] = "none" /\ Claimed(a)
        /\ seen[r] \in ObservationKinds
    BY <1>5, <1>o, <1>t, <2>1
    DEF RecordObservation, CustodyOK, RequestOK, Owns, Claiming, TypeOK
  <2>3. PICK k \in ObservationKinds : k = Stored(seen[r])
    BY <2>2 DEF Stored, ObservationKinds
  <2>4. observations' = [observations EXCEPT ![a] = k] /\ UNCHANGED <<calls, effects, result>>
    BY <1>5, <2>1, <2>2, <2>3 DEF RecordObservation, SaveObservation, Claimed
  <2>5. Ledger!Record(a)
    BY <2>2, <2>4 DEF Ledger!Record
  <2> QED BY <2>5
<1>6. ASSUME NEW r \in Requests,
             \/ Lookup(r) \/ Create(r) \/ DecideTerminal(r) \/ DecideRaises(r)
             \/ Bind(r) \/ Authorize(r) \/ Prepare(r) \/ Prior(r) \/ Claim(r)
             \/ Canonical(r) \/ MarkObserved(r) \/ Verify(r) \/ Crash(r) \/ Replay(r)
             \/ \E a \in Actions : DecideAction(r, a)
      PROVE  Same
  BY <1>6 DEF Lookup, Create, DecideTerminal, DecideRaises, Bind, Authorize, Prepare,
              Prior, Claim, Canonical, MarkObserved, Verify, Crash, Replay, DecideAction
<1>7. CASE UNCHANGED vars
  BY <1>7, <1>s DEF vars
<1> QED BY <1>1, <1>2, <1>3, <1>4, <1>5, <1>6, <1>7, <1>s
        DEF Next, Step, RunStep, Ledger!Next

\* The Kernel implements the ledger: each of its steps calls, records, publishes
\* or rejects as the ledger allows, or changes nothing the ledger sees.
THEOREM ImplementsLedger == Spec => KeepsLedger
<1>1. Init => Ledger!Init
  BY DEF Init, KernelInit, StoreInit, NoResult, Ledger!Init
<1>2. KernelIInv /\ [Next]_vars => [Ledger!Next]_(Ledger!ledgerVars)
  BY LedgerStep
<1> QED BY <1>1, <1>2, KernelInvariance, PTL DEF Spec, KeepsLedger, Ledger!Spec
=============================================================================
