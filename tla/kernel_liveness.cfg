CONSTANTS
  r1 = r1
  r2 = r2
  a1 = a1
  Requests = {r1, r2}
  Actions = {a1}
  ObjectiveIds = {1, 2, 3, 4, 5}
  NoAction = NoAction
  NoObjective = NoObjective
  Preparer = {}
  NoContract = {}
  ModelOutcomes = {"action"}
  PolicyOutcomes = {"allow"}
  ExecutorOutcomes = {"succeeded", "ambiguous"}
  MaxCrashes = 1
SPECIFICATION FairSpec
PROPERTY ComingBackVerifies
CHECK_DEADLOCK FALSE
