CONSTANTS
  r1 = r1
  r2 = r2
  a1 = a1
  a2 = a2
  Requests = {r1}
  Actions = {a1, a2}
  ObjectiveIds = {1, 2, 3, 4}
  NoAction = NoAction
  NoObjective = NoObjective
  Preparer = {}
  NoContract = {}
  ModelOutcomes = {"action"}
  PolicyOutcomes = {"allow"}
  ExecutorOutcomes = {"succeeded"}
  DirectOutcomes = {}
  MaxCrashes = 0
  MaxReplays = 1
SPECIFICATION BoundarySpec
INVARIANT OneConsequence
CHECK_DEADLOCK FALSE
