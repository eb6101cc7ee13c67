CONSTANTS
  r1 = r1
  r2 = r2
  a1 = a1
  a2 = a2
  Requests = {r1, r2}
  Actions = {a1}
  ObjectiveIds = {1, 2, 3, 4, 5}
  NoAction = NoAction
  NoObjective = NoObjective
  Preparer = {}
  NoContract = {}
  ModelOutcomes = {"action"}
  PolicyOutcomes = {"allow"}
  ExecutorOutcomes = {"unknown"}
  MaxCrashes = 1
  MaxReplays = 1
SPECIFICATION MCSpec
INVARIANT TypedUnknownStaysOpen
CHECK_DEADLOCK FALSE
