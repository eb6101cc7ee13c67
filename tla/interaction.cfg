CONSTANTS
  r1 = r1
  r2 = r2
  a1 = a1
  a2 = a2
  Requests = {r1, r2}
  Actions = {a1, a2}
  ObjectiveIds = {1, 2, 3, 4}
  NoAction = NoAction
  NoObjective = NoObjective
  Preparer = {}
  NoContract = {}
  ModelOutcomes = {"action"}
  PolicyOutcomes = {"allow"}
  ExecutorOutcomes = {"succeeded", "ambiguous"}
  DirectOutcomes = {"answered", "unavailable"}
  MaxCrashes = 1
  MaxReplays = 1
SYMMETRY MCFullSymmetry
SPECIFICATION BoundarySpec
INVARIANTS BoundaryIInv AtMostOnce CompletionVerified AmbiguousStaysOpen
CHECK_DEADLOCK FALSE
