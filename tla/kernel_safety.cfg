CONSTANTS
  r1 = r1
  r2 = r2
  a1 = a1
  a2 = a2
  Requests = {r1, r2}
  Actions = {a1, a2}
  ObjectiveIds = {1, 2, 3, 4}
  NoAction = NoAction
  NoObjective = NoObjective
  Preparer = {a1}
  NoContract = {a2}
  ModelOutcomes = {"action", "answer", "invalid", "raise"}
  PolicyOutcomes = {"allow", "deny"}
  ExecutorOutcomes = {"succeeded", "ambiguous", "unknown"}
  MaxCrashes = 1
  MaxReplays = 1
SYMMETRY MCSymmetry
SPECIFICATION MCSpec
INVARIANTS KernelIInv AtMostOnce CompletionVerified RetryOnlyReverifies AmbiguousStaysOpen
PROPERTY KeepsLedger
CHECK_DEADLOCK FALSE
