SPECIFICATION Spec
CONSTANTS
  r1 = r1
  r2 = r2
  a = a
  b = b
  NoPlan = NoPlan
  TimeNames = {"due_at", "ends_at"}
  Requests <- MCRequests
  Plans <- MCPlans
  Refusals <- MCRefusals
  Kinds = {"succeeded", "ambiguous"}
  Rebinds = FALSE
  MaxCrashes = 1
SYMMETRY Symmetry
INVARIANTS PlanTypeOK CompletePlansAreDone
PROPERTIES DependentsWait CompletionIsKept
