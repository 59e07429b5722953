CONSTANTS
  w1 = w1
  w2 = w2
  plan = plan
  corrected = corrected
  review = review
  Workers = {w1, w2}
  Tasks <- MCTasks
  PackageOf <- MCPackageOf
  Signatures = {"error"}
  Losable = {plan}
  MaxCalls = 3
  MaxAttempts = 2
  MaxElapsed = 1
  Threshold = 2
  MaxOverrides = 1
  MaxDeaths = 1
  MaxTime = 1
SPECIFICATION Spec
INVARIANTS BudgetsHold DeadCallStops StopIsDurable SuccessIsReplayed RepeatedFailuresStop
SYMMETRY MCSymmetry
VIEW MCView
CHECK_DEADLOCK FALSE
