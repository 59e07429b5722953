CONSTANTS
  TheJob = TheJob
  Jobs = {TheJob}
  Findings = {f1, f2}
  Workers = {w1, w2}
  NoWorker = NoWorker
  NoJob = NoJob
  Opens <- MCOpens
  Closes <- MCCloses
  Lease = 1
  MaxTime = 3
  Completable = {"succeeded", "rolled_back", "contained", "failed"}
SPECIFICATION Spec
SYMMETRY ExecutionSymmetry
INVARIANTS OneChanger ChangeIsAccounted EndsAsReported JobAgreesWithCase
  ReleaseTellsThePlan
CHECK_DEADLOCK FALSE
