CONSTANTS
  j1 = j1
  j2 = j2
  Jobs = {j1, j2}
  Workers = {w1, w2}
  NoWorker = NoWorker
  NoJob = NoJob
  Opens <- MCOpens
  Closes <- MCCloses
  Lease = 2
  MaxTime = 6
  Completable <- SqliteCompletable
SPECIFICATION FairSpec
INVARIANTS TypeOK MissedMeansUntouched StartedInsideWindow OneExecutionPerLease RecordedIsOutcome
PROPERTIES NoJobForgotten
CHECK_DEADLOCK FALSE
