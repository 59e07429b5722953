CONSTANTS
  f1 = f1
  f2 = f2
  f3 = f3
  a1 = a1
  w1 = w1
  w2 = w2
  a2 = a2
  Findings = {f1, f2}
  Assets = {a1}
  CaseIds = {c1, c2}
  Workers = {w1, w2}
  NoCase = NoCase
  MaxCrashes = 0
  AssetOf <- OneAsset
  Batch <- Apart
  Score <- Scores
SPECIFICATION Spec
VIEW RaceView
INVARIANT NoLosingWorkerFails
CHECK_DEADLOCK FALSE
