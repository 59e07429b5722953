CONSTANTS
  f1 = f1
  f2 = f2
  f3 = f3
  a1 = a1
  w1 = w1
  w2 = w2
  a2 = a2
  Findings = {f1, f2, f3}
  Assets = {a1, a2}
  CaseIds = {c1, c2, c3}
  Workers = {w1, w2}
  NoCase = NoCase
  MaxCrashes = 1
  AssetOf <- TwoAssets
  Batch <- Overlap
  Score <- ThreeScores
SPECIFICATION FairSpec
VIEW IntakeView
INVARIANTS AssignedIsMember CorrelatedByAsset PriorityOfAFinding
PROPERTIES AssignmentIsFinal ReplayConverges
CHECK_DEADLOCK FALSE
