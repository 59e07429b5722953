CONSTANTS
  Findings = {f1, f2}
  MaxVersion = 60
SPECIFICATION Spec
SYMMETRY FindingSymmetry
VIEW LifecycleView
INVARIANTS TypeOK EvidenceInOrder SupersededEvidenceGone
CHECK_DEADLOCK FALSE
