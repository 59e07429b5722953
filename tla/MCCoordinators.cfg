CONSTANTS
  Findings = {f1, f2}
  CaseIds = {c1, c2}
  Assets = {a1, a2}
  Writers = {w1, w2}
  NoCase = NoCase
  MaxVersion = 4
  Issued <- MCIssued
SPECIFICATION Spec
SYMMETRY StoreSymmetry
INVARIANTS TypeOK LogReplaysToRow ActiveIndexExact
PROPERTIES RowsAreLifecycles
CHECK_DEADLOCK FALSE
