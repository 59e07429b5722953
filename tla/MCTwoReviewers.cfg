\* Two review workers on one case.
CONSTANTS
  f1 = f1
  Findings = {f1}
  Plannable = {f1}
  Reviewers = {r1, r2}
  Validator = Validator
  Person = Person
  Iterations = 14
  MaxVersion = 16
  MaxTime = 2
SPECIFICATION Spec
INVARIANT RecordsAreConsistent
CHECK_DEADLOCK FALSE
