CONSTANTS
  f1 = f1
  f2 = f2
  Findings = {f1, f2}
  Plannable = {f1, f2}
  Reviewers = {r1}
  Validator = Validator
  Person = Person
  Iterations = 14
  MaxVersion = 16
  MaxTime = 2
SPECIFICATION Spec
INVARIANTS DecisionIsCoherent FeedbackNeverStalls LoopSuffices
CHECK_DEADLOCK FALSE
VIEW PreparationView
SYMMETRY FindingSymmetry
