CONSTANTS
  Drivers = {"versioning"}
  Rests <- MCRests
  MaxDrifts = 1
SPECIFICATION Spec
PROPERTIES
  DriftBlocksExecution
CHECK_DEADLOCK FALSE
