CONSTANTS
  Drivers <- MCDrivers
  Rests <- MCRests
  MaxDrifts = 2
SPECIFICATION Spec
INVARIANTS
  OverwritesOnlyCheckpointed
  OutcomeIsReal
  OnlyTheSettingChanges
CHECK_DEADLOCK FALSE
