CONSTANTS
  Inbound <- MCInbound
  Outbound <- MCOutbound
  Cases <- MCCases
  MaxChanges = 2
SPECIFICATION ValidationSpec
INVARIANTS
  DismissedWereGone
  ValidatedHeld
  OpenPortKeepsTheCase
CHECK_DEADLOCK FALSE
