CONSTANTS
  MaxMoves  = 4
  MaxFaults = 0
  Calm      = {"boot", "event"}
  Matched   = TRUE
SPECIFICATION Spec
INVARIANT
  RegulatorDisabled
CHECK_DEADLOCK FALSE
