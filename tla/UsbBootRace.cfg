CONSTANTS
  MaxMoves  = 2
  MaxFaults = 0
  Calm      = {"event"}
  Matched   = FALSE
SPECIFICATION Spec
INVARIANT
  FlagMatchesCable
CHECK_DEADLOCK FALSE
