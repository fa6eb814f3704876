CONSTANTS
  MaxMoves  = 8
  MaxFaults = 0
  Calm      = {"boot", "event", "loop"}
  Matched   = TRUE
SPECIFICATION FairSpec
INVARIANTS
  FlagMatchesCable
  PowerFollowsCable
PROPERTIES
  NoPulldownOnPower
  ImplementsSwitch
CHECK_DEADLOCK FALSE
