CONSTANTS
  MaxMoves  = 4
  MaxFaults = 2
  Calm      = {}
  Matched   = FALSE
SPECIFICATION FairSpec
INVARIANTS
  NoLostWakeup
  ConsoleFollows
  ThreadsGoOn
PROPERTY
  EventServed
CHECK_DEADLOCK FALSE
