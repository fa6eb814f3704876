CONSTANTS
  Half     <- MCHalf
  Curves   <- MCCurves
  Voltages <- MCVoltages
SPECIFICATION FairSpec
INVARIANTS
  CurveSafe
  LevelSound
PROPERTY
  Returns
CHECK_DEADLOCK FALSE
