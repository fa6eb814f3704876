CONSTANTS
  Boards        = {"nrf9161", "nrf9151"}
  Uninterrupted = {"nrf9161"}
SPECIFICATION Spec
INVARIANTS
  LimitInForce
  SleepsConfigured
PROPERTY
  PulldownsKept
