CONSTANTS
  Boards        = {"nrf9161"}
  Uninterrupted = {}
SPECIFICATION Spec
INVARIANT
  LimitInForce
