CONSTANTS
  Clients = {c1, c2, c3}
  Gated   = TRUE
SPECIFICATION Spec
SYMMETRY Symmetry
INVARIANTS
  GateClosedAtRest
  SampledPowered
  VoltageIsFresh
  CalibratesOnce
