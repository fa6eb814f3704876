CONSTANTS
  Digits  = {1, 6, 11}
  Buffers = {8, 96, 97, 128, 138}
SPECIFICATION JsonSpec
INVARIANT RefusedIfTooSmall
CHECK_DEADLOCK FALSE
