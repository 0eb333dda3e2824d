SPECIFICATION Spec
CONSTANTS
  Bits = 2
  MaxBlocks = 3
INVARIANTS
  IsCbcMac
CHECK_DEADLOCK FALSE
