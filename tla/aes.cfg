SPECIFICATION Spec
CONSTANTS
  CbcCases <- MCCbcCases
  Signed <- MCSigned
INVARIANTS
  KnownAnswer
  DecryptsBack
  PayloadsAsLabelled
PROPERTIES
  StepsAsFips
CHECK_DEADLOCK FALSE
