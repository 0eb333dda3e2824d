SPECIFICATION Spec
CONSTANTS
  NCAP = 4
  NChunks = 3
  Content = {"signed", "other"}
  Signed = {"signed"}
  RecvSlot = 2
  MemSlot = 1
  Takens = {{0}, {0, 3}}
  HeapSlot0 = 1
  Waits = FALSE
  OtherFaults = TRUE
INVARIANTS CapConserved AnswerTrue
PROPERTIES ImplementsPolicy
CHECK_DEADLOCK FALSE
