SPECIFICATION Spec
CONSTANTS
  NCAP = 4
  NChunks = 3
  Content = {"signed", "other"}
  Signed = {"signed"}
  RecvSlot = 2
  MemSlot = 1
  Takens = {{0}}
  HeapSlot0 = 1
  Waits = TRUE
  OtherFaults = FALSE
PROPERTIES WriteOnlyAllocated
