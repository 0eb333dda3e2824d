SPECIFICATION FairSpec
CONSTANTS
  NCAP = 4
  NChunks = 3
  Content = {"signed", "other"}
  Signed = {"signed"}
  RecvSlot = 2
  MemSlot = 1
  Takens = {{0}, {0, 3}}
  HeapSlot0 = 1
  Waits = TRUE
  OtherFaults = TRUE
INVARIANTS TypeOK CodeIntegrity WxorX CapConserved CopyFresh AnswerTrue AnswerExact SlotReady
PROPERTIES ExecOnlyAllocated ServedWhileRunning
