SPECIFICATION Spec
CONSTANTS
  NCAP = 64
  NHeap = 7
  Headers <- MCHeaders
INVARIANTS
  TypeOK
  SignedOnly
  CopyFresh
  SectionsActive
  Wired
  StartsSystem
PROPERTIES
  OnlyUnalignedFails
