SPECIFICATION Spec
CONSTANTS
  Heap = 2
  Stack = 17
  CHUNK = 3
  ArrayLen = 5
  Addr <- MCAddr
  Size <- MCSize
INVARIANTS
  TypeOK
  ChunksFit
  Tiling
  FindUnique
  Exclusive
PROPERTIES
  ImplementsPool
