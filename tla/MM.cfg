\* Blocks of 24, 32 and 56 bytes on a heap that can grow by 48 bytes, and a second
\* run of the client on the memory of the first.
CONSTANTS
  Fill <- FillIndex
  MaxHeap = 120
  WordLimit = 1024
  Ids = {1, 2, 3}
  Sizes = {0, 1, 20, 48}
  MaxResets = 1
SPECIFICATION Spec
INVARIANTS
  TypeOK
  Tiled
  FreeListExact
  Coalesced
  NoLeak
PROPERTY
  ImplementsAlloc
