SPECIFICATION Spec
CONSTANTS
  Size <- MCSize
  ChunkSize = 3
  MaxLosses = 2
INVARIANTS
  TypeOK
  StreamIntact
PROPERTY
  Resynchronizes
