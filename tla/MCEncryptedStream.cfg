SPECIFICATION Spec
CONSTANTS
  ChunkLimit = 3
  MaxBytes = 6
INVARIANTS
  TypeOK
  InSync
  FlushedIsSent
  NothingLost
  ReadInSync
