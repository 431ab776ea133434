SPECIFICATION FairSpec
CONSTANTS
  Versions = {763, 764, 766}
  Thresholds = {Compressed}
  Uncompressed = Uncompressed
  NoBackend = NoBackend
  MaxQueue = 2
INVARIANTS
  TypeOK
  WritesUnderstood
  ReadsUnderstood
  HandOff
  OnlyVerified
PROPERTY
  HeldOnlyUntimed
