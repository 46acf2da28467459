SPECIFICATION Spec
CONSTANTS
  Data <- Contents
  FullBuckets <- Full
  InitialFiles <- Files
  BucketsPerSector = 2
  SmallSectors = 1
  ObswSectors = 2
  HammingCapacity = 2
  MaxFileSize = 4
  MaxCommands = 1
  MaxDisturbances = 0
INVARIANT
  NextBucketIsRead
CHECK_DEADLOCK FALSE
