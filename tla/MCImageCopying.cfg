SPECIFICATION Spec
CONSTANTS
  Data <- Contents
  FullBuckets <- Full
  InitialFiles <- Files
  BucketsPerSector = 2
  SmallSectors = 1
  ObswSectors = 2
  HammingCapacity = 2
  MaxFileSize = 4
  MaxCommands = 2
  MaxDisturbances = 1
INVARIANTS
  TypeOK
  IdleEngineIsReset
  FaithfulCopy
  BootloaderProgrammedOnce
PROPERTY
  CopyTerminates
CHECK_DEADLOCK FALSE
