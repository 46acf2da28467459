SPECIFICATION Spec
CONSTANTS
  MAX_REBOOT = 2
  UNINITIALIZED = 4
  CounterModulus = 6
  InitialBlocks <- MissionBlocks
  MaxFaults = 0
  MaxCommands = 0
INVARIANT
  LoadsSelectedImage
