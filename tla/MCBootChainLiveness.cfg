SPECIFICATION CrashLoopSpec
CONSTANTS
  MAX_REBOOT = 2
  UNINITIALIZED = 4
  CounterModulus = 6
  InitialBlocks <- LaunchBlocks
  MaxFaults = 1
  MaxCommands = 0
PROPERTIES
  AlwaysBoots
  Failover
