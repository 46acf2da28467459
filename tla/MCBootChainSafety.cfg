SPECIFICATION Spec
CONSTANTS
  MAX_REBOOT = 2
  UNINITIALIZED = 4
  CounterModulus = 6
  InitialBlocks <- LaunchBlocks
  MaxFaults = 1
  MaxCommands = 1
INVARIANTS
  TypeOK
  BoundedTries
  VerifiedBoot
PROPERTY
  ImplementsBootPolicy
