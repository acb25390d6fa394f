SPECIFICATION FairSpec
CONSTANTS
  Callbacks = {"EXT0", "TIM0", "EXT1", "sched"}
  Switched = {"EXT1"}
  IeWrites <- Enables
  IpWrites <- Priorities
  TconWrites <- Controls
  ModeWrites <- Modes
  MaxSleep = 1
  ClkCycles = {1}
INVARIANTS
  TypeOK
  NestingInv
PROPERTIES
  ImplementsLevels
