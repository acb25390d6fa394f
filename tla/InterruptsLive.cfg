SPECIFICATION FairSpec
CONSTANTS
  Callbacks = {"EXT0", "EXT1", "TIM1"}
  Switched = {"EXT0"}
  IeWrites <- LiveEnables
  IpWrites <- LivePriorities
  TconWrites <- LiveControls
  ModeWrites <- LiveModes
  MaxSleep = 2
  ClkCycles = {1}
PROPERTIES
  HighRequestServed
