SPECIFICATION FairSpec
CONSTANTS
  Callbacks = {"EXT0"}
  Switched = {}
  IeWrites <- SetupEnables
  IpWrites <- Priorities
  TconWrites <- SetupControls
  ModeWrites <- SetupModes
  MaxSleep = 0
  ClkCycles = {1}
PROPERTIES
  NoVectorWhileDisabled
