SPECIFICATION FairSpec
CONSTANTS
  Callbacks = {"EXT0", "EXT1"}
  Switched = {}
  IeWrites <- SetupEnables
  IpWrites <- Priorities
  TconWrites <- SetupControls
  ModeWrites <- SetupModes
  MaxSleep = 0
  ClkCycles = {1}
PROPERTIES
  RaisedOnlyByItsCallback
