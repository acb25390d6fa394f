SPECIFICATION PSpec
CONSTANTS
  Range = 3
  Prescale = 2
  LoadValues <- Loads
  TmodWrites <- Settings
  TconWrites <- Controls
  P3Writes <- Pins
INVARIANTS
  TypeOK
  EveryTickCounts
PROPERTIES
  TickWithinOutcomes
  OverflowPeriod
