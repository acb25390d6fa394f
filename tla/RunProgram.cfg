SPECIFICATION FairSpec
CONSTANTS
  Addr = {0, 1, 2, 3, 4}
  Byte <- Bytes
  Files <- Programs
  Kind <- Kinds
  Leads <- Targets
  Zero = "zero"
  Vectors = {2, 4}
  CycleArgs <- Limits
  BreakArgs = {2, 4}
  EnableArgs = {{"TIM0"}}
  ClkCycles = {1, 2}
  Horizon = 6
INVARIANTS
  TypeOK
  RunsItsFile
  BreakFaithful
PROPERTIES
  CycleLimitExact
  BreakMissedOnlyOnEntry
  LimitedRunReturns
  CallbackNotForgotten
