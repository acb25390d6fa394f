SPECIFICATION Spec
CONSTANTS
  Code <- SmallCode
  Offsets = {0, 1, 126, 128, 254}
  Vectors = {3}
  Ram <- SmallRam
  Bases = {7}
  Stored = {1}
INVARIANTS
  TypeOK
  StackHolds
PROPERTIES
  ReturnsToCaller
  BranchesReach
  ImplementsFrames
