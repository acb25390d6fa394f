SPECIFICATION Spec
CONSTANTS
  Operands <- Edges
  Undefined = Undefined
CONSTRAINT BInOperands
INVARIANTS
  TypeOK
  WideSum
  AddUndoesSubb
  DecimalSum
  RotatesInvert
  DivisionInverts
PROPERTIES
  ParityKept
