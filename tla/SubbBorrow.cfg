SPECIFICATION Spec
CONSTANTS
  Operands <- Edges
  Undefined = Undefined
CONSTRAINT BInOperands
INVARIANTS
  WideDifference
