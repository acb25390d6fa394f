SPECIFICATION Spec
CONSTANTS
  Ram = {0, 1}
  Standard = {130, 131, 144, 208, 224}
  Extra = {192}
  Devices = {144, 192, 224}
  External = {1, 256}
  Registers = {0}
  BitAddrs <- SmallBits
  Stored <- SmallStored
  BIT_RAM_START = 1
  MaxNonZero = 2
CONSTRAINT
  SmallBytes
INVARIANTS
  TypeOK
  OperandsNameCells
PROPERTIES
  ImplementsCells
  HandledStaysOutside
