SPECIFICATION MCSpec
CONSTANTS
  x = x
  y = y
  z = z
  Name = {x, y, z}
  Type <- MCType
  Lengths = {1, 3}
  Registers = 2
  FloatRegisters = 1
  HalfRange = 64
  MaxLocals = 20
  MaxParameters = 3
SYMMETRY Symmetry
INVARIANTS
  SlotsDisjoint
  RegistersDistinct
  ReturnAddressKept
CHECK_DEADLOCK FALSE
