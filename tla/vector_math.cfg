\* Every vector type and every kernel, on every instruction set.
SPECIFICATION Spec
CONSTANTS
  Types <- AllTypes
  MaxInt = 15
  MaxCalls = 1
  Width = 4
  Programs <- AllPrograms
  Lengths = {0, 1, 3, 4, 7, 8, 11, 12, 15, 16, 20, 23, 33, 44}
  Behind = 8
INVARIANTS
  KernelsAreTheirTemplates
PROPERTIES
  ActsOnLanes
CHECK_DEADLOCK FALSE
