CONSTANTS
  ByteBits = 2
  StackBase = 16
  Scratch = 72
  MaxSteps = 200
  MemorySize = 420
  Value = 320
  Heap = 368
  Scenarios <- MCScenarios
SPECIFICATION Spec
INVARIANT TypeOK
INVARIANT DropsInRustsOrder
INVARIANT EverythingDropped
CHECK_DEADLOCK FALSE
