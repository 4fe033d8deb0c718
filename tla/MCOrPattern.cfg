CONSTANTS
  ByteBits = 2
  Programs <- MCPrograms
  RunsOf <- MCRunsOf
  MemorySize = 32
  StackBase = 16
  MaxSteps = 10
SPECIFICATION Running
PROPERTY IrrefutableKeepsSlot
CHECK_DEADLOCK FALSE
