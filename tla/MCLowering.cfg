CONSTANTS
  ByteBits = 2
  Programs <- MCPrograms
  RunsOf <- MCRunsOf
  MemorySize = 240
  StackBase = 16
  MaxSteps = 200
SPECIFICATION Running
INVARIANTS MachineOK ResultIsRusts JitAgrees Halts
CHECK_DEADLOCK FALSE
