CONSTANTS
  vm = vm
  worker = worker
  main = main
  helper = helper
  constant = constant
  glue = glue
  userDrop = userDrop
  None = None
  Threads = {vm, worker}
  Functions <- MCFunctions
  Raw = {glue}
  Drops <- MCDrops
  Uses <- MCUses
  Glue <- MCGlue
  Calls <- MCCalls
  Consts <- MCConsts
  Roots <- MCRoots
  Evals <- MCEvals
  Stacks = {s1, s2, s3, s4, s5}
  MaxFrames = 2
  MaxNested <- MCNested
SPECIFICATION Spec
SYMMETRY Symmetry
INVARIANT TypeOK
INVARIANT FlagsAreFrames
INVARIANT StacksExclusive
INVARIANT CompiledOncePerThread
