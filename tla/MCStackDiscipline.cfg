CONSTANTS
  Layouts <- MCLayouts
  MaxLeafs = 4
  MaxEntries = 3
  MaxScopes = 3
SPECIFICATION Spec
INVARIANT TypeOK
INVARIANT LiveSlotsDisjoint
INVARIANT PendingIffAllocated
INVARIANT LeafsInAllocation
INVARIANT ScopesNested
