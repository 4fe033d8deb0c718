CONSTANTS
  MaxStmts = 5
  MaxValues = 3
  Families <- MCFamilies
  Hazards <- MCHazards
SPECIFICATION Spec
INVARIANT NoPanic
INVARIANT FlagsOwnDistinctValues
INVARIANT ScopeExitDrops
PROPERTY OwnershipSpec
\* A run ends when the function returns or needs more values than MaxValues.
CHECK_DEADLOCK FALSE
