CONSTANTS
  MaxStmts = 4
  MaxValues = 3
  Families <- MCFamilies
  Hazards <- MCHazards
SPECIFICATION Spec
INVARIANT TypeOK
INVARIANT NoPanic
INVARIANT FlagsOwnDistinctValues
PROPERTY OwnershipSpec
\* A run ends when the function returns or needs more values than MaxValues.
CHECK_DEADLOCK FALSE
