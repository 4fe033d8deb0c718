CONSTANTS
  MaxStmts = 4
  MaxValues = 3
  Families <- MCFamilies
  Hazards <- MCHazards
SPECIFICATION Spec
INVARIANT DroppedAtMostOnce
CHECK_DEADLOCK FALSE
