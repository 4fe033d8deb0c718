CONSTANTS
  N = 3
  NAdts = 2
  Items <- MCItems
  MaxAsks = 3
  MaxNested = 2
  Forward = FALSE
SPECIFICATION Spec
INVARIANT TypeOK
INVARIANT LookupInBounds
INVARIANT TakesItsAnswer
INVARIANT NoLostCall
INVARIANT TablesComplete
PROPERTY RequestsAnswered
PROPERTY ProviderSpec
\* A run ends when the process does; that no request is stuck is RequestsAnswered.
CHECK_DEADLOCK FALSE
