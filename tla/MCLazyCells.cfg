SPECIFICATION Spec
CONSTANTS
  Interpreter = vm
  Workers = {w1}
  None = None
  Cells = {"N1", "N2", "F", "A", "T", "I"}
  Cycles = {}
  Family <- MCFamily
  Lock <- MCLock
  Rank <- MCRank
  Server <- MCServer
INVARIANT TypeOK
INVARIANT NoCircularWait
INVARIANT AnswersAgree
INVARIANT ComputedOnce
PROPERTY RequestsEnd
PROPERTY MemoSpec
