CONSTANTS
  user = user
  Core = core
  Alloc = alloc
  Users = {user}
  Processes = {p1, p2}
  Tasks <- MCTasks
  Saved = {alloc}
  MaxVersion <- MCMaxVersion
  None = None
  Blank = Blank
  NoFiles = NoFiles
SPECIFICATION Spec
SYMMETRY Symmetry
INVARIANT RunsRecentSource
