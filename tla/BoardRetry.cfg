SPECIFICATION Spec
CONSTANTS
  p1 = p1
  p2 = p2
  w1 = w1
  w2 = w2
  f1 = f1
  f2 = f2
  c1 = c1
  c2 = c2
  Readme = Readme
  Manifest = Manifest
  Torn = Torn
  NoOne = NoOne
  Procs <- OneProc
  Windows <- OneWindow
  Folders <- OneFolder
  Copies <- OneCopy
  MaxEntries = 1
  MaxOwned = 1
  MaxLegacy = 0
  MaxTasks = 3
  Budgets <- OpenElsewhere
INVARIANT RetryCanFinish
CHECK_DEADLOCK FALSE
