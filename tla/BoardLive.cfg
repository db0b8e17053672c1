SPECIFICATION FairSpec
CONSTANTS
  p1 = p1
  p2 = p2
  w1 = w1
  w2 = w2
  f1 = f1
  f2 = f2
  c1 = c1
  c2 = c2
  Readme = Readme
  Manifest = Manifest
  Torn = Torn
  NoOne = NoOne
  Procs <- TwoProcs
  Windows <- OneWindow
  Folders <- OneFolder
  Copies <- OneCopy
  MaxEntries = 2
  MaxOwned = 1
  MaxLegacy = 3
  MaxTasks = 3
  Budgets <- AllWell
PROPERTY LeftInputsGo
CHECK_DEADLOCK FALSE
