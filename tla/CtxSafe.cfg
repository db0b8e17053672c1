SPECIFICATION MCSpec
CONSTANTS
  p1 = p1
  p2 = p2
  h1 = h1
  c1 = c1
  EmptyPath = EmptyPath
  NoItems = NoItems
  Torn = Torn
  NoReset = NoReset
  NoData = NoData
  NoTask = NoTask
  Paths <- MCPaths
  Homes = {h1}
  HomeOf <- MCHomeOf
  Contents <- MCContents
  Resets = {r1}
  SignalTypes <- AllSignals
  MaxSignals = 4
CHECK_DEADLOCK FALSE
SYMMETRY FileSymmetry
INVARIANTS
  AccountOpsExclusive
  ResetShownIsLatest
  ShownDataIsCurrent
  NoGuardMetBusy
  LastSaveWins
  AnsweredOnce
  WaitersHaveRefresh
PROPERTIES
  JoinedAnswerIsForItsPath
