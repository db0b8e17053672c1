SPECIFICATION Spec
CONSTANTS
  p1 = p1
  p2 = p2
  h1 = h1
  c1 = c1
  EmptyPath = EmptyPath
  NoItems = NoItems
  Torn = Torn
  NoReset = NoReset
  NoData = NoData
  NoTask = NoTask
  Paths <- MCPaths
  Homes = {h1}
  HomeOf <- MCHomeOf
  Contents <- MCNoContents
  Resets = {}
  SignalTypes = {"InitApp", "RefreshRecent", "LoadCodexAccounts", "SaveCodexAccount"}
  MaxSignals = 3
CHECK_DEADLOCK FALSE
PROPERTIES
  EveryRequestAnswered
  RefreshEnds
