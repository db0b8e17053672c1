SPECIFICATION FairSpec
CONSTANTS
  Providers = {"codex", "kimi", "opencode", "qwen", "muse", "zcode", "claude"}
  Files <- TwoFiles
  Subagents = {"f2"}
  MaxWatchedPaths = 4
  MaxWatchedDirs = 1
  MaxEntries = 2
  MaxHeaders = 1
  Rediscovery = 1
  Turns <- TwoTurns
  Sessions = {"s1"}
  InitialTail = 4
  MaxTail = 10
  LocationTime = 1
  MaxLocations = 1
  MaxResponses = 1
  MaxCacheText = 2
  Scenarios <- AllScenarios
INVARIANT SupersededByNewer
INVARIANT HistoryIsCurrent
INVARIANT RecentsAreCurrent
PROPERTY ReadsAreAnswered
CHECK_DEADLOCK FALSE
