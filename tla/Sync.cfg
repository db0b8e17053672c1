SPECIFICATION FairSpec
CONSTANTS
  p1 = p1
  p2 = p2
  Paths <- TwoPaths
  FirstPath = p1
  Limits <- Scenarios
  LoadsFail = TRUE
  SavesFail = TRUE
INVARIANT EditsAreKept
INVARIANT FilesKeepTheirLists
INVARIANT QuietMeansSaved
PROPERTY EditsAreSaved
CHECK_DEADLOCK FALSE
