SPECIFICATION Spec
CONSTANTS
  Lower <- MCLower
  LastDigits <- MCLastDigits
  Executable <- MCExecutable
  Sessions <- MCSessions
  Names <- MCNames
  Colors <- MCColors
  Scenarios <- MCScenarios
INVARIANT GroupsAreFlat
INVARIANT FileLoadsAsSaved
PROPERTY DragsKeepMembers
CHECK_DEADLOCK FALSE
