SPECIFICATION MCSpec
CONSTANTS
  s1 = s1
  s2 = s2
  k1 = k1
  k2 = k2
  p1 = p1
  p2 = p2
  NoPath = NoPath
  Slots <- OneSlot
  Keys <- OneKey
  Paths <- OnePath
  Triggers <- ResetOnly
  DefaultsOnly = {FALSE}
  Cases <- Claiming
  Week = 2
  MaxTime = 3
  MaxArms = 2
  MaxQuota = 2
  MaxChanges = 0
  MaxFetches = 3
  MaxFailures = 1
  MaxCrashes = 0
PROPERTY ClaimSavedFirst
