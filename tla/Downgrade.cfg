SPECIFICATION MCSpec
CONSTANTS
  s1 = s1
  s2 = s2
  k1 = k1
  k2 = k2
  p1 = p1
  p2 = p2
  NoPath = NoPath
  Slots <- TwoSlots
  Keys <- TwoKeys
  Paths <- TwoPaths
  Triggers <- Both
  DefaultsOnly = {FALSE, TRUE}
  Cases <- Passing
  Week = 2
  MaxTime = 2
  MaxArms = 2
  MaxQuota = 2
  MaxChanges = 1
  MaxFetches = 3
  MaxFailures = 1
  MaxCrashes = 2
INVARIANT TypeOK
PROPERTY FiresOnlyOnReset
PROPERTY SentOnce
PROPERTY DeadlineIsMet
