SPECIFICATION MCSpec
CONSTANTS
  Slots = {1, 2}
  Accounts = {1, 2}
  NoCred = NoCred
  NoUsage = NoUsage
  MaxGrants = 3
  MaxVer = 2
  MaxOps = 2
  MaxEdits = 2
  MaxFailures = 1
  MaxCrashes = 1
INVARIANT SavedAccountsUsable
INVARIANT UsageIsOwn
INVARIANT ResetEditKept
PROPERTY SlotsKeepTheirAccounts
PROPERTY FailedSwitchKeepsLive
CHECK_DEADLOCK FALSE
