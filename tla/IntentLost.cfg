SPECIFICATION IntentSpec
CONSTANTS
  FlushTabs = {"reader", "other"}
  MaxEdits = 2
  MaxPushFailures = 0
  MaxVisits = 2
CHECK_DEADLOCK FALSE
INVARIANT IntentIsDurable
