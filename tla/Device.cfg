SPECIFICATION DeviceSpec
CONSTANTS
  FlushTabs = {"reader", "other"}
  MaxEdits = 2
  MaxPushFailures = 1
  MaxVisits = 2
  DownloadTabs = {"t1", "t2"}
  PdfVersions = 2
  StudyVersions = 1
  MaxLogins = 1
  MaxRemovals = 1
  MaxCloses = 1
  MaxDenials = 1
  Accounts = {"ann", "ben"}
  PushTabs = {"page", "other"}
  Dispatchers = {"d1", "d2"}
  MaxTries = 2
  MaxSessions = 2
  MaxBindings = 2
  MaxEndpoints = 2
  MaxNotices = 1
  MaxEnables = 1
  MaxFaults = 1
CHECK_DEADLOCK FALSE
INVARIANTS ForgottenIsHeld DownloadedIsWhole SignedOutIsEmpty
INVARIANTS NoticeIsForItsReader StaysOff SheetInStep
PROPERTIES DenialHolds AcceptedIsFinal
