SPECIFICATION StudentSpec
CONSTANTS
  Parts = 2
  MaxAttempts = 2
  MaxRuns = 2
  MaxOffline = 1
  MaxLate = 1
  MaxElsewhere = 1
  Pages = {"p1", "p2"}
  Life = 1
  Tolerance = 1
  FloorStep = 0
  Delay = 1
  Start = 2
  Walls = {0}
  MaxTime = 4
  MaxSets = 1
  MaxLeases = 2
  MaxWall = 2
  Jobs = {"j1", "j2"}
  MaxOutages = 1
  MaxCalls = 3
  MaxProbes = 1
  Windows = {"w1", "w2"}
  MaxBuilds = 2
  MaxFailures = 1
  MaxOpens = 2
  MaxChecks = 1
  MaxDrops = 1
  MaxPayments = 3
  TrialEnd = 2
  MonthLength = 2
  GraceLength = 1
  RenewalWindow = 2
  TermEnd = 5
  Gap = 2
  PayWindow = 1
  MaxDay = 6
  MaxDecisions = 1
  AdminDays = {3, 5}
  Policies = {TRUE}
CHECK_DEADLOCK FALSE
INVARIANTS GradedOnce ResultsReachServer NothingAheadOfServer
INVARIANTS ProbeIsComing TokenIsCurrent OldWindowIsTold UpdateIsOffered
PROPERTIES SlowClockGainsNothing SlowClockStillWorks PageCannotRewind ReloadBringsNewBuild RefusalRestores
INVARIANTS NoUnpaidAccess PaidMeansAccess PeriodsFollow HoldHasReason
