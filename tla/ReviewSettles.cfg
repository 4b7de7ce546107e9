SPECIFICATION PaymentsSpec
CONSTANTS
  MaxPayments = 3
  TrialEnd = 2
  MonthLength = 2
  GraceLength = 1
  RenewalWindow = 1
  TermEnd = 4
  Gap = 2
  PayWindow = 1
  MaxDay = 5
  MaxDecisions = 1
  AdminDays = {3, 5}
  Policies = {TRUE}
CHECK_DEADLOCK FALSE
INVARIANT ReviewSettles
