SPECIFICATION CasesSpec
CONSTANTS
  run = run
  question = question
  t1 = t1
  t2 = t2
  Keys = {run}
  Script <- AbandonedRun
  Tabs = {t1, t2}
  Forces = {TRUE, FALSE}
  BatchSize = 2
  MaxFaults = 1
  MaxTemporary = 0
  MaxRefusals = 1
  MaxGhosts = 1
  MaxSignOuts = 0
SYMMETRY TabSymmetry
INVARIANTS TwoTabsLoseNothing LaterWorkHeldBack ServerIsAsTheDevice OnlyRulesFailWork
INVARIANTS OnlyOwnersRecord LeaseLeavesWithOwner
