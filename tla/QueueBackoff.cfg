SPECIFICATION Spec
CONSTANTS
  run = run
  question = question
  t1 = t1
  t2 = t2
  Keys = {run}
  Script <- TwoParts
  Tabs = {t1}
  Forces = {TRUE, FALSE}
  BatchSize = 2
  MaxFaults = 1
  MaxTemporary = 0
  MaxRefusals = 0
  MaxGhosts = 0
  MaxSignOuts = 0
INVARIANTS FailedOnlyForBusinessRule
