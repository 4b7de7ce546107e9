SPECIFICATION ConnectedSpec
CONSTANTS
  run = run
  question = question
  t1 = t1
  t2 = t2
  Keys = {run}
  Script <- TwoParts
  Tabs = {t1}
  Forces = {FALSE}
  BatchSize = 1
  MaxFaults = 1
  MaxTemporary = 1
  MaxRefusals = 0
  MaxGhosts = 1
  MaxSignOuts = 1
  Jobs = {"j1", "j2"}
  MaxOutages = 1
  MaxCalls = 2
  MaxProbes = 2
INVARIANTS TypeOK NoLostWork AppliedAtMostOnce
PROPERTIES ImplementsOutbox WorkIsSettled ReconnectsInTheEnd
