SPECIFICATION FairSpec
CONSTANTS
  d1 = d1
  d2 = d2
  mark = mark
  mark2 = mark2
  note = note
  Devices <- TwoDevices
  Notes <- NoNotes
  Groups <- OneGroup
  LastGroup = 1
  MaxEdits = 1
  MaxFaults = 1
  MaxVisits = 2
  MaxLoads = 5
CHECK_DEADLOCK FALSE
INVARIANTS TypeOK SyncedHolds Agreement
PROPERTY EventuallyAgree
