SPECIFICATION Spec
CONSTANTS
  d1 = d1
  d2 = d2
  mark = mark
  mark2 = mark2
  note = note
  Devices <- OneDevice
  Notes <- OneNote
  Groups <- OneGroup
  LastGroup = 1
  MaxEdits = 2
  MaxFaults = 0
  MaxVisits = 1
  MaxLoads = 1
CHECK_DEADLOCK FALSE
PROPERTY OnlyErasedIsErased
