SPECIFICATION Spec
CONSTANTS
  d1 = d1
  d2 = d2
  mark = mark
  mark2 = mark2
  note = note
  Devices <- TwoDevices
  Notes <- NoNotes
  Groups <- TwoGroups
  LastGroup = 2
  MaxEdits = 2
  MaxFaults = 0
  MaxVisits = 2
  MaxLoads = 1
CHECK_DEADLOCK FALSE
SYMMETRY DeviceSymmetry
INVARIANT Agreement
