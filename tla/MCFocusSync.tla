----------------------------- MODULE MCFocusSync -----------------------------
(* Instances of FocusSync for TLC.                                          *)
EXTENDS FocusSync, TLC

CONSTANTS d1, d2, mark, mark2, note

OneDevice == {d1}
TwoDevices == {d1, d2}
OneGroup == <<{mark}>>
TwoGroups == <<{mark}, {mark2}>>
TwoMarks == <<{mark, mark2}>>
NoNotes == {}
OneNote == {note}
\* The devices are interchangeable.
DeviceSymmetry == Permutations(TwoDevices)

=============================================================================
