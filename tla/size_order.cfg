SPECIFICATION Spec
CONSTANTS
  View = {v1, v2, v3}
  Remote = {}
  Size = {s1}
  ReportRoom = 1
  MaxTurn = 3
SYMMETRY ViewSymmetry
INVARIANT FocusSetsSize
PROPERTY GivesBackInOrder
