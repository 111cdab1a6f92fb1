SPECIFICATION FairSpec
CONSTANTS
  View = {v1, r1}
  Remote = {r1}
  Size = {s1, s2}
  ReportRoom = 2
  MaxTurn = 2
INVARIANTS TypeOK OwnerHasItsSize FocusReleased
PROPERTY GoneViewsLoseAll
