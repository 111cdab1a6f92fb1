SPECIFICATION FairSpec
CONSTANTS
  o = o  u = u  w = w  o1 = o1  o2 = o2  u1 = u1  u2 = u2  w1 = w1
  User = {o, u, w}
  Owner = o
  Device = {o1, o2, u1, u2, w1}
  Of <- MCOf
  Loads <- MCLoads
INVARIANTS KeysRight NoGap
PROPERTIES OutsidersShut RoomArrives
CHECK_DEADLOCK FALSE
