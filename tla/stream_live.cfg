SPECIFICATION FairSpec
CONSTANTS
  View = {v1}
  Refreshing = {v1}
  Size = {s1}
  DataCapacity = 1
  ControlCapacity = 1
  MaxPendingResizes = 1
  MaxSubscribers = 1
  MaxOutput = 2
PROPERTIES OutputReachesViews EveryViewEnds RefreshResolves
