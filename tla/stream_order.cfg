SPECIFICATION Spec
CONSTANTS
  View = {v1}
  Refreshing = {}
  Size = {s1, s2}
  DataCapacity = 2
  ControlCapacity = 2
  MaxPendingResizes = 2
  MaxSubscribers = 1
  MaxOutput = 4
SYMMETRY StreamSymmetry
INVARIANTS TypeOK Faithful Settled
PROPERTIES OvertakenStops ClosedShowsAll
