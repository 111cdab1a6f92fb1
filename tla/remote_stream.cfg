SPECIFICATION Spec
CONSTANTS
  Sizes = {1, 2}
  Buffered = 2
  Window = 2
  Parts = 2
  Updates = 1
  Loads <- MCLoads
INVARIANTS ViewFaithful ViewSettled
PROPERTY ViewCatchesUp
CHECK_DEADLOCK FALSE
