SPECIFICATION Spec
CONSTANTS
  Edit = {a, b}
  Outside = {x}
  Sealing = {b}
  Faults = {"write", "format"}
  MaxBatch = 2
  MostJournal = 9
  MostStates = 3
  MaxRev = 4
  MaxCrashes = 1
INVARIANTS TypeOK SafeBeforeHeard RestartBuildsSame FileTrue
PROPERTY LateWriteMerges
