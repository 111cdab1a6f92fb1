SPECIFICATION FairSpec
CONSTANTS
  Edit = {a}
  Outside = {x}
  Sealing = {a}
  Faults = {"write", "start", "remove"}
  MaxBatch = 1
  MostJournal = 1
  MostStates = 3
  MaxRev = 2
  MaxCrashes = 1
PROPERTY SavesComplete
