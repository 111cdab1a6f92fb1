SPECIFICATION FairSpec
CONSTANTS
  ana = ana
  ben = ben
  NoClient = NoClient
  File = File
  Clients = {ana, ben}
  Budgets <- MCBudgets
  MaxPipes = 5
INVARIANT EditsKept
PROPERTIES OneOrder AllArrives
CHECK_DEADLOCK FALSE
