SPECIFICATION Spec
CONSTANTS
  Views = {"v", "r"}
  Budget = 3
  Mailbox = 1
  Loads <- MCLoads
INVARIANTS InputWhole AnswersTrue
PROPERTY InputProgress
CHECK_DEADLOCK FALSE
