SPECIFICATION FairSpec
CONSTANTS
  ana = ana
  ben = ben
  type1 = type1
  type2 = type2
  text1 = text1
  tell1 = tell1
  tell2 = tell2
  ask1 = ask1
  focus1 = focus1
  blur1 = blur1
  focus2 = focus2
  join2 = join2
  leave1 = leave1
  NoView = NoView
  Views = {ana, ben}
  Requests = {type1, type2, text1, tell1, tell2, ask1, focus1, blur1, focus2, join2, leave1}
  Kind <- MCKind
  From <- MCFrom
  Capacity = 2
  MaxActors = 2
  MaxConns = 3
  Loads <- MCLoads
INVARIANT RequestsSafe
PROPERTIES StaysUnsent LinkReturns AllAnswered
CHECK_DEADLOCK FALSE
