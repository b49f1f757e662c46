SPECIFICATION FairSpec
CONSTANTS
  Workers = {w1, w2}
  Hb = Hb
  Main = Main
  IdSpan = 4
  MaxReqs = 4
  SrvLimit = 1
CHECK_DEADLOCK FALSE
INVARIANTS AnswersItsRequest PendingExact HandlesAccounted
PROPERTY CallsReturn
