CONSTANTS
  Conn = {c1, c2}
  Request <- AllRequests
  Message <- MCMessage
  Factory <- MCFactory
  HeadLen = 2
  MaxBody = 3
  ReadMax = 3
  Space <- MCSpace
SPECIFICATION Spec
INVARIANTS TypeOK AnswersOnce FinishedMeansAnswered HeadersAtHand
PROPERTIES AnswersWholeRequest ReleasedForAReason
CHECK_DEADLOCK FALSE
