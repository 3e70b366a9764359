CONSTANTS
  Conn = {c1, c2}
  Request <- FewRequests
  Message <- MCMessage
  Factory <- MCFactory
  HeadLen = 2
  MaxBody = 3
  ReadMax = 3
  Space <- MCSpace
SPECIFICATION FairSpec
PROPERTIES Answered Reclaimed
CHECK_DEADLOCK FALSE
