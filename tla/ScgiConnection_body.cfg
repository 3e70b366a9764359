CONSTANTS
  Conn = {c1}
  Request <- AllRequests
  Message <- MCMessage
  Factory <- MCFactory
  HeadLen = 2
  MaxBody = 3
  ReadMax = 3
  Space <- MCSpace
SPECIFICATION Spec
INVARIANT BodyIsContiguous
CHECK_DEADLOCK FALSE
