CONSTANTS
  Request <- MCRequest
  Url <- MCUrl
  Relayed <- MCRelayed
  Ttl = 5
  MaxBreaks = 1
SPECIFICATION Spec
CHECK_DEADLOCK FALSE
INVARIANTS TypeOK NoStorm
PROPERTIES Quiesces RetriedInFull
