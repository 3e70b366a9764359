CONSTANTS
  d1 = d1
  d2 = d2
  Dev <- MCDev
  Message <- AllOperations
  Setting <- FaultlessSettings
  Factory <- MCFactory
  Faulty = FALSE
SPECIFICATION FairSpec
INVARIANTS NothingVanishes
PROPERTIES Delivered SessionsEnd
