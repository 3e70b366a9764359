CONSTANTS
  d1 = d1
  d2 = d2
  Dev <- MCDev
  Message <- EveryMessage
  Setting <- FaultySettings
  Factory <- MCFactory
  Faulty = TRUE
SPECIFICATION Spec
INVARIANTS TypeOK OnePlace RightDevice UnprovisionedFirst
PROPERTIES KeepsPromise
