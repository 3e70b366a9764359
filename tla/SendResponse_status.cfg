CONSTANTS
  Factory <- MCFactory
  Request <- MCRequest
  Content <- MCContent
  Body <- MCBody
  MaxFrame = 2
  MaxQueue = 0
SPECIFICATION ResponseSpec
INVARIANTS StatusIsTheDevices
