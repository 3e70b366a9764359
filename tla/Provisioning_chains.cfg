CONSTANTS
  Inform <- MCInform
  Device <- MCDevice
  Address <- MCAddress
  Arrivals <- AnyArrivals
  MaxBreaks = 1
SPECIFICATION Spec
CHECK_DEADLOCK FALSE
INVARIANTS TypeOK OwnQueues NoLoop AloneItPublishesWhatItAnnounced ReachesItsQueue
PROPERTIES Recovers Provisioned
