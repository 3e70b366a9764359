CONSTANTS
  Inform <- MCInform
  Device <- MCDevice
  Address <- MCAddress
  Arrivals <- AnnouncedArrivals
  MaxBreaks = 0
SPECIFICATION Spec
CHECK_DEADLOCK FALSE
INVARIANTS PublishesWhatItAnnounced
