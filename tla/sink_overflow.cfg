\* One camera more than slots, all slots taken by configured cameras.
SPECIFICATION SinkSpec
CONSTANTS
  CameraId = {0, 1, 2}
  MaxCameras = 2
  DefaultSites = 0
  DefaultPeriod = 0
  TolPercent = 0
  DefaultCapacity = 1
  ReserveFailures = {}
  SpecTables <- OverflowTables
  ExpectAnytime = FALSE
  Arrivals <- MCArrivals
  MaxReceived = 3
INVARIANT
  UnconfiguredCounted
CHECK_DEADLOCK FALSE
