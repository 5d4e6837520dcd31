\* A camera off its cadence, and the verdict.
SPECIFICATION SinkSpec
CONSTANTS
  CameraId = {0, 1, 2}
  MaxCameras = 2
  DefaultSites = 0
  DefaultPeriod = 0
  TolPercent = 25
  DefaultCapacity = 1
  ReserveFailures = {}
  SpecTables <- MCTables
  ExpectAnytime = FALSE
  Arrivals <- MCArrivals
  MaxReceived = 4
INVARIANT
  CadenceFails
CHECK_DEADLOCK FALSE
