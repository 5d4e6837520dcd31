\* Three cameras for two slots, every order of well-formed, wide and malformed
\* messages, and growth of the decode frame that may fail.
SPECIFICATION SinkSpec
CONSTANTS
  CameraId = {0, 1, 2}
  MaxCameras = 2
  DefaultSites = 0
  DefaultPeriod = 0
  TolPercent = 0
  DefaultCapacity = 1
  ReserveFailures = {"unchanged", "dangling"}
  SpecTables <- MCTables
  ExpectAnytime = FALSE
  Arrivals <- MCArrivals
  MaxReceived = 4
INVARIANTS
  SinkTypeOK
  VerdictMatchesStreams
  LossIsExact
  JitterIsExact
  WidthRefusedOnlyWithoutMemory
  TableTracksStreams
  CountersTellTruth
  PassIsSound
  CountsAddUp
PROPERTIES
  FrameFits
CHECK_DEADLOCK FALSE
