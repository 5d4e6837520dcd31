\* Four frames and a clock that may jump past several deadlines.
SPECIFICATION MockSpec
CONSTANTS
  Configs <- MCConfigs
  Capacities = {2, 6}
  Word = 8
  MaxNow = 10
  MaxShots = 4
INVARIANTS
  StampsAscend
  NoBacklog
  NeverAhead
  BandAccepted
PROPERTIES
  MockKeepsContract
CHECK_DEADLOCK FALSE
