\* Two cameras of three ticks each, one of them a webcam whose stamps stand still;
\* queues of one message, so that a drop may be followed by another frame.
SPECIFICATION FairSpec
CONSTANTS
  N = 2
  Webcams = {2}
  DriverStamps = {1}
  Want = 3
  SndHwm = 1
  RcvHwm = 1
  Prompt = FALSE
  Watchdog = FALSE
  SpawnMayFail = FALSE
  Interrupts = FALSE
  Foreign <- MCForeign
  MaxForeign = 0
  MaxSeq = 0
INVARIANTS
  TypeOK
  FramesConserved
  LossesAreReal
  TotalMeansEveryFrame
  QuietMeansNobodySends
PROPERTIES
  Termination
