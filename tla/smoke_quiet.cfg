\* One camera of one frame, messages that arrive at once: the comment on the end of the drain loop.
SPECIFICATION Spec
CONSTANTS
  N = 1
  Webcams = {}
  DriverStamps = {0}
  Want = 1
  SndHwm = 1
  RcvHwm = 1
  Prompt = TRUE
  Watchdog = FALSE
  SpawnMayFail = FALSE
  Interrupts = FALSE
  Foreign <- MCForeign
  MaxForeign = 0
  MaxSeq = 2
INVARIANT
  NothingStillArriving
