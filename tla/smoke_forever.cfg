\* Cameras that run until stopped: by SIGINT, by the watchdog or by a thread
\* that could not be created; another program sends one message.
SPECIFICATION FairSpec
CONSTANTS
  N = 2
  Webcams = {2}
  DriverStamps = {0}
  Want = 0
  SndHwm = 1
  RcvHwm = 1
  Prompt = FALSE
  Watchdog = TRUE
  SpawnMayFail = TRUE
  Interrupts = TRUE
  Foreign <- MCForeign
  MaxForeign = 1
  MaxSeq = 1
INVARIANTS
  NoUseAfterRelease
  SpawnFailureFails
  OneMoreReceive
PROPERTIES
  StopEndsRun
  DeadlineEndsRun
