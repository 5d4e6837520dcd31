\* Every file of MCStartup, the reading cut off anywhere, and every call that
\* may fail, failing or not.
SPECIFICATION FairSpec
CONSTANTS
  Files <- MCFiles
  MaxCameras = 2
  MaxSections = 4
  MaxKeys = 5
  TooLong = {"long"}
  Word = 32768
  Long = 1073741824
  CamNames = {"cam.a", "cam.b", "cam.c"}
  Second = 1000
INVARIANTS
  TypeOK
  ReaderIsExact
  NothingLeaks
  UsersGoFirst
  ReadyToRun
PROPERTIES
  AlwaysReturns
