\* The same files, and what ini.h says of the lines before the first header.
SPECIFICATION Spec
CONSTANTS
  Files <- MCFiles
  MaxCameras = 2
  MaxSections = 4
  MaxKeys = 5
  TooLong = {"long"}
  Word = 32768
  Long = 1073741824
  CamNames = {"cam.a", "cam.b", "cam.c"}
  Second = 1000
INVARIANT
  PreambleIgnored
