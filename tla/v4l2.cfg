\* Up to three buffers, four frames, a frame of three entries for six cells.
SPECIFICATION V4l2Spec
CONSTANTS
  Granted = {0, 1, 2, 3}
  Width = 2
  Height = 3
  GridRows = 2
  GridCols = 3
  Threshold = 4
  Precision = 3
  Capacity = 3
  Images <- MCImages
  Stamps = {0, 1}
  MaxFrames = 4
INVARIANTS
  V4l2TypeOK
  NothingLeft
  PoolConserved
  FramesAreImages
  GapsAreSkips
PROPERTIES
  WebcamKeepsContract
CHECK_DEADLOCK FALSE
