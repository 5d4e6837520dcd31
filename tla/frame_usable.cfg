\* A growth that fails half-way, and the promise of frame.h.
SPECIFICATION FrameSpec
CONSTANTS
  Block <- Heap
  Capacity = {0, 1, 2, 3}
  MayFail = {"support", "signal"}
INVARIANT
  FrameLeftUsable
CHECK_DEADLOCK FALSE
