\* Every order of creating, growing, filling, resetting and deleting.
SPECIFICATION FrameSpec
CONSTANTS
  Block <- Heap
  Capacity = {0, 1, 2, 3}
  MayFail = {"support", "signal"}
INVARIANTS
  HeapOwned
PROPERTIES
  ContractKept
CHECK_DEADLOCK FALSE
