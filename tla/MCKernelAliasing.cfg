\* A load of what the kernel has just stored.
CONSTANTS
  NumPairs = 1
  MaxQueues = 4
  Threads = {0, 1}
  Qids = {0, 1, 2, 3}
  Values <- MCValues
  None = None
  Capacity = 1
  Kernels <- Aliasing
  DataSize <- MCDataSize
  Regions = 1
SPECIFICATION FairKernelSpec
INVARIANTS AlwaysSameMemory
CHECK_DEADLOCK FALSE
