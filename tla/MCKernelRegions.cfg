\* One pair, two regions, every kernel of two instructions.
CONSTANTS
  NumPairs = 1
  MaxQueues = 4
  Threads = {0, 1}
  Qids = {0, 1, 2, 3}
  Values <- MCValues
  None = None
  Capacity = 1
  Kernels <- ShortKernels
  DataSize <- MCDataSize
  Regions = 2
SPECIFICATION FairKernelSpec
INVARIANTS Drained
PROPERTIES EveryRegionEnds
