\* One pair, one region, every kernel of three instructions.
CONSTANTS
  NumPairs = 1
  MaxQueues = 4
  Threads = {0, 1}
  Qids = {0, 1, 2, 3}
  Values <- MCValues
  None = None
  Capacity = 1
  Kernels <- LongKernels
  DataSize <- MCDataSize
  Regions = 1
SPECIFICATION KernelSpec
INVARIANTS KernelTypeOK LabelsMeet SameMemory
