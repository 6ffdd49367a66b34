\* Two threads on two queues: a second dec_fifo_init finds the first queue in use.
CONSTANTS
  Threads = {0, 1}
  NumQueues = 2
  VirtualSize = 3
  Values = {a, b}
  Junk = Junk
  MaxSent = 2
SYMMETRY Symmetry
SPECIFICATION Spec
INVARIANTS DeliveredInOrder
CHECK_DEADLOCK FALSE
