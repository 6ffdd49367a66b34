\* One producer that calls dec_load32_async, one consumer.
CONSTANTS
  Threads = {0, 1}
  NumQueues = 1
  VirtualSize = 2
  Values = {a}
  Junk = Junk
  MaxSent = 2
SPECIFICATION FairSpec
PROPERTIES LoadAsyncReturns
CHECK_DEADLOCK FALSE
