\* Two pairs and the eight queues they need; one value, one slot per queue.
CONSTANTS
  NumPairs = 2
  MaxQueues = 8
  Threads = {0, 1, 2, 3}
  Qids = {0, 1, 2, 3, 4, 5, 6, 7}
  Values = {v}
  None = None
  Capacity = 1
SPECIFICATION RuntimeSpec
INVARIANTS RuntimeTypeOK OpensAtOnce PairsTalk NoEndLeaks
CONSTRAINT FewAtOnce
CHECK_DEADLOCK FALSE
