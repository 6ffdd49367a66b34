CONSTANTS
  Threads = {0, 1, 2}
  NumQueues = 1
  VirtualSize = 3
  Values = {a, b}
  Junk = Junk
  MaxSent = 4
SPECIFICATION FairSpec
INVARIANTS TypeOK AssertionsHold OneThreadPerEnd NoSlotRace DeliveredInOrder
PROPERTIES UnreadSlotKept ImplementsChannels HolderIsServed
CHECK_DEADLOCK FALSE
