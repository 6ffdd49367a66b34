\* Barriers and atomics, three threads.
CONSTANTS
  t1 = t1
  t2 = t2
  t3 = t3
  one = one
  two = two
  Threads <- MCThreads
  Ids <- MCIds
  Width = 2
  SyncPrograms <- MCSyncPrograms
SPECIFICATION Spec
INVARIANTS SyncTypeOK NobodyEarly Linearizable
PROPERTIES ImplementsRendezvous RegionEnds
