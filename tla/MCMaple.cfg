\* Two pairs; an earlier program may have used the first tile, or all.  A
\* program stops when there are too few queues.
CONSTANTS
  NumPairs = 2
  MaxTiles = 4
  Slots = 2
  Threads <- MCThreads
  DirtySets <- MCDirtySets
  Scripts <- MCScripts
SPECIFICATION Spec
INVARIANTS MapleTypeOK OwnValuesInOrder PartnersOnly AnswerIsTrue NoWildAddress
PROPERTIES Served
CHECK_DEADLOCK FALSE
