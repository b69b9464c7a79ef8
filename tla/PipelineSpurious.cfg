\* A spurious wakeup on a queue that was full hands out a NULL node.
CONSTANTS
  SIZE_QUEUE = 3
  SEM_VALUE_MAX = 4
  NR_ENGINES = 2
  d1 = d1
  d2 = d2
  NoData = NoData
  Packets <- MCFewPackets

SPECIFICATION PosixSpec

INVARIANT NodeNeverNull
