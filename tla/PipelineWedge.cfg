\* The queue is full, nobody signals and nobody elaborates, although packets
\* keep arriving.
CONSTANTS
  SIZE_QUEUE = 3
  SEM_VALUE_MAX = 4
  NR_ENGINES = 2
  d1 = d1
  d2 = d2
  NoData = NoData
  Packets <- MCFewPackets

SPECIFICATION BusySpec

PROPERTY BlocksOnlyUntilMessages
