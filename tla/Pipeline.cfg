\* The pipeline when the condition variable returns for signals only.
CONSTANTS
  SIZE_QUEUE = 4
  SEM_VALUE_MAX = 5
  NR_ENGINES = 2
  d1 = d1
  d2 = d2
  NoData = NoData
  Packets <- MCPackets

SPECIFICATION FairSpec

INVARIANTS
  TypeOK
  NodeNeverNull
  NoSlotRace
  SemCoversQueue
  WokenFindsNode

PROPERTIES
  BacklogNeverShrinks
  ImplementsStore
  WakeupIsServed
