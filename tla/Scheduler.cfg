\* What holds whatever is scheduled, and whenever, intervals of 0 included.
CONSTANTS
  Tasks = {t1, t2}
  NoTask = NoTask
  Intervals = {0, 1, 2}
  MaxTime = 3
  Times <- MCTimes

SPECIFICATION FairSpec

INVARIANTS
  TypeOK
  NeverPutOff
  QueueInOrder

PROPERTIES
  NoSignalMissed
  ImplementsPeriodicTasks
  DueIsServed
  RoundEnds
