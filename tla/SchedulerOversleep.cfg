\* The thread may sleep past the next task, until the time of another.
CONSTANTS
  Tasks = {t1, t2}
  NoTask = NoTask
  Intervals = {1, 2}
  MaxTime = 3
  Times <- MCTimes

SPECIFICATION Spec

INVARIANT SleepNeverPastDeadline
