\* The linked list of timespecs against the ordered sequence of tasks.
CONSTANTS
  MS_PER_SEC = 2
  NS_PER_MS = 2
  Handles = {h1, h2, h3}
  Intervals = {1, 3}
  NULL = NULL
  Clock <- MCClock

SPECIFICATION Spec

INVARIANTS
  TypeOK
  ListWellFormed

PROPERTY ImplementsTaskQueue
