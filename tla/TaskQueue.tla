----------------------------- MODULE TaskQueue -----------------------------
(***************************************************************************)
(* What the queue of the scheduler is: a sequence of tasks, the one that   *)
(* is due first at the head, tasks that are due together in the order in   *)
(* which they came.  Times are numbers; SchedulerQueue is the doubly       *)
(* linked list of timespecs that implements it, and Scheduler the thread   *)
(* that runs it.                                                           *)
(***************************************************************************)
EXTENDS Integers, SequencesExt

CONSTANTS Tasks,       \* what the application may have scheduled
          Intervals,   \* the intervals it may ask for
          Times        \* the readings of the clock

ASSUME TimeAssumption == Intervals \subseteq Nat /\ Times \subseteq Nat

VARIABLES queue,       \* the scheduled tasks
          next_time,   \* when a task is to run next
          interval     \* how often to re-schedule it

taskVars == <<queue, next_time, interval>>

Scheduled == ToSet(queue)

TaskTypeOK ==
  /\ queue \in Seq(Tasks)
  /\ next_time \in [Tasks -> Nat]
  /\ interval \in [Tasks -> Nat]

TaskInit ==
  /\ queue = << >>
  /\ next_time = [t \in Tasks |-> 0]
  /\ interval = [t \in Tasks |-> 0]

\* How many tasks at the front of q are due no later than the given time.
DueBy(q, at, time) ==
  Cardinality({i \in DOMAIN q : \A j \in 1 .. i : at[q[j]] <= time})

\* A task goes behind those that are due no later than itself.
Inserted(q, at, task) == InsertAt(q, DueBy(q, at, at[task]) + 1, task)

Removed(q, task) == RemoveAt(q, CHOOSE i \in DOMAIN q : q[i] = task)

\* A rescheduling that increments a copy of the time unless runs were missed.
Rescheduled_Copy(time, ival, now) ==
  IF now >= time + ival THEN now + ival ELSE time

\* A rescheduling that takes the time that is left for the time itself.
Rescheduled_Relative(time, ival, now) == time + ival - now

\* A rescheduling that adds the interval once more when runs were missed.
Rescheduled_Twice(time, ival, now) ==
  IF now >= time + ival THEN now + ival + ival ELSE time + ival

\* A task that ran is due again an interval later.  When that has passed too,
\* the runs in between are skipped and the interval starts now.
Rescheduled(time, ival, now) ==
  IF now >= time + ival THEN now + ival ELSE time + ival

Schedule(task, ival, now) ==
  /\ task \notin Scheduled
  /\ next_time' = [next_time EXCEPT ![task] = now + ival]
  /\ interval' = [interval EXCEPT ![task] = ival]
  /\ queue' = Inserted(queue, next_time', task)

Unschedule(task) ==
  /\ task \in Scheduled
  /\ queue' = Removed(queue, task)
  /\ UNCHANGED <<next_time, interval>>

\* A test that holds only after the time has passed.
IsDue_Strict(now) == queue # << >> /\ now > next_time[Head(queue)]

\* The head of the queue is due: it is rescheduled before it runs.
IsDue(now) == queue # << >> /\ now >= next_time[Head(queue)]

\* A rescheduling that leaves the task at the head of the queue.
RescheduleFirst_InPlace(now) ==
  /\ IsDue(now)
  /\ next_time' = [next_time EXCEPT ![Head(queue)] =
                     Rescheduled(@, interval[Head(queue)], now)]
  /\ UNCHANGED <<queue, interval>>

\* A task that is not put back in the queue before it runs.
RescheduleFirst_Later(now) ==
  /\ IsDue(now)
  /\ next_time' = [next_time EXCEPT ![Head(queue)] =
                     Rescheduled(@, interval[Head(queue)], now)]
  /\ queue' = Tail(queue)
  /\ UNCHANGED interval

RescheduleFirst(now) ==
  /\ IsDue(now)
  /\ next_time' = [next_time EXCEPT ![Head(queue)] =
                     Rescheduled(@, interval[Head(queue)], now)]
  /\ queue' = Inserted(Tail(queue), next_time', Head(queue))
  /\ UNCHANGED interval

TaskNext ==
  \/ \E task \in Tasks, ival \in Intervals, now \in Times : Schedule(task, ival, now)
  \/ \E task \in Tasks : Unschedule(task)
  \/ \E now \in Times : RescheduleFirst(now)

TaskSpec == TaskInit /\ [][TaskNext]_taskVars

\* The queue is in order of time, and no task is in it twice.
InOrder ==
  \A i, j \in DOMAIN queue :
    i < j => next_time[queue[i]] <= next_time[queue[j]] /\ queue[i] # queue[j]

=============================================================================
