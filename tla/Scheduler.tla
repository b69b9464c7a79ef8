----------------------------- MODULE Scheduler -----------------------------
(***************************************************************************)
(* The scheduler thread of src/scheduler.c and the thread that schedules   *)
(* and unschedules tasks, the application manager.  The clock ticks        *)
(* between any two steps.  The mutex is held from the moment the scheduler *)
(* thread looks at the clock until it runs a task or goes to sleep; the    *)
(* caller's critical sections are single steps.                            *)
(*                                                                         *)
(* schedule_ts() reads the clock before it takes the mutex, the task runs  *)
(* after the mutex is released, and the time to sleep until is a pointer   *)
(* into the first task, which is followed after the mutex is released: all *)
(* three work on what they knew before.                                    *)
(***************************************************************************)
EXTENDS TaskQueue

CONSTANT NoTask

ASSUME NoTaskAssumption == NoTask \notin Tasks
ASSUME ClockAssumption == 0 \in Times

VARIABLES clock,           \* CLOCK_REALTIME
          sched_pc,        \* where the scheduler thread is
          now,             \* its reading of the clock
          did_something,   \* whether it ran a task since that reading
          node,            \* the task it runs, or falls asleep for
          deadline,        \* when it wakes up by itself
          request          \* the task schedule_ts() is about to insert

threadVars == <<sched_pc, now, did_something, node, deadline>>
vars       == <<taskVars, clock, threadVars, request>>

Forever == -1
Nothing == [task |-> NoTask, ival |-> 0, stime |-> 0]

SchedPc == {"woken", "clock", "test", "unlocked", "running", "dangling",
            "falling", "sleep"}

TypeOK ==
  /\ TaskTypeOK
  /\ clock \in Times
  /\ sched_pc \in SchedPc
  /\ now \in Times
  /\ did_something \in BOOLEAN
  /\ node \in Tasks \cup {NoTask}
  /\ deadline \in Nat \cup {Forever}
  /\ request \in [task : Tasks, ival : Intervals, stime : Times] \cup {Nothing}

Init ==
  /\ TaskInit
  /\ clock = 0
  /\ sched_pc = "woken"
  /\ now = 0
  /\ did_something = FALSE
  /\ node = NoTask
  /\ deadline = Forever
  /\ request = Nothing

\* The scheduler thread holds scheduler_mutex.
Locked == sched_pc \in {"clock", "test"}

-----------------------------------------------------------------------------
(* Scheduling and unscheduling *)

\* schedule_ts() up to the mutex.
schedule_ts(task, ival) ==
  /\ request = Nothing
  /\ task \notin Scheduled
  /\ request' = [task |-> task, ival |-> ival, stime |-> clock]
  /\ UNCHANGED <<taskVars, clock, threadVars>>

\* A signal for the first task in an empty queue only.
SignalIfNewFirst_Empty ==
  sched_pc' = IF queue = << >> /\ sched_pc \in {"falling", "sleep"}
              THEN "woken" ELSE sched_pc

\* The sleeping thread has to know of a task that is due before the one it
\* sleeps for.
SignalIfNewFirst ==
  sched_pc' = IF queue # << >> /\ Head(queue') = Head(queue) THEN sched_pc
              ELSE IF sched_pc \in {"falling", "sleep"} THEN "woken" ELSE sched_pc

\* schedule_ts() under the mutex.
schedule_ts_insert ==
  /\ request # Nothing /\ ~Locked
  /\ Schedule(request.task, request.ival, request.stime)
  /\ SignalIfNewFirst
  /\ request' = Nothing
  /\ UNCHANGED <<clock, now, did_something, node, deadline>>

\* The handle is freed; nobody is told, not even a thread that runs the task.
unschedule(task) ==
  /\ request = Nothing /\ ~Locked
  /\ Unschedule(task)
  /\ UNCHANGED <<clock, threadVars, request>>

Caller ==
  \/ \E task \in Tasks, ival \in Intervals : schedule_ts(task, ival)
  \/ schedule_ts_insert
  \/ \E task \in Tasks : unschedule(task)

-----------------------------------------------------------------------------
(* scheduler_run() *)

\* The mutex is free: the caller's critical sections are single steps.
Lock ==
  /\ sched_pc = "woken"
  /\ sched_pc' = "clock"
  /\ UNCHANGED <<taskVars, clock, now, did_something, node, deadline, request>>

ReadClock ==
  /\ sched_pc = "clock"
  /\ now' = clock
  /\ did_something' = FALSE
  /\ sched_pc' = "test"
  /\ UNCHANGED <<taskVars, clock, node, deadline, request>>

\* The first task is due: reschedule it, release the mutex.
RunFirst ==
  /\ sched_pc = "test"
  /\ RescheduleFirst(now)
  /\ node' = Head(queue)
  /\ did_something' = TRUE
  /\ sched_pc' = "unlocked"
  /\ UNCHANGED <<clock, now, deadline, request>>

\* The action is read from the task, which may have been freed by now.
RunAction ==
  /\ sched_pc = "unlocked"
  /\ sched_pc' = IF node \in Scheduled THEN "running" ELSE "dangling"
  /\ UNCHANGED <<taskVars, clock, now, did_something, node, deadline, request>>

\* Back from the action, the loop goes on with the old reading of the clock.
Relock ==
  /\ sched_pc \in {"running", "dangling"}
  /\ sched_pc' = "test"
  /\ UNCHANGED <<taskVars, clock, now, did_something, node, deadline, request>>

\* Something ran: the clock is read again before the thread goes to sleep.
GoAround ==
  /\ sched_pc = "test"
  /\ ~IsDue(now) /\ did_something
  /\ sched_pc' = "clock"
  /\ UNCHANGED <<taskVars, clock, now, did_something, node, deadline, request>>

\* pthread_cond_wait(): there is nothing to wait for but a signal.
GoToSleep ==
  /\ sched_pc = "test"
  /\ queue = << >> /\ ~did_something
  /\ deadline' = Forever
  /\ sched_pc' = "sleep"
  /\ UNCHANGED <<taskVars, clock, now, did_something, node, request>>

\* pthread_cond_timedwait() is given a pointer into the first task: it releases
\* the mutex, from where on a signal is not missed, and follows the pointer then.
FallAsleep ==
  /\ sched_pc = "test"
  /\ queue # << >> /\ ~IsDue(now) /\ ~did_something
  /\ node' = Head(queue)
  /\ sched_pc' = "falling"
  /\ UNCHANGED <<taskVars, clock, now, did_something, deadline, request>>

\* The task may have been freed by now.  Its time is still there, or, when
\* malloc() has given the memory to the next task, the time of this one, be it
\* inserted or not.
ReadDeadline ==
  /\ sched_pc = "falling"
  /\ \/ deadline' = next_time[node]
     \/ request.task = node /\ deadline' = request.stime + request.ival
  /\ sched_pc' = "sleep"
  /\ UNCHANGED <<taskVars, clock, now, did_something, node, request>>

TimeOut ==
  /\ sched_pc = "sleep"
  /\ deadline # Forever /\ clock >= deadline
  /\ sched_pc' = "woken"
  /\ UNCHANGED <<taskVars, clock, now, did_something, node, deadline, request>>

\* POSIX allows a return without a reason, and the loop is made for it.
SpuriousWakeup ==
  /\ sched_pc = "sleep"
  /\ sched_pc' = "woken"
  /\ UNCHANGED <<taskVars, clock, now, did_something, node, deadline, request>>

-----------------------------------------------------------------------------
Tick ==
  /\ clock + 1 \in Times
  /\ clock' = clock + 1
  /\ UNCHANGED <<taskVars, threadVars, request>>

SchedulerThread ==
  \/ Lock \/ ReadClock \/ RunFirst \/ RunAction \/ Relock \/ GoAround
  \/ GoToSleep \/ FallAsleep \/ ReadDeadline \/ TimeOut

Next == Caller \/ SchedulerThread \/ SpuriousWakeup \/ Tick

Spec == Init /\ [][Next]_vars

\* The scheduler thread gets its turn; the caller owes nothing.
FairSpec == Spec /\ WF_vars(SchedulerThread)

-----------------------------------------------------------------------------
\* "Wait for the next task to run": a sleeping thread that no signal is on its
\* way to wakes up no later than any task is due.
SleepNeverPastDeadline ==
  sched_pc = "sleep" =>
    \A task \in Scheduled : deadline # Forever /\ deadline <= next_time[task]

\* The thread sleeps, or falls asleep, until a time that suits every task.
SleepsForFirst ==
  /\ SleepNeverPastDeadline
  /\ sched_pc = "falling" =>
       \A task \in Scheduled : node \in Scheduled /\ next_time[node] <= next_time[task]

\* No signal is missed: from the moment the thread decides to sleep, whatever
\* the caller schedules and unschedules, the thread comes to sleep past a task
\* only if the task that it falls asleep for is unscheduled meanwhile.
NoSignalMissed ==
  [][SleepsForFirst =>
       \/ SleepsForFirst'
       \/ sched_pc = "falling" /\ node \in Scheduled /\ node \notin Scheduled']_vars

\* However late the thread runs and however much it has to skip, no task is
\* put off by more than its own interval.
NeverPutOff == \A task \in Scheduled : next_time[task] <= clock + interval[task]

\* The queue is in order whatever is scheduled with an old reading of the clock.
QueueInOrder == InOrder

\* A task that can be run again and again without the clock moving.
AlwaysDue == \E task \in Scheduled : interval[task] = 0

\* A task that is due is run, or unscheduled, unless the thread sleeps past it
\* (see NoSignalMissed), or a task of interval 0 keeps it busy.
DueIsServed ==
  \A task \in Tasks :
    (task \in Scheduled /\ next_time[task] <= clock)
      ~> \/ task \notin Scheduled \/ next_time[task] > clock
         \/ ~SleepNeverPastDeadline \/ AlwaysDue

\* The thread comes back to look at the clock, or to sleep until it has to,
\* unless a task of interval 0 keeps it busy.
RoundEnds == sched_pc = "test" ~> sched_pc \in {"clock", "falling", "sleep"} \/ AlwaysDue

\* The thread and its caller together are the scheduler that the registration
\* of queries relies on.
Service == INSTANCE PeriodicTasks
  WITH scheduled <- Scheduled,
       running   <- IF sched_pc \in {"unlocked", "running", "dangling"}
                    THEN node ELSE NoTask

ImplementsPeriodicTasks == Service!PeriodicSpec

=============================================================================
