---------------------------- MODULE PeriodicTasks ----------------------------
(***************************************************************************)
(* What the scheduler promises whoever schedules tasks: it runs scheduled  *)
(* tasks, one at a time, and a task that is taken off the schedule is not  *)
(* begun any more.  One that was begun before may still be on its way:     *)
(* nothing waits for it.  Time is left out, any scheduled task may be due. *)
(***************************************************************************)
CONSTANTS Tasks,
          NoTask

VARIABLES scheduled,   \* the tasks on the schedule
          running      \* the task being run, or NoTask

periodicVars == <<scheduled, running>>

PeriodicInit == scheduled = {} /\ running = NoTask

AddTask(task) ==
  /\ task \in Tasks \ scheduled
  /\ scheduled' = scheduled \cup {task}
  /\ UNCHANGED running

RemoveTask(task) ==
  /\ task \in scheduled
  /\ scheduled' = scheduled \ {task}
  /\ UNCHANGED running

BeginTask(task) ==
  /\ running = NoTask
  /\ task \in scheduled
  /\ running' = task
  /\ UNCHANGED scheduled

EndTask ==
  /\ running # NoTask
  /\ running' = NoTask
  /\ UNCHANGED scheduled

PeriodicNext ==
  \/ EndTask
  \/ \E task \in Tasks : AddTask(task) \/ RemoveTask(task) \/ BeginTask(task)

PeriodicSpec == PeriodicInit /\ [][PeriodicNext]_periodicVars

=============================================================================
