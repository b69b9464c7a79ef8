---------------------------- MODULE MCScheduler ----------------------------
(***************************************************************************)
(* Small instances of Scheduler: MaxTime bounds the clock.                 *)
(***************************************************************************)
EXTENDS Scheduler

CONSTANT MaxTime

MCTimes == 0 .. MaxTime

=============================================================================
