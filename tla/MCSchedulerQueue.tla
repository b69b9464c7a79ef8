-------------------------- MODULE MCSchedulerQueue --------------------------
(***************************************************************************)
(* A small instance of SchedulerQueue: two milliseconds of two nanoseconds *)
(* make a second.  The clock is read in the middle of a millisecond, at    *)
(* the start of a second and at its end, so that additions carry, times    *)
(* meet and runs are missed.                                               *)
(***************************************************************************)
EXTENDS SchedulerQueue

At(sec, nsec) == [tv_sec |-> sec, tv_nsec |-> nsec]

MCClock == {At(0, 1), At(1, 0), At(1, 3)}

=============================================================================
