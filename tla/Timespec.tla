------------------------------ MODULE Timespec ------------------------------
(***************************************************************************)
(* The arithmetic on struct timespec of src/scheduler.c: seconds and       *)
(* nanoseconds, compared and added without ever leaving that form.  The    *)
(* two factors of 1000 and 1000000 are constants, so that small ones show  *)
(* every carry.                                                            *)
(***************************************************************************)
EXTENDS Integers

CONSTANTS MS_PER_SEC,   \* milliseconds in a second
          NS_PER_MS     \* nanoseconds in a millisecond

ASSUME UnitAssumption == MS_PER_SEC \in Nat \ {0} /\ NS_PER_MS \in Nat \ {0}

NS_PER_SEC == MS_PER_SEC * NS_PER_MS

\* Normalised: less than a second of nanoseconds.
timespec_t == [tv_sec : Nat, tv_nsec : 0 .. NS_PER_SEC - 1]

\* A comparison that looks at the nanoseconds whatever the seconds say.
tm_ge_Loose(a, b) == a.tv_sec > b.tv_sec \/ a.tv_nsec >= b.tv_nsec

\* a is greater than or equal to b.
tm_ge(a, b) ==
  \/ a.tv_sec > b.tv_sec
  \/ a.tv_sec = b.tv_sec /\ a.tv_nsec >= b.tv_nsec

\* An addition that does not normalise.
tm_incr_Raw(v, i) ==
  [tv_sec |-> v.tv_sec + i.tv_sec, tv_nsec |-> v.tv_nsec + i.tv_nsec]

\* v incremented with i.
tm_incr(v, i) ==
  LET nsecs == v.tv_nsec + i.tv_nsec
  IN [tv_sec  |-> v.tv_sec + i.tv_sec + nsecs \div NS_PER_SEC,
      tv_nsec |-> nsecs % NS_PER_SEC]

\* schedule(): an interval that the application gave in milliseconds.
FromMs(ms) == [tv_sec  |-> ms \div MS_PER_SEC,
               tv_nsec |-> (ms % MS_PER_SEC) * NS_PER_MS]

-----------------------------------------------------------------------------
\* What a timespec stands for, in nanoseconds.
Value(t) == t.tv_sec * NS_PER_SEC + t.tv_nsec

=============================================================================
