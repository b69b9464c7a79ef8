-------------------------- MODULE SchedulerProofs --------------------------
(***************************************************************************)
(* Machine-checked proofs about the scheduler, for every set of tasks, all *)
(* intervals and every clock: the queue stays in order, no task is put off *)
(* by more than its interval, the thread misses no signal when it sleeps,  *)
(* and what the scheduler does to tasks is what PeriodicTasks promises.    *)
(***************************************************************************)
EXTENDS Scheduler, SequenceLemmas

-----------------------------------------------------------------------------
(* Queues in order *)

\* InOrder, of any queue and times.
Ordered(q, at) ==
  \A i, j \in DOMAIN q : i < j => at[q[i]] <= at[q[j]] /\ q[i] # q[j]

\* Where a task is inserted: behind everything that is due no later, and before
\* the first one that is due later.
LEMMA DueBySplits ==
  ASSUME NEW q \in Seq(Tasks), NEW at \in [Tasks -> Nat], NEW time \in Nat
  PROVE  /\ DueBy(q, at, time) \in 0 .. Len(q)
         /\ \A j \in 1 .. Len(q) : j <= DueBy(q, at, time) => at[q[j]] <= time
         /\ DueBy(q, at, time) < Len(q) => at[q[DueBy(q, at, time) + 1]] > time
<1> DEFINE D == {i \in DOMAIN q : \A j \in 1 .. i : at[q[j]] <= time}
           G == {j \in 1 .. Len(q) : at[q[j]] <= time}
           n == Cardinality(D)
<1>1. Len(q) \in Nat /\ DOMAIN q = 1 .. Len(q)
      /\ \A i \in 1 .. Len(q) : q[i] \in Tasks /\ at[q[i]] \in Nat
  BY LenProperties, ElementOfSeq
<1>2. /\ D \subseteq 1 .. 1 + Len(q) - 1
      /\ \A i \in 1 .. 1 + Len(q) - 1 : i \in D <=> \A j \in 1 .. i : j \in G
  BY <1>1
<1>3. DueBy(q, at, time) = n
  BY DEF DueBy
<1> HIDE DEF D, G
<1>4. /\ n \in 0 .. Len(q)
      /\ \A j \in 1 .. 1 + Len(q) - 1 : j < 1 + n => j \in G
      /\ n < Len(q) => 1 + n \notin G
  <2>1. 1 \in Int /\ Len(q) \in Nat
    BY <1>1
  <2>2. QED
    BY <1>2, <2>1, PrefixCounted
<1> HIDE DEF n
<1>5. ASSUME NEW j \in 1 .. Len(q), j <= n PROVE at[q[j]] <= time
  <2>1. j \in G
    BY <1>1, <1>4, <1>5
  <2>2. QED
    BY <2>1 DEF G
<1>6. ASSUME n < Len(q) PROVE at[q[n + 1]] > time
  <2>1. n + 1 \in 1 .. Len(q) /\ n + 1 \notin G
    BY <1>1, <1>4, <1>6
  <2>2. QED
    BY <1>1, <2>1 DEF G
<1> QED
  BY <1>3, <1>4, <1>5, <1>6

\* A task that is inserted keeps a queue in order, if it was not in it.
LEMMA InsertedInOrder ==
  ASSUME NEW q \in Seq(Tasks), NEW at \in [Tasks -> Nat], NEW task \in Tasks,
         Ordered(q, at), task \notin ToSet(q)
  PROVE  /\ Inserted(q, at, task) \in Seq(Tasks)
         /\ Inserted(q, at, task) # << >>
         /\ Ordered(Inserted(q, at, task), at)
         /\ ToSet(Inserted(q, at, task)) = ToSet(q) \cup {task}
<1> DEFINE d == DueBy(q, at, at[task])
           p == d + 1
           r == InsertAt(q, p, task)
<1>1. Len(q) \in Nat /\ DOMAIN q = 1 .. Len(q) /\ at[task] \in Nat
      /\ \A i \in 1 .. Len(q) : q[i] \in Tasks /\ at[q[i]] \in Nat /\ q[i] # task
  BY LenProperties, ElementOfSeq DEF ToSet
<1>2. /\ p \in 1 .. Len(q) + 1
      /\ \A j \in 1 .. Len(q) : j < p => at[q[j]] <= at[task]
      /\ p <= Len(q) => at[q[p]] > at[task]
  <2>1. /\ d \in 0 .. Len(q)
        /\ \A j \in 1 .. Len(q) : j <= d => at[q[j]] <= at[task]
        /\ d < Len(q) => at[q[d + 1]] > at[task]
    BY <1>1, DueBySplits
  <2> HIDE DEF d
  <2>2. QED
    BY <1>1, <2>1
<1>3. /\ r \in Seq(Tasks) /\ Len(r) = Len(q) + 1
      /\ \A i \in 1 .. Len(q) + 1 :
           r[i] = IF i < p THEN q[i] ELSE IF i = p THEN task ELSE q[i - 1]
  <2>1. p \in 1 .. Len(q) + 1
    BY <1>2
  <2> HIDE DEF p
  <2>2. q \in Seq(Tasks) /\ task \in Tasks
    OBVIOUS
  <2>3. QED
    BY <2>1, <2>2, InsertedElements, SMT
<1>4. Inserted(q, at, task) = r
  BY DEF Inserted
<1> HIDE DEF d, p, r
<1>5. DOMAIN r = 1 .. Len(q) + 1 /\ r # << >>
  BY <1>1, <1>3, LenProperties, EmptySeq
<1>6. /\ p \in Nat /\ p >= 1 /\ p <= Len(q) + 1 /\ r[p] = task
      /\ \A k \in 1 .. Len(q) : k < p => k \in 1 .. Len(q) + 1 /\ r[k] = q[k]
      /\ \A k \in 1 .. Len(q) : k >= p => k + 1 \in 1 .. Len(q) + 1 /\ r[k + 1] = q[k]
  <2>1. p \in Nat /\ p >= 1 /\ p <= Len(q) + 1 /\ p \in 1 .. Len(q) + 1
    BY <1>1, <1>2
  <2>2. r[p] = task
    BY <1>3, <2>1
  <2>3. ASSUME NEW k \in 1 .. Len(q), k < p
        PROVE  k \in 1 .. Len(q) + 1 /\ r[k] = q[k]
    <3>1. k \in 1 .. Len(q) + 1
      BY <1>1
    <3>2. QED
      BY <1>3, <2>3, <3>1
  <2>4. ASSUME NEW k \in 1 .. Len(q), k >= p
        PROVE  k + 1 \in 1 .. Len(q) + 1 /\ r[k + 1] = q[k]
    <3>1. k + 1 \in 1 .. Len(q) + 1 /\ ~(k + 1 < p) /\ k + 1 # p /\ k + 1 - 1 = k
      BY <1>1, <2>1, <2>4
    <3>2. r[k + 1] = q[k + 1 - 1]
      BY <1>3, <3>1
    <3>3. QED
      BY <3>1, <3>2
  <2>5. QED
    BY <2>1, <2>2, <2>3, <2>4
<1>7. ASSUME NEW i \in 1 .. Len(q) + 1, i # p
      PROVE  \E k \in 1 .. Len(q) : r[i] = q[k] /\ k = (IF i < p THEN i ELSE i - 1)
  <2>1. CASE i < p
    BY <1>1, <1>6, <2>1
  <2>2. CASE i > p
    <3>1. i - 1 \in 1 .. Len(q) /\ i - 1 >= p /\ i - 1 + 1 = i /\ ~(i < p)
      BY <1>1, <1>6, <2>2
    <3>2. r[i - 1 + 1] = q[i - 1]
      BY <1>6, <3>1
    <3>3. QED
      BY <3>1, <3>2
  <2>3. QED
    BY <1>6, <1>7, <2>1, <2>2
<1>8. /\ \A k \in 1 .. Len(q) : k < p => at[q[k]] <= at[task]
      /\ \A k \in 1 .. Len(q) : k >= p => at[q[k]] > at[task]
  <2>1. ASSUME NEW k \in 1 .. Len(q), k >= p PROVE at[q[k]] > at[task]
    <3>1. p \in 1 .. Len(q) /\ at[q[p]] > at[task]
      BY <1>1, <1>2, <1>6, <2>1
    <3>2. at[q[p]] <= at[q[k]]
      <4>1. CASE k = p
        BY <1>1, <4>1
      <4>2. CASE k > p
        BY <1>1, <3>1, <4>2 DEF Ordered
      <4>3. QED
        BY <1>6, <2>1, <4>1, <4>2
    <3>3. QED
      BY <1>1, <3>1, <3>2
  <2>2. QED
    BY <1>2, <2>1
<1>9. ASSUME NEW i \in 1 .. Len(q) + 1, NEW j \in 1 .. Len(q) + 1, i < j
      PROVE  at[r[i]] <= at[r[j]] /\ r[i] # r[j]
  <2>1. CASE i = p
    <3>1. PICK k \in 1 .. Len(q) : r[j] = q[k] /\ k = (IF j < p THEN j ELSE j - 1)
      BY <1>6, <1>7, <1>9, <2>1
    <3>2. k >= p
      BY <1>6, <1>9, <2>1, <3>1
    <3>3. QED
      BY <1>1, <1>6, <1>8, <2>1, <3>1, <3>2
  <2>2. CASE j = p
    <3>1. PICK k \in 1 .. Len(q) : r[i] = q[k] /\ k = (IF i < p THEN i ELSE i - 1)
      BY <1>6, <1>7, <1>9, <2>2
    <3>2. k < p
      BY <1>6, <1>9, <2>2, <3>1
    <3>3. QED
      BY <1>1, <1>6, <1>8, <2>2, <3>1, <3>2
  <2>3. CASE i # p /\ j # p
    <3>1. PICK k \in 1 .. Len(q) : r[i] = q[k] /\ k = (IF i < p THEN i ELSE i - 1)
      BY <1>7, <2>3
    <3>2. PICK l \in 1 .. Len(q) : r[j] = q[l] /\ l = (IF j < p THEN j ELSE j - 1)
      BY <1>7, <2>3
    <3>3. k < l
      BY <1>6, <1>9, <2>3, <3>1, <3>2
    <3>4. QED
      BY <1>1, <3>1, <3>2, <3>3 DEF Ordered
  <2>4. QED
    BY <2>1, <2>2, <2>3
<1>10. ToSet(r) = ToSet(q) \cup {task}
  <2>1. ASSUME NEW i \in 1 .. Len(q) + 1 PROVE r[i] \in ToSet(q) \cup {task}
    <3>1. CASE i = p
      BY <1>6, <3>1
    <3>2. CASE i # p
      <4>1. PICK k \in 1 .. Len(q) : r[i] = q[k]
        BY <1>7, <3>2
      <4>2. QED
        BY <1>1, <4>1 DEF ToSet
    <3>3. QED
      BY <3>1, <3>2
  <2>2. p \in 1 .. Len(q) + 1 /\ r[p] = task
    BY <1>1, <1>6
  <2>3. ASSUME NEW k \in 1 .. Len(q) PROVE \E j \in 1 .. Len(q) + 1 : r[j] = q[k]
    <3>1. k < p \/ k >= p
      BY <1>6
    <3>2. QED
      BY <1>6, <3>1
  <2>4. ToSet(r) \subseteq ToSet(q) \cup {task}
    BY <1>5, <2>1 DEF ToSet
  <2>5. ToSet(q) \subseteq ToSet(r)
    BY <1>1, <1>5, <2>3 DEF ToSet
  <2>6. task \in ToSet(r)
    BY <1>5, <2>2 DEF ToSet
  <2>7. QED
    BY <2>4, <2>5, <2>6
<1> QED
  BY <1>3, <1>4, <1>5, <1>9, <1>10 DEF Ordered

\* A queue in order stays so without one of its tasks, and the task is gone.
LEMMA RemovedInOrder ==
  ASSUME NEW q \in Seq(Tasks), NEW at \in [Tasks -> Nat], NEW p \in 1 .. Len(q),
         Ordered(q, at)
  PROVE  /\ RemoveAt(q, p) \in Seq(Tasks)
         /\ Ordered(RemoveAt(q, p), at)
         /\ ToSet(RemoveAt(q, p)) = ToSet(q) \ {q[p]}
<1> DEFINE r == RemoveAt(q, p)
<1>1. /\ Len(q) \in Nat /\ p \in Nat /\ 1 <= p /\ p <= Len(q)
      /\ DOMAIN q = 1 .. Len(q)
  BY LenProperties
<1>2. IsInjective(q)
  <2>1. ASSUME NEW k \in 1 .. Len(q), NEW l \in 1 .. Len(q), k # l PROVE q[k] # q[l]
    BY <1>1, <2>1 DEF Ordered
  <2>2. QED
    BY <1>1, <2>1 DEF IsInjective
<1>3. r \in Seq(Tasks) /\ IsInjective(r) /\ ToSet(r) = ToSet(q) \ {q[p]}
  BY <1>2, RemovedIsGone
<1>4. /\ Len(r) = Len(q) - 1
      /\ \A i \in 1 .. Len(q) - 1 : r[i] = IF i < p THEN q[i] ELSE q[i + 1]
  BY RemovedElements
<1> HIDE DEF r
<1>5. DOMAIN r = 1 .. Len(q) - 1
  BY <1>3, <1>4, LenProperties
<1>6. ASSUME NEW i \in 1 .. Len(q) - 1
      PROVE  \E k \in 1 .. Len(q) : r[i] = q[k] /\ k = (IF i < p THEN i ELSE i + 1)
  BY <1>1, <1>4
<1>7. ASSUME NEW i \in 1 .. Len(q) - 1, NEW j \in 1 .. Len(q) - 1, i < j
      PROVE  at[r[i]] <= at[r[j]] /\ r[i] # r[j]
  <2>1. PICK k \in 1 .. Len(q) : r[i] = q[k] /\ k = (IF i < p THEN i ELSE i + 1)
    BY <1>6
  <2>2. PICK l \in 1 .. Len(q) : r[j] = q[l] /\ l = (IF j < p THEN j ELSE j + 1)
    BY <1>6
  <2>3. k < l
    BY <1>1, <1>7, <2>1, <2>2
  <2>4. QED
    BY <1>1, <2>1, <2>2, <2>3 DEF Ordered
<1> QED
  BY <1>3, <1>5, <1>7 DEF Ordered, r

-----------------------------------------------------------------------------
(* What the operations of the queue do to it *)

\* In a queue in order no task is due before the first one.
LEMMA HeadIsFirst ==
  ASSUME NEW q \in Seq(Tasks), NEW at \in [Tasks -> Nat], Ordered(q, at), q # << >>
  PROVE  /\ Head(q) \in Tasks /\ Head(q) \in ToSet(q) /\ Head(q) = q[1]
         /\ \A t \in ToSet(q) : t \in Tasks /\ at[Head(q)] <= at[t]
<1>1. Len(q) \in Nat \ {0} /\ DOMAIN q = 1 .. Len(q) /\ Head(q) = q[1]
      /\ \A i \in 1 .. Len(q) : q[i] \in Tasks /\ at[q[i]] \in Nat
  BY LenProperties, EmptySeq, ElementOfSeq
<1>2. ASSUME NEW i \in 1 .. Len(q) PROVE at[q[1]] <= at[q[i]]
  <2>1. CASE i = 1
    BY <1>1, <2>1
  <2>2. CASE i > 1
    BY <1>1, <2>2 DEF Ordered
  <2>3. QED
    BY <1>1, <2>1, <2>2
<1>3. 1 \in 1 .. Len(q)
  BY <1>1
<1> QED
  BY <1>1, <1>2, <1>3 DEF ToSet

\* A queue in order does not mind the times of the tasks that are not in it.
LEMMA OthersMayChange ==
  ASSUME NEW q \in Seq(Tasks), NEW at \in [Tasks -> Nat], Ordered(q, at),
         NEW task, task \notin ToSet(q), NEW time \in Nat
  PROVE  Ordered(q, [at EXCEPT ![task] = time])
<1>1. DOMAIN q = 1 .. Len(q) /\ \A i \in DOMAIN q : q[i] \in Tasks /\ q[i] # task
  BY LenProperties, ElementOfSeq DEF ToSet
<1> QED
  BY <1>1 DEF Ordered

\* The first task is taken out by Tail.
LEMMA TailInOrder ==
  ASSUME NEW q \in Seq(Tasks), NEW at \in [Tasks -> Nat], Ordered(q, at), q # << >>
  PROVE  /\ Tail(q) \in Seq(Tasks)
         /\ Ordered(Tail(q), at)
         /\ ToSet(Tail(q)) = ToSet(q) \ {Head(q)}
  BY TailRemoves, RemovedInOrder

\* QueueInOrder is Ordered of the queue.
LEMMA InOrderIsOrdered == QueueInOrder <=> Ordered(queue, next_time)
  BY DEF QueueInOrder, InOrder, Ordered

LEMMA InOrderIsOrderedNext == QueueInOrder' <=> Ordered(queue', next_time')
  BY DEF QueueInOrder, InOrder, Ordered

\* Scheduling adds the task, in order.
LEMMA ScheduleAdds ==
  ASSUME TaskTypeOK, QueueInOrder, NEW task \in Tasks, NEW ival \in Nat, NEW time \in Nat,
         Schedule(task, ival, time)
  PROVE  /\ TaskTypeOK' /\ QueueInOrder'
         /\ Scheduled' = Scheduled \cup {task} /\ queue' # << >>
         /\ next_time' = [next_time EXCEPT ![task] = time + ival]
         /\ interval' = [interval EXCEPT ![task] = ival]
<1> DEFINE at == [next_time EXCEPT ![task] = time + ival]
<1>1. /\ queue \in Seq(Tasks) /\ at \in [Tasks -> Nat] /\ time + ival \in Nat
      /\ next_time' = at /\ task \notin ToSet(queue)
      /\ queue' = Inserted(queue, at, task)
  BY DEF TaskTypeOK, Schedule, Scheduled
<1>2. Ordered(queue, at)
  BY <1>1, OthersMayChange, InOrderIsOrdered DEF TaskTypeOK
<1> HIDE DEF at
<1>3. /\ queue' \in Seq(Tasks) /\ queue' # << >>
      /\ Ordered(queue', next_time')
      /\ ToSet(queue') = ToSet(queue) \cup {task}
  BY <1>1, <1>2, InsertedInOrder
<1>4. interval' = [interval EXCEPT ![task] = ival] /\ interval' \in [Tasks -> Nat]
  BY DEF TaskTypeOK, Schedule
<1> QED
  BY <1>1, <1>3, <1>4, InOrderIsOrderedNext DEF TaskTypeOK, Scheduled, at

\* Unscheduling takes the task out, and leaves the order.
LEMMA UnscheduleRemoves ==
  ASSUME TaskTypeOK, QueueInOrder, NEW task \in Tasks, Unschedule(task)
  PROVE  /\ TaskTypeOK' /\ QueueInOrder'
         /\ task \in Scheduled /\ Scheduled' = Scheduled \ {task}
         /\ UNCHANGED <<next_time, interval>>
<1> DEFINE p == CHOOSE i \in DOMAIN queue : queue[i] = task
<1>1. /\ queue \in Seq(Tasks) /\ next_time \in [Tasks -> Nat]
      /\ DOMAIN queue = 1 .. Len(queue) /\ Ordered(queue, next_time)
  BY LenProperties, InOrderIsOrdered DEF TaskTypeOK
<1>2. /\ task \in ToSet(queue) /\ queue' = RemoveAt(queue, p)
      /\ UNCHANGED <<next_time, interval>>
  BY DEF Unschedule, Scheduled, Removed
<1>3. p \in DOMAIN queue /\ queue[p] = task
  BY <1>2 DEF ToSet
<1> HIDE DEF p
<1>4. p \in 1 .. Len(queue)
  BY <1>1, <1>3
<1>5. /\ queue' \in Seq(Tasks) /\ Ordered(queue', next_time)
      /\ ToSet(queue') = ToSet(queue) \ {task}
  BY <1>1, <1>2, <1>3, <1>4, RemovedInOrder
<1> QED
  BY <1>2, <1>5, InOrderIsOrderedNext DEF TaskTypeOK, Scheduled

\* Rescheduling moves the first task behind those that are due before it is
\* again, which is no more than its interval from the given time.
LEMMA RescheduleMoves ==
  ASSUME TaskTypeOK, QueueInOrder, NEW time \in Nat, RescheduleFirst(time)
  PROVE  /\ TaskTypeOK' /\ QueueInOrder'
         /\ Head(queue) \in Tasks /\ Head(queue) \in Scheduled
         /\ Scheduled' = Scheduled /\ UNCHANGED interval
         /\ \A t \in Tasks : t # Head(queue) => next_time'[t] = next_time[t]
         /\ next_time'[Head(queue)] <= time + interval[Head(queue)]
<1> DEFINE h == Head(queue)
           new == Rescheduled(next_time[h], interval[h], time)
           at == [next_time EXCEPT ![h] = new]
<1>1. /\ queue \in Seq(Tasks) /\ next_time \in [Tasks -> Nat] /\ interval \in [Tasks -> Nat]
      /\ Ordered(queue, next_time)
      /\ queue # << >> /\ time >= next_time[h] /\ UNCHANGED interval
      /\ next_time' = at /\ queue' = Inserted(Tail(queue), at, h)
  BY InOrderIsOrdered DEF TaskTypeOK, RescheduleFirst, IsDue
<1>2. h \in Tasks /\ h \in ToSet(queue)
  BY <1>1, HeadIsFirst
<1>3. new \in Nat /\ new <= time + interval[h]
  BY <1>1, <1>2 DEF Rescheduled
<1>4. /\ Tail(queue) \in Seq(Tasks) /\ Ordered(Tail(queue), next_time)
      /\ ToSet(Tail(queue)) = ToSet(queue) \ {h}
  BY <1>1, TailInOrder
<1> HIDE DEF new
<1>5. at \in [Tasks -> Nat] /\ at[h] = new /\ \A t \in Tasks : t # h => at[t] = next_time[t]
  BY <1>1, <1>2, <1>3
<1>6. Ordered(Tail(queue), at)
  <2>1. h \notin ToSet(Tail(queue))
    BY <1>4
  <2> HIDE DEF h
  <2>2. QED
    BY <1>1, <1>3, <1>4, <2>1, OthersMayChange
<1> HIDE DEF h, at
<1>7. /\ queue' \in Seq(Tasks) /\ Ordered(queue', next_time')
      /\ ToSet(queue') = ToSet(Tail(queue)) \cup {h}
  BY <1>1, <1>2, <1>4, <1>5, <1>6, InsertedInOrder
<1> QED
  BY <1>1, <1>2, <1>3, <1>4, <1>5, <1>7, InOrderIsOrderedNext DEF TaskTypeOK, Scheduled, h

-----------------------------------------------------------------------------
(* The invariant of the scheduler *)

\* The readings of the clock are old ones, what is about to be scheduled is not
\* scheduled yet, and the thread has a task in hand where it works through one.
SchedInv ==
  /\ TypeOK
  /\ QueueInOrder
  /\ NeverPutOff
  /\ now <= clock
  /\ request # Nothing => request.stime <= clock /\ request.task \notin Scheduled
  /\ sched_pc \in {"unlocked", "running", "dangling", "falling"} => node \in Tasks

LEMMA SchedInit == Init => SchedInv
<1> SUFFICES ASSUME Init PROVE SchedInv
  OBVIOUS
<1>1. TypeOK
  <2>1. TaskTypeOK
    <3>1. queue = << >> /\ << >> \in Seq(Tasks)
      BY EmptySeq DEF Init, TaskInit
    <3>2. QED
      BY <3>1 DEF Init, TaskInit, TaskTypeOK
  <2>2. QED
    BY <2>1, ClockAssumption DEF Init, TypeOK, SchedPc
<1>2. QueueInOrder /\ Scheduled = {}
  <2>1. queue = << >>
    BY DEF Init, TaskInit
  <2>2. DOMAIN queue = {}
    BY <2>1
  <2>3. QED
    BY <2>2 DEF QueueInOrder, InOrder, Scheduled, ToSet
<1>3. now <= clock /\ request = Nothing /\ sched_pc = "woken"
  BY DEF Init
<1> QED
  BY <1>1, <1>2, <1>3 DEF SchedInv, NeverPutOff

\* What TypeOK says of the request that is under way.
LEMMA RequestType ==
  ASSUME TypeOK, request # Nothing
  PROVE  /\ request.task \in Tasks /\ request.ival \in Intervals
         /\ request.ival \in Nat /\ request.stime \in Nat
  BY TimeAssumption DEF TypeOK

\* The application manager reads the clock, inserts and removes.
LEMMA CallerKeeps == SchedInv /\ Caller => SchedInv'
<1> SUFFICES ASSUME SchedInv, Caller PROVE SchedInv'
  OBVIOUS
<1>1. TypeOK /\ TaskTypeOK /\ clock \in Nat
  BY TimeAssumption DEF SchedInv, TypeOK
<1>2. ASSUME NEW task \in Tasks, NEW ival \in Intervals, schedule_ts(task, ival)
      PROVE  SchedInv'
  <2>1. /\ request' = [task |-> task, ival |-> ival, stime |-> clock]
        /\ UNCHANGED <<queue, next_time, interval, clock, threadVars>>
    BY <1>2 DEF schedule_ts, taskVars
  <2>2. request' \in [task : Tasks, ival : Intervals, stime : Times]
    BY <2>1 DEF SchedInv, TypeOK
  <2>3. request'.stime <= clock' /\ request'.task \notin Scheduled'
    BY <1>1, <1>2, <2>1 DEF schedule_ts, Scheduled
  <2>4. QED
    BY <2>1, <2>2, <2>3
       DEF SchedInv, TypeOK, TaskTypeOK, QueueInOrder, InOrder, NeverPutOff, Scheduled, threadVars
<1>3. ASSUME schedule_ts_insert PROVE SchedInv'
  <2>1. /\ request.task \in Tasks /\ request.ival \in Nat /\ request.stime \in Nat
        /\ request.stime <= clock
    BY <1>1, <1>3, RequestType DEF schedule_ts_insert, SchedInv
  <2>2. /\ Schedule(request.task, request.ival, request.stime)
        /\ request' = Nothing /\ UNCHANGED <<clock, now, did_something, node, deadline>>
        /\ sched_pc' \in {sched_pc, "woken"}
    BY <1>3 DEF schedule_ts_insert, SignalIfNewFirst
  <2>3. /\ TaskTypeOK' /\ QueueInOrder'
        /\ Scheduled' = Scheduled \cup {request.task}
        /\ next_time' = [next_time EXCEPT ![request.task] = request.stime + request.ival]
        /\ interval' = [interval EXCEPT ![request.task] = request.ival]
    BY <1>1, <2>1, <2>2, ScheduleAdds DEF SchedInv
  <2>4. NeverPutOff'
    <3> SUFFICES ASSUME NEW t \in Scheduled'
                 PROVE  next_time'[t] <= clock + interval'[t]
      BY <2>2 DEF NeverPutOff
    <3>1. CASE t = request.task
      BY <1>1, <2>1, <2>3, <3>1 DEF TaskTypeOK
    <3>2. CASE t # request.task
      <4>1. t \in Scheduled /\ next_time'[t] = next_time[t] /\ interval'[t] = interval[t]
        BY <2>3, <3>2 DEF TaskTypeOK, SchedInv, TypeOK
      <4>2. QED
        BY <4>1 DEF SchedInv, NeverPutOff
    <3>3. QED
      BY <3>1, <3>2
  <2>5. TypeOK'
    BY <1>1, <2>2, <2>3 DEF TypeOK, SchedPc
  <2>6. QED
    BY <2>2, <2>3, <2>4, <2>5 DEF SchedInv
<1>4. ASSUME NEW task \in Tasks, unschedule(task) PROVE SchedInv'
  <2>1. Unschedule(task) /\ UNCHANGED <<clock, threadVars, request>>
    BY <1>4 DEF unschedule
  <2>2. /\ TaskTypeOK' /\ QueueInOrder'
        /\ Scheduled' \subseteq Scheduled /\ UNCHANGED <<next_time, interval>>
    BY <1>1, <2>1, UnscheduleRemoves DEF SchedInv
  <2>3. NeverPutOff'
    BY <2>1, <2>2 DEF SchedInv, NeverPutOff
  <2>4. request = Nothing
    BY <1>4 DEF unschedule
  <2>5. QED
    BY <1>1, <2>1, <2>2, <2>3, <2>4 DEF SchedInv, TypeOK, threadVars
<1> QED
  BY <1>2, <1>3, <1>4 DEF Caller

\* The thread runs what is due, and does nothing else to the queue.
LEMMA ThreadKeeps ==
  SchedInv /\ (SchedulerThread \/ SpuriousWakeup) => SchedInv'
<1> SUFFICES ASSUME SchedInv, SchedulerThread \/ SpuriousWakeup PROVE SchedInv'
  OBVIOUS
<1>1. /\ TypeOK /\ TaskTypeOK /\ clock \in Nat /\ now \in Nat /\ now <= clock
      /\ Ordered(queue, next_time)
      /\ queue # << >> => Head(queue) \in Tasks /\ next_time[Head(queue)] \in Nat
  <2>1. TypeOK /\ TaskTypeOK /\ clock \in Nat /\ now \in Nat /\ now <= clock
    BY TimeAssumption DEF SchedInv, TypeOK
  <2>2. Ordered(queue, next_time)
    BY InOrderIsOrdered DEF SchedInv
  <2>3. QED
    BY <2>1, <2>2, HeadIsFirst DEF TaskTypeOK
<1>2. CASE RunFirst
  <2>1. /\ RescheduleFirst(now) /\ node' = Head(queue) /\ did_something' = TRUE
        /\ sched_pc' = "unlocked" /\ UNCHANGED <<clock, now, deadline, request>>
    BY <1>2 DEF RunFirst
  <2>2. /\ TaskTypeOK' /\ QueueInOrder' /\ Head(queue) \in Tasks
        /\ Scheduled' = Scheduled /\ UNCHANGED interval
        /\ \A t \in Tasks : t # Head(queue) => next_time'[t] = next_time[t]
        /\ next_time'[Head(queue)] <= now + interval[Head(queue)]
    BY <1>1, <2>1, RescheduleMoves DEF SchedInv
  <2>3. NeverPutOff'
    <3> SUFFICES ASSUME NEW t \in Scheduled
                 PROVE  next_time'[t] <= clock + interval[t]
      BY <2>1, <2>2 DEF NeverPutOff
    <3>1. t \in Tasks
      BY <1>1, ElementOfSeq DEF Scheduled, ToSet, TaskTypeOK
    <3>2. CASE t = Head(queue)
      BY <1>1, <2>2, <3>1, <3>2 DEF TaskTypeOK
    <3>3. CASE t # Head(queue)
      BY <2>2, <3>1, <3>3 DEF SchedInv, NeverPutOff
    <3>4. QED
      BY <3>2, <3>3
  <2>4. TypeOK'
    BY <1>1, <2>1, <2>2 DEF TypeOK, SchedPc
  <2>5. QED
    BY <2>1, <2>2, <2>3, <2>4, <1>1 DEF SchedInv
<1>3. CASE ReadClock
  <2>1. now' = clock /\ TypeOK'
    BY <1>1, <1>3 DEF ReadClock, TypeOK, TaskTypeOK, SchedPc, taskVars
  <2>2. QED
    BY <1>1, <1>3, <2>1
       DEF ReadClock, SchedInv, QueueInOrder, InOrder, NeverPutOff, Scheduled, taskVars
<1>4. CASE GoToSleep
  <2>1. deadline' \in Nat \cup {Forever} /\ sched_pc' = "sleep"
        /\ UNCHANGED <<queue, next_time, interval, clock, now, did_something, node, request>>
    BY <1>1, <1>4 DEF GoToSleep, taskVars
  <2>2. QED
    BY <2>1
       DEF SchedInv, TypeOK, TaskTypeOK, SchedPc, QueueInOrder, InOrder, NeverPutOff, Scheduled
<1>5. CASE ReadDeadline
  <2>1. deadline' \in Nat
    <3>1. node \in Tasks /\ next_time[node] \in Nat
      BY <1>1, <1>5 DEF ReadDeadline, SchedInv, TaskTypeOK
    <3>2. request.task = node => request # Nothing
      BY <3>1, NoTaskAssumption DEF Nothing
    <3>3. request.task = node => request.stime + request.ival \in Nat
      BY <1>1, <3>2, RequestType
    <3>4. QED
      BY <1>5, <3>1, <3>3 DEF ReadDeadline
  <2>2. sched_pc' = "sleep"
        /\ UNCHANGED <<queue, next_time, interval, clock, now, did_something, node, request>>
    BY <1>5 DEF ReadDeadline, taskVars
  <2>3. QED
    BY <2>1, <2>2
       DEF SchedInv, TypeOK, TaskTypeOK, SchedPc, QueueInOrder, InOrder, NeverPutOff, Scheduled
<1>6. CASE FallAsleep
  <2>1. node' \in Tasks /\ sched_pc' = "falling"
        /\ UNCHANGED <<queue, next_time, interval, clock, now, did_something, deadline, request>>
    BY <1>1, <1>6 DEF FallAsleep, taskVars
  <2>2. QED
    BY <2>1
       DEF SchedInv, TypeOK, TaskTypeOK, SchedPc, QueueInOrder, InOrder, NeverPutOff, Scheduled
<1>7. CASE Lock \/ RunAction \/ Relock \/ GoAround \/ TimeOut \/ SpuriousWakeup
  <2>1. /\ sched_pc' \in SchedPc
        /\ sched_pc' \in {"unlocked", "running", "dangling", "falling"} => node \in Tasks
        /\ UNCHANGED <<queue, next_time, interval, clock, now, did_something, node,
                       deadline, request>>
    BY <1>7 DEF Lock, RunAction, Relock, GoAround, TimeOut, SpuriousWakeup, SchedInv,
                taskVars, SchedPc
  <2>2. QED
    BY <2>1
       DEF SchedInv, TypeOK, TaskTypeOK, QueueInOrder, InOrder, NeverPutOff, Scheduled
<1> QED
  BY <1>2, <1>3, <1>4, <1>5, <1>6, <1>7 DEF SchedulerThread

\* Time that passes makes nothing late that was not.
LEMMA TickKeeps == SchedInv /\ Tick => SchedInv'
<1> SUFFICES ASSUME SchedInv, Tick PROVE SchedInv'
  OBVIOUS
<1>1. /\ TypeOK /\ TaskTypeOK /\ clock \in Nat /\ now \in Nat /\ now <= clock
      /\ clock' = clock + 1 /\ clock + 1 \in Times
      /\ UNCHANGED <<queue, next_time, interval, threadVars, request>>
  BY TimeAssumption DEF SchedInv, TypeOK, Tick, taskVars
<1>2. NeverPutOff'
  <2> SUFFICES ASSUME NEW t \in Scheduled
               PROVE  next_time[t] <= clock + 1 + interval[t]
    BY <1>1 DEF NeverPutOff, Scheduled
  <2>1. t \in Tasks
    BY <1>1, ElementOfSeq DEF Scheduled, ToSet, TaskTypeOK
  <2>2. QED
    BY <1>1, <2>1 DEF SchedInv, NeverPutOff, TaskTypeOK
<1>3. request' # Nothing => request'.stime <= clock' /\ request'.task \notin Scheduled'
  BY <1>1, RequestType DEF SchedInv, Scheduled
<1>4. TypeOK' /\ QueueInOrder' /\ now' <= clock'
  BY <1>1 DEF SchedInv, TypeOK, TaskTypeOK, QueueInOrder, InOrder, threadVars
<1> QED
  BY <1>1, <1>2, <1>3, <1>4 DEF SchedInv, threadVars

LEMMA SchedStep == SchedInv /\ [Next]_vars => SchedInv'
<1>1. ASSUME SchedInv, UNCHANGED vars PROVE SchedInv'
  BY <1>1 DEF SchedInv, TypeOK, TaskTypeOK, QueueInOrder, InOrder, NeverPutOff, Scheduled,
              vars, taskVars, threadVars
<1> QED
  BY <1>1, CallerKeeps, ThreadKeeps, TickKeeps DEF Next

LEMMA SchedInvHolds == Spec => []SchedInv
  BY SchedInit, SchedStep, PTL DEF Spec

-----------------------------------------------------------------------------
(* What follows from it *)

\* Every variable of scheduler.c keeps its type, also the deadline that is read
\* from a task that was freed.
THEOREM TypeCorrect == Spec => []TypeOK
<1>1. SchedInv => TypeOK
  BY DEF SchedInv
<1> QED
  BY <1>1, SchedInvHolds, PTL

\* insert_node() and the rescheduling of scheduler_run() keep the queue in
\* order, whatever is scheduled with an old reading of the clock.
THEOREM QueueStaysInOrder == Spec => []QueueInOrder
<1>1. SchedInv => QueueInOrder
  BY DEF SchedInv
<1> QED
  BY <1>1, SchedInvHolds, PTL

\* However many runs scheduler_run() misses, no task is put off by more than
\* its interval.
THEOREM TasksNeverPutOff == Spec => []NeverPutOff
<1>1. SchedInv => NeverPutOff
  BY DEF SchedInv
<1> QED
  BY <1>1, SchedInvHolds, PTL

-----------------------------------------------------------------------------
(* The sleep of the thread *)

\* In a queue in order, who sleeps for the first task sleeps for all of them.
LEMMA FirstSuitsAll ==
  ASSUME TaskTypeOK, QueueInOrder, NEW time \in Nat,
         queue # << >>, time <= next_time[Head(queue)]
  PROVE  \A t \in Scheduled : time <= next_time[t]
<1>1. /\ queue \in Seq(Tasks) /\ next_time \in [Tasks -> Nat]
      /\ Ordered(queue, next_time)
  BY InOrderIsOrdered DEF TaskTypeOK
<1>2. /\ Head(queue) \in Tasks
      /\ \A t \in ToSet(queue) : t \in Tasks /\ next_time[Head(queue)] <= next_time[t]
  BY <1>1, HeadIsFirst
<1>3. next_time[Head(queue)] \in Nat /\ \A t \in Tasks : next_time[t] \in Nat
  BY <1>1, <1>2
<1> QED
  BY <1>2, <1>3 DEF Scheduled

LEMMA FirstSuitsAllNext ==
  ASSUME TaskTypeOK', QueueInOrder', NEW time \in Nat,
         queue' # << >>, time <= next_time'[Head(queue')]
  PROVE  \A t \in Scheduled' : time <= next_time'[t]
<1>1. /\ queue' \in Seq(Tasks) /\ next_time' \in [Tasks -> Nat]
      /\ Ordered(queue', next_time')
  BY InOrderIsOrderedNext DEF TaskTypeOK
<1>2. /\ Head(queue') \in Tasks
      /\ \A t \in ToSet(queue') : t \in Tasks /\ next_time'[Head(queue')] <= next_time'[t]
  BY <1>1, HeadIsFirst
<1>3. next_time'[Head(queue')] \in Nat /\ \A t \in Tasks : next_time'[t] \in Nat
  BY <1>1, <1>2
<1> QED
  BY <1>2, <1>3 DEF Scheduled

\* There are tasks when something is scheduled, and the first is one of them.
LEMMA SomeIsFirst ==
  ASSUME TaskTypeOK, QueueInOrder
  PROVE  /\ Scheduled # {} => queue # << >>
         /\ queue # << >> => Head(queue) \in Tasks /\ Head(queue) \in Scheduled
         /\ \A t \in Scheduled : t \in Tasks /\ next_time[t] \in Nat
<1>1. queue \in Seq(Tasks) /\ next_time \in [Tasks -> Nat] /\ Ordered(queue, next_time)
  BY InOrderIsOrdered DEF TaskTypeOK
<1>2. Scheduled # {} => queue # << >>
  BY <1>1, LenProperties, ElementOfSeq DEF Scheduled, ToSet
<1>3. queue # << >> => Head(queue) \in Tasks /\ Head(queue) \in Scheduled
  BY <1>1, HeadIsFirst DEF Scheduled
<1>4. \A t \in Scheduled : t \in Tasks
  BY <1>1, LenProperties, ElementOfSeq DEF Scheduled, ToSet
<1> QED
  BY <1>1, <1>2, <1>3, <1>4

\* Whoever makes another task the first one signals.
LEMMA InsertKeepsSleep ==
  ASSUME SchedInv, SleepsForFirst, schedule_ts_insert
  PROVE  SleepsForFirst'
<1>1. TypeOK /\ TaskTypeOK /\ QueueInOrder
  BY DEF SchedInv, TypeOK
<1>2. /\ Schedule(request.task, request.ival, request.stime)
      /\ UNCHANGED <<deadline, node>>
      /\ \/ sched_pc' = sched_pc /\ queue # << >> /\ Head(queue') = Head(queue)
         \/ sched_pc' = sched_pc /\ sched_pc \notin {"falling", "sleep"}
         \/ sched_pc' = "woken"
      /\ request.task \in Tasks /\ request.ival \in Nat /\ request.stime \in Nat
  BY <1>1, RequestType DEF schedule_ts_insert, SignalIfNewFirst
<1>3. /\ TaskTypeOK' /\ QueueInOrder' /\ queue' # << >>
      /\ Scheduled' = Scheduled \cup {request.task}
      /\ next_time' = [next_time EXCEPT ![request.task] = request.stime + request.ival]
      /\ request.task \notin Scheduled
  BY <1>1, <1>2, ScheduleAdds DEF Schedule
<1>4. CASE sched_pc' \notin {"falling", "sleep"}
  BY <1>4 DEF SleepsForFirst, SleepNeverPastDeadline
<1>5. CASE sched_pc' \in {"falling", "sleep"}
  <2>1. sched_pc' = sched_pc /\ queue # << >> /\ Head(queue') = Head(queue)
    BY <1>2, <1>5
  <2>2. /\ Head(queue) \in Tasks /\ Head(queue) \in Scheduled
        /\ next_time'[Head(queue)] = next_time[Head(queue)]
    BY <1>1, <1>3, <2>1, SomeIsFirst DEF TaskTypeOK
  <2>3. ASSUME sched_pc = "sleep", NEW t \in Scheduled'
        PROVE  deadline # Forever /\ deadline <= next_time'[t]
    <3>1. deadline # Forever /\ deadline <= next_time[Head(queue)]
      BY <2>2, <2>3 DEF SleepsForFirst, SleepNeverPastDeadline
    <3>2. deadline \in Nat
      BY <1>1, <3>1 DEF TypeOK
    <3>3. deadline <= next_time'[Head(queue')]
      BY <2>1, <2>2, <3>1
    <3>4. \A task \in Scheduled' : deadline <= next_time'[task]
      BY <1>3, <3>2, <3>3, FirstSuitsAllNext
    <3>5. QED
      BY <2>3, <3>1, <3>4
  <2>4. ASSUME sched_pc = "falling", NEW t \in Scheduled'
        PROVE  node \in Scheduled' /\ next_time'[node] <= next_time'[t]
    <3>1. node \in Scheduled /\ next_time[node] <= next_time[Head(queue)]
      BY <2>2, <2>4 DEF SleepsForFirst
    <3>2. /\ node \in Tasks /\ node # request.task /\ next_time[node] \in Nat
          /\ next_time'[node] = next_time[node]
      BY <1>1, <1>3, <3>1, SomeIsFirst DEF TaskTypeOK
    <3>3. next_time'[node] \in Nat /\ next_time'[node] <= next_time'[Head(queue')]
      BY <2>1, <2>2, <3>1, <3>2
    <3>4. \A task \in Scheduled' : next_time'[node] <= next_time'[task]
      BY <1>3, <3>3, FirstSuitsAllNext
    <3>5. QED
      BY <1>3, <2>4, <3>1, <3>4
  <2>5. QED
    BY <1>2, <2>1, <2>3, <2>4 DEF SleepsForFirst, SleepNeverPastDeadline
<1> QED
  BY <1>4, <1>5

\* Unscheduling another task than the one the thread falls asleep for only makes
\* it wake up early.
LEMMA UnscheduleKeepsSleep ==
  ASSUME SchedInv, SleepsForFirst, NEW task \in Tasks, unschedule(task)
  PROVE  SleepsForFirst' \/ (sched_pc = "falling" /\ node \in Scheduled /\ node \notin Scheduled')
<1>1. Unschedule(task) /\ UNCHANGED <<sched_pc, deadline, node>>
  BY DEF unschedule, threadVars
<1>2. Scheduled' \subseteq Scheduled /\ UNCHANGED next_time
  BY <1>1, UnscheduleRemoves DEF SchedInv, TypeOK
<1>3. CASE sched_pc = "falling" /\ node \in Scheduled /\ node \notin Scheduled'
  BY <1>3
<1>4. CASE ~(sched_pc = "falling" /\ node \in Scheduled /\ node \notin Scheduled')
  BY <1>1, <1>2, <1>4 DEF SleepsForFirst, SleepNeverPastDeadline
<1> QED
  BY <1>3, <1>4

\* The thread decides to sleep for the first task, and reads its time.
LEMMA ThreadSleepsForFirst ==
  ASSUME SchedInv, SleepsForFirst, SchedulerThread \/ SpuriousWakeup
  PROVE  SleepsForFirst'
<1>1. TypeOK /\ TaskTypeOK /\ QueueInOrder
  BY DEF SchedInv, TypeOK
<1>2. CASE GoToSleep
  <2>1. queue = << >> /\ sched_pc' = "sleep" /\ UNCHANGED queue
    BY <1>2 DEF GoToSleep, taskVars
  <2>2. Scheduled' = {}
    <3>1. DOMAIN queue = {}
      BY <2>1
    <3>2. QED
      BY <2>1, <3>1 DEF Scheduled, ToSet
  <2>3. QED
    BY <2>1, <2>2 DEF SleepsForFirst, SleepNeverPastDeadline
<1>3. CASE FallAsleep
  <2>1. /\ queue # << >> /\ node' = Head(queue) /\ sched_pc' = "falling"
        /\ UNCHANGED <<queue, next_time>>
    BY <1>3 DEF FallAsleep, taskVars
  <2>2. /\ Head(queue) \in Scheduled /\ next_time[Head(queue)] \in Nat
        /\ next_time[Head(queue)] <= next_time[Head(queue)]
    BY <1>1, <2>1, SomeIsFirst
  <2>3. \A t \in Scheduled : next_time[Head(queue)] <= next_time[t]
    BY <1>1, <2>1, <2>2, FirstSuitsAll
  <2>4. QED
    BY <2>1, <2>2, <2>3 DEF SleepsForFirst, SleepNeverPastDeadline, Scheduled
<1>4. CASE ReadDeadline
  <2>1. /\ sched_pc = "falling" /\ sched_pc' = "sleep" /\ UNCHANGED <<queue, next_time>>
        /\ deadline' = next_time[node] \/ request.task = node
    BY <1>4 DEF ReadDeadline, taskVars
  <2>2. ASSUME NEW t \in Scheduled
        PROVE  deadline' # Forever /\ deadline' <= next_time[t]
    <3>1. node \in Scheduled /\ next_time[node] <= next_time[t]
      BY <2>1 DEF SleepsForFirst
    <3>2. node \in Tasks /\ next_time[node] \in Nat
      BY <1>1, <3>1, SomeIsFirst
    <3>3. request.task # node
      <4>1. request.task = node => request # Nothing
        BY <3>2, NoTaskAssumption DEF Nothing
      <4>2. QED
        BY <3>1, <4>1 DEF SchedInv
    <3>4. QED
      BY <2>1, <3>1, <3>2, <3>3 DEF Forever
  <2>3. QED
    BY <2>1, <2>2 DEF SleepsForFirst, SleepNeverPastDeadline, Scheduled
<1>5. CASE \/ Lock \/ ReadClock \/ RunFirst \/ RunAction \/ Relock \/ GoAround
           \/ TimeOut \/ SpuriousWakeup
  <2>1. sched_pc' # "sleep" /\ sched_pc' # "falling"
    BY <1>5 DEF Lock, ReadClock, RunFirst, RunAction, Relock, GoAround, TimeOut, SpuriousWakeup
  <2>2. QED
    BY <2>1 DEF SleepsForFirst, SleepNeverPastDeadline
<1> QED
  BY <1>2, <1>3, <1>4, <1>5 DEF SchedulerThread

\* A step that makes the thread of scheduler.c sleep past a task unschedules the
\* very task that it falls asleep for: no signal for a new first task is missed,
\* neither by a thread that sleeps nor by one that is about to.
THEOREM NoSignalIsMissed == Spec => NoSignalMissed
<1>1. ASSUME SchedInv, [Next]_vars, SleepsForFirst
      PROVE  \/ SleepsForFirst'
             \/ sched_pc = "falling" /\ node \in Scheduled /\ node \notin Scheduled'
  <2>1. CASE Tick \/ (\E task \in Tasks, ival \in Intervals : schedule_ts(task, ival))
             \/ UNCHANGED vars
    <3>1. UNCHANGED <<queue, next_time, sched_pc, deadline, node>>
      BY <2>1 DEF Tick, schedule_ts, taskVars, threadVars, vars
    <3>2. QED
      BY <1>1, <3>1 DEF SleepsForFirst, SleepNeverPastDeadline, Scheduled
  <2>2. QED
    BY <1>1, <2>1, InsertKeepsSleep, UnscheduleKeepsSleep, ThreadSleepsForFirst
       DEF Next, Caller
<1> QED
  BY <1>1, SchedInvHolds, PTL DEF Spec, NoSignalMissed

-----------------------------------------------------------------------------
(* The scheduler implements PeriodicTasks *)

\* The task that the scheduler runs, as PeriodicTasks has it.
Running == IF sched_pc \in {"unlocked", "running", "dangling"} THEN node ELSE NoTask

LEMMA RefinesInit == Init => Service!PeriodicInit
<1> SUFFICES ASSUME Init PROVE Service!PeriodicInit
  OBVIOUS
<1>1. Scheduled = {}
  <2>1. DOMAIN queue = {}
    BY DEF Init, TaskInit
  <2>2. QED
    BY <2>1 DEF Scheduled, ToSet
<1>2. sched_pc = "woken"
  BY DEF Init
<1> QED
  BY <1>1, <1>2 DEF Service!PeriodicInit

\* What is scheduled and what is run change by one of the four operations.
LEMMA RefinesStep ==
  SchedInv /\ [Next]_vars => [Service!PeriodicNext]_(Service!periodicVars)
<1> SUFFICES ASSUME SchedInv, [Next]_vars
             PROVE  [Service!PeriodicNext]_(Service!periodicVars)
  OBVIOUS
<1>1. TypeOK /\ TaskTypeOK /\ QueueInOrder
  BY DEF SchedInv, TypeOK
<1>2. CASE schedule_ts_insert
  <2>1. /\ Schedule(request.task, request.ival, request.stime)
        /\ UNCHANGED node
        /\ \/ sched_pc' = sched_pc
           \/ sched_pc \in {"falling", "sleep"} /\ sched_pc' = "woken"
        /\ request.task \in Tasks /\ request.ival \in Nat /\ request.stime \in Nat
    <3>1. request # Nothing /\ UNCHANGED node /\ SignalIfNewFirst
          /\ Schedule(request.task, request.ival, request.stime)
      BY <1>2 DEF schedule_ts_insert
    <3>2. \/ sched_pc' = sched_pc
          \/ sched_pc \in {"falling", "sleep"} /\ sched_pc' = "woken"
      BY <3>1 DEF SignalIfNewFirst
    <3>3. QED
      BY <1>1, <3>1, <3>2, RequestType
  <2>2. Scheduled' = Scheduled \cup {request.task} /\ request.task \notin Scheduled
    BY <1>1, <2>1, ScheduleAdds DEF Schedule
  <2>3. Running' = Running
    BY <2>1 DEF Running
  <2>4. Service!AddTask(request.task)
    BY <2>1, <2>2, <2>3 DEF Service!AddTask, Running
  <2>5. QED
    BY <2>1, <2>4 DEF Service!PeriodicNext
<1>3. ASSUME NEW task \in Tasks, unschedule(task)
      PROVE  [Service!PeriodicNext]_(Service!periodicVars)
  <2>1. Unschedule(task) /\ UNCHANGED <<sched_pc, node>>
    BY <1>3 DEF unschedule, threadVars
  <2>2. task \in Scheduled /\ Scheduled' = Scheduled \ {task}
    BY <1>1, <2>1, UnscheduleRemoves
  <2>3. Service!RemoveTask(task)
    BY <2>1, <2>2 DEF Service!RemoveTask
  <2>4. QED
    BY <2>3 DEF Service!PeriodicNext
<1>4. CASE RunFirst
  <2>1. /\ RescheduleFirst(now) /\ node' = Head(queue) /\ sched_pc = "test"
        /\ sched_pc' = "unlocked" /\ now \in Nat
    BY <1>4, TimeAssumption DEF RunFirst, SchedInv, TypeOK
  <2>2. Head(queue) \in Tasks /\ Head(queue) \in Scheduled /\ Scheduled' = Scheduled
    BY <1>1, <2>1, RescheduleMoves
  <2>3. Service!BeginTask(Head(queue))
    BY <2>1, <2>2 DEF Service!BeginTask
  <2>4. QED
    BY <2>2, <2>3 DEF Service!PeriodicNext
<1>5. CASE Relock
  <2>1. /\ sched_pc \in {"running", "dangling"} /\ sched_pc' = "test"
        /\ UNCHANGED <<queue, node>> /\ node # NoTask
    BY <1>5, NoTaskAssumption DEF Relock, taskVars, SchedInv
  <2>2. Service!EndTask
    BY <2>1 DEF Service!EndTask, Scheduled
  <2>3. QED
    BY <2>2 DEF Service!PeriodicNext
<1>6. CASE \/ Lock \/ ReadClock \/ RunAction \/ GoAround \/ GoToSleep \/ TimeOut
           \/ SpuriousWakeup \/ FallAsleep \/ ReadDeadline
  <2>1. UNCHANGED queue /\ Running' = Running
    BY <1>6 DEF Lock, ReadClock, RunAction, GoAround, GoToSleep, TimeOut, SpuriousWakeup,
                FallAsleep, ReadDeadline, taskVars, Running
  <2>2. QED
    BY <2>1 DEF Service!periodicVars, Scheduled, Running
<1>7. CASE Tick \/ (\E task \in Tasks, ival \in Intervals : schedule_ts(task, ival))
           \/ UNCHANGED vars
  <2>1. UNCHANGED <<queue, sched_pc, node>>
    BY <1>7 DEF Tick, schedule_ts, taskVars, threadVars, vars
  <2>2. QED
    BY <2>1 DEF Service!periodicVars, Scheduled
<1> QED
  BY <1>2, <1>3, <1>4, <1>5, <1>6, <1>7 DEF Next, Caller, SchedulerThread

\* What registration.c relies on: scheduler.c runs scheduled tasks, one at a
\* time, and begins none that was taken off the schedule.
THEOREM SchedulerImplementsPeriodicTasks == Spec => ImplementsPeriodicTasks
<1> QED
  BY RefinesInit, RefinesStep, SchedInvHolds, PTL
     DEF Spec, ImplementsPeriodicTasks, Service!PeriodicSpec

=============================================================================
