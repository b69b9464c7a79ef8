# A verification project for psw-afdx

psw-afdx is a daemon that receives packets of avionics data from an AFDX-like
network (UDP), keeps the latest data in memory, and serves it to local
applications over a UNIX socket, on request or periodically.  This directory
holds TLA+ models of the daemon's four threads and of the data structures they
share, the TLC configurations that check them, and proofs about them for TLAPS.

## The system

```
 network --UDP--> network thread --slots of queue.c--> elaboration thread --> intdata
                        '------- wakeup_elab (condition variable) ------'        |
                                                                         serve_query()
 applications <==UNIX socket==> application manager --schedule()/unschedule()    |
      ^                               |  registration.c        |                 |
      |                               v                        v                 |
      '------------- write() --- (descriptors, query nodes) <- scheduler thread -'
```

| component | state | operations | modules |
|---|---|---|---|
| packet queue (`queue.c`) | `in_ptr`, `out_ptr`, `nodes`, a semaphore, a mutex | `next_nqnode_in`, `next_nqnode_out`, `dispose_last_nqnode` | PacketPipeline |
| network thread (`network_thread.c`) | the slot it fills | claim, `recvfrom`, time stamp, signal | PacketPipeline |
| elaboration thread (`elaboration_thread.c`) | the slot it reads | wait, lower the semaphore, take, elaborate, dispose | PacketPipeline, Service |
| internal data (`internal_data.h`) | sections with a `last_update` | written field by field, read per reply | InternalData, DataFields, Service |
| scheduler queue (`scheduler.c`) | doubly linked list ordered by `next_time` | `insert_node`, `remove_node`, `pop`, `schedule_ts`, `unschedule` | SchedulerQueue, TaskQueue, Timespec |
| scheduler thread (`scheduler.c`) | `now`, `did_something`, the node it runs | run what is due, sleep until the first is due | Scheduler |
| registration (`registration.c`) | list of applications, each with a list of queries | `register_query`, `unregister_query`, `unregister_application` | Registration |
| application manager (`application_manager.c`) | `managed_fds`, the listening socket | the `select()` loop, dispatch, `serve_query` | AppManager, Service |
| simplog | the log file, opened and closed per message | `writeLog` | LoggedManager (descriptors only) |
| main | start-up | marks the data invalid, starts the threads one after the other, spins | Service |
| sample applications (`app1.c` to `app4.c`) | the place in their program, the last reply | connect, ask or register, read and print, unregister, close | SamplePrograms, Service; any application in AppManager |
| UDP generator | | twenty packets, of which any may be lost | SamplePrograms, Service; any network in PacketPipeline |

What is hard here is what threads share.  The condition variable between the two
network-side threads has no predicate and its signaller no mutex, and a slot is
published before it is filled.  The scheduler reads its clock before it takes the
mutex, runs a task after it released it, and sleeps until a time it passes by
pointer.  The registry frees memory that the scheduler thread reads without a
lock, and descriptors, which are small numbers that the kernel reuses, are kept by
one thread while another closes them.  The internal data has no lock at all: one
thread writes it field by field and two others read it, into replies of which one
member in three is set, and wait with them for room in a socket.  `PROJECT.json` lists each of these hazards
at its line, with the property that would catch it going wrong.

## The modules

### Network side

* **InternalData** - packets, nodes, the internal data, and `Elaborated`, what a packet
  does to the data. A packet is its identifier, its engine id and an opaque payload. A
  reception time is represented by the packet it belongs to, so that a stamp of another
  packet shows.
* **PacketStore** - the abstract specification: a bounded FIFO of packets in front of
  the data.
* **PacketPipeline** - the queue and its two threads. A function that holds
  `queue_mutex` throughout is one step; `sem_wait`, which happens outside the mutex, is
  its own step; `recvfrom`, the time stamp and the signal are the steps of the network
  thread. A NULL that is dereferenced ends in the location `"crashed"`. `SpuriousWakeup`
  is kept apart (`PosixSpec`), so that it is visible what depends on a condition
  variable that returns for signals only (`Spec`). `sem_post` saturates at
  `SEM_VALUE_MAX`.
* **PacketPipelineProofs**, **PipelineRefinement** - the proofs about it.

### Scheduler

* **Timespec** - `tm_ge`, `tm_incr` and the conversion from milliseconds.
* **TaskQueue** - the queue as an ordered sequence with integer times. It is an abstract
  specification (`TaskSpec`) and also the vocabulary of Scheduler.
* **SchedulerQueue** - the C code of the queue at pointer level with timespecs, one
  critical section per action, and handles that are reused after `free`. A `malloc` that
  fails, after which the process exits, is `NoMemory` of Registration.
  `ImplementsTaskQueue` is the refinement to TaskQueue, with the list read along its
  forward pointers.
* **PeriodicTasks** - what the scheduler is to its users: tasks are added, removed and
  run one at a time, and a task that was removed is not begun any more.
* **Scheduler** - the thread, the clock, the condition variable and a caller. The caller
  reads the clock (`schedule_ts`) and inserts later (`schedule_ts_insert`); the thread's
  steps are the regions between clock reading, mutex and sleep. To fall asleep is two
  steps: `FallAsleep` releases the mutex, from where on a signal wakes the thread, and
  `ReadDeadline` follows the pointer to the first task that `pthread_cond_timedwait` was
  given. That task may have been freed by then. Its time is still found there (`free`
  leaves it alone), or the time of the task that was given its memory, whether this one
  is already inserted or its caller still waits for the mutex. `ImplementsPeriodicTasks`
  is the refinement to PeriodicTasks.
* **SchedulerQueueProofs**, **SchedulerProofs** - the proofs about the time arithmetic
  and the linked list, and about the thread; **SequenceLemmas** - what they and the
  other proofs need to know of sequences (insertion, removal, concatenation, their
  elements) and of sets of numbers (the least one, and how many come before the first
  bad one).

### Application side

* **Registration** - the lists and the memory of queries on top of PeriodicTasks. A task
  stands for the query node together with its scheduler node (both are allocated and
  freed by the application manager in one go). `victims` are the tasks between being
  unchained and being freed. `registering_mutex` is taken by the application manager
  only, so it never blocks and is not modelled.
* **AppManager** - applications, connections, the descriptor table, the `select` loop,
  the scheduler thread's delivery of updates. The descriptor that is next handed out is
  the lowest free one. The application manager handles one descriptor of the `select`
  result at a time, in ascending order; removing an application is broken into the steps
  that the scheduler thread can see (unchain, unschedule, free, close). The scheduler
  thread picks a due task (`Begin`), reads the query and the descriptor (`FetchQuery`)
  and writes (`SendUpdate`). A reply to a request is a step of its own (`Reply`), since
  `serve_query` ends in a `write` that waits while the application at the other end is
  open and has not read `SockBuf` messages: the application manager serves nobody then.
  A message of unknown type has no effect. A task that was freed when it is read may
  still be there, may hold another query, or may lead nowhere, in which case the process
  ends.
* **RegistrationProofs**, **AppManagerProofs** - the proofs about them.
* **LoggedManager** - AppManager with a thread that logs, which opens and closes a
  descriptor for every message, and with what the application manager then does to
  descriptors that are not its sockets any more: a log file it takes for one has text to
  read until something is written to it, and an end, at which it is closed.

### The whole daemon

* **DataFields** - in which order the fields of a packet are written, and which field is
  read for a query into which member of the reply. What a field holds is the number of
  the packet its value came from, 0 for the zero of static storage.
* **SamplePrograms** - the four applications as sequences of calls, with their queries
  and what they print, and the packets of the generator.
* **Service** - everything from the packet that arrives to the number that is printed.
  `Main` is the start-up, with the threads running as soon as their `init` function is
  through. `Assign` writes the next field that somebody asks for (with its neighbours
  that nobody does: two assignments that no thread can tell apart are one step);
  `Dispatch` and `Begin` read a field and fill in a reply, and `WriteReply` writes it,
  to whatever the descriptor stands for by then, when there is room. The applications
  follow their programs; `shown` is what each knows for each of its queries, where
  asking counts as knowing what the daemon had at that moment.

  It stands on the other modules and leaves to them what they show: the network side
  is PacketStore's FIFO (PacketPipeline implements it), the schedule is a set of
  queries of which any may be due (PeriodicTasks), and unregistering is one step, with
  no reuse of memory (AppManager has the steps and the memory).
* **ServiceProofs** - the proofs about it.

`Scheduler` says when a task is due; `Registration` only uses that some scheduled
task is begun, which is what `ImplementsPeriodicTasks` shows.  `SchedulerQueue`
shows that the sequence which `Scheduler` computes with is what the list holds,
and that timespecs may be replaced by the numbers they stand for; both are proved in
`SchedulerQueueProofs`.

## The runs

`tlc -config X.cfg M` with the module in brackets; each `.cfg` has the name of its run.

| run | question | instance | distinct states |
|---|---|---|---|
| Pipeline (MCPacketPipeline) | Are packets elaborated in order, once, complete, and never while they are received? Is every wakeup served? | 4 slots, 4 packets | 387 000 |
| PipelineSpurious | *violated*: is the NULL node never dereferenced? | 3 slots, 2 packets, spurious wakeups | |
| PipelineWedge | *violated*: does the elaboration thread block only until there are messages? | 3 slots, 2 packets, a network that keeps sending | |
| ListRefinement (MCSchedulerQueue) | Is the linked list of timespecs the ordered sequence of tasks? | 3 handles, 2 intervals, 3 clock readings | 106 000 |
| Scheduler (MCScheduler) | Does the scheduler keep its order, put tasks off, begin what is not scheduled or miss a signal? Is a due task run? | 2 tasks, intervals 0, 1 and 2, times 0..3 | 1 302 000 |
| SchedulerOversleep | *violated*: does the thread wait for the next task to run? | 2 tasks, intervals 1 and 2, times 0..3 | |
| AppSafety (MCAppManager) | Do registry, schedule, memory, sockets and descriptors agree? | 2 connections, 2 tasks, 2 descriptors | 4 928 000 |
| AppLiveness | Is a closed application cleaned up? | 2 connections, 1 task, 2 descriptors | 1 467 000 |
| AppMisdelivery | *violated*: do updates reach who registered? | as AppSafety | |
| AppDoubleClose (MCLoggedManager) | *violated*: does `managed_fds` hold open sockets only, with a thread that logs? | 2 connections, 2 tasks, 3 descriptors | |
| Service (MCService) | Do applications print what was set, never older data, and come to their end? Does every section move from packet to packet? | 2 packets, app1 and app4, 2 replies each at most, sockets of 1 reply | 303 000 |
| ServiceOrderlyExit | *violated*: does the daemon go on without an application that ended? | 2 packets, app4 | |

**What the passing runs show.**

* *Pipeline*: the slot is published before it is filled, the semaphore is raised too
  often and the signal is not protected, and yet the pipeline implements the bounded
  FIFO (`ImplementsStore`): the elaboration thread is let into the queue only by a
  signal, and the signal is sent only after a slot is complete. The price is
  `BacklogNeverShrinks`: one wakeup, one packet, so that what a lost wakeup leaves
  behind is never caught up with. `SemCoversQueue` says what the semaphore is worth: it
  never hides a packet that is there.
* *ListRefinement*: whatever the order of insertions, removals and reschedulings, the
  list is well formed from both ends and moves as the ordered sequence does, with
  nanoseconds that carry.
* *Scheduler*: although tasks are inserted with clock readings that are older than the
  queue, the queue stays in order (`QueueInOrder`), a task is due within one interval
  whatever was missed (`NeverPutOff`), and nothing is begun that is not scheduled at
  that moment (`ImplementsPeriodicTasks`). No signal is missed (`NoSignalMissed`): the
  thread comes to sleep past a task only if the task that it was falling asleep for is
  unscheduled before it has read the deadline, which is what SchedulerOversleep shows to
  happen. But for that, every due task is run or unscheduled (`DueIsServed`), and the
  inner loop ends although its clock reading stands still (`RoundEnds`). Both except the
  times at which a task of interval 0 is scheduled (`AlwaysDue`), which an application
  may ask for: such a task is due again at once by the same reading, and nothing else
  that becomes due is run.
* *AppSafety*: the registry and the schedule agree whenever nothing is being
  unregistered, and no application inherits queries or a place in `managed_fds` with the
  number of its descriptor. The latter holds as long as no other thread opens
  descriptors: see AppDoubleClose, and `OneCloseIsSafe` below. With one request id only
  the latest query of an application is ever unchained by `unregister_query` in the run;
  the others are covered by the proof (`UnregisterInv`).
* *AppLiveness*: an application that closed is cleaned up, with two exceptions that are
  both real. The daemon may be gone: a write to a closed connection raises SIGPIPE,
  which nobody ignores. And the application manager may wait for ever in its answer to
  another application, which asks and never reads: nobody else is served or cleaned up
  then (`[](am_pc = "reply")`). Nothing else stops it, neither applications that keep it
  busy nor a scheduler thread that waits in a write of its own.
* *Service*: no application sees the data of a query go back, although replies are
  filled in before they can be written and newer packets are elaborated meanwhile, and
  what it reads is at least as new as what the daemon had when it asked
  (`NeverShownOlder`). Packets reach the data in the order of their reception, and each
  writes all the fields of its sections with its own time stamp (`ImplementsStore`); the
  fields that are still to be written are counted as written there, so that this says
  nothing of what is read in between. An application that takes every reply that is not
  for its first query for one to its second prints a member that the daemon set
  (`PrintsWhatWasSet`). And although both serving threads wait for room in the socket of
  one application, and the applications wait for replies, everybody who was started
  comes to an end (`AppsEnd`), if only because the daemon is gone.

**What the violated runs show** is in `PROJECT.json` under `findings`, each with the
sentence of the repository it contradicts. In short: the semaphore is raised when the
queue is full, so it cannot protect against a spurious wakeup; lost wakeups eventually
wedge the network side; the scheduler thread may sleep past a task, since it reads its
deadline from one that may be freed; a task may run after it was unscheduled, so that an
update may go to another application, or to one that left in good order, which ends the
daemon; and a descriptor is closed twice after a read error, which may cost another
application its socket.

**Bounds.** Four slots (three usable) let the queue be empty, partly full, full and
wrapped while both threads hold a slot and one packet is left behind; a semaphore limit
just above the queue size makes saturation reachable. Two ADIRU packets, an engine
packet and an unknown packet show loss, duplication and reordering. Three handles give a
list with a first, a middle and a last node. Two milliseconds per second and two
nanoseconds per millisecond make additions carry; the intervals are shorter and longer
than a second. In Scheduler, two tasks are the least with which the memory of one is
reused while another is waiting, and the intervals are nothing, shorter and longer than
another; `Times` bounds the clock; a task may still be scheduled for later than the last
reading, and three ticks suffice to miss a run and the one after it. Two connections and
two descriptors are the least with which a descriptor changes hands while the other is
in use, two tasks the least with which memory does, and a third descriptor leaves room
for the log file. One message per inbox (`InboxMax`) suffices as messages are served one
by one, and one in a socket (`SockBuf`) makes the next write wait. Malloc fails when all
tasks are in use. In Service, two ADIRU packets let a value be old, new or half written;
app1 asks for the angle of attack, which is written in a later step than the altitude
that app4 has registered for, along with the status of an engine that never sends any,
so that a reply without data is among them; two replies (`MaxReads`, for 1000) let one
be in the socket while the next is waited for, in a socket that holds one (`SockBuf`).
`NR_ENGINES` is the least that contains the engines that are asked for. Symmetry is used
for connections and tasks, in safety runs only.

**Deadlock** is checked except in the runs of MCAppManager, MCLoggedManager and
MCService, where the daemon may be killed or exit and the applications then have nobody
to talk to, or have all come to their end.

**Fairness.** Threads are scheduled by the operating system, and every blocking call of
a thread is a guard of its step: each thread is weakly fair as a whole. The network and
the applications owe nothing; in AppManager they need not even read what is written to
them. Only `BusySpec` lets the network keep sending, which makes the violation of
PipelineWedge a fault of the daemon rather than of a silent network. In Service an
application need not be started and a packet need not come, but an application that was
started goes on, and a query that is on the schedule again and again is begun, which is
`DueIsServed` of the scheduler (hence strong fairness, one query at a time: the thread
is busy with others in between); of its two exceptions, an interval of 0 is none of the
sample applications', and a sleep that is too long ends at the time it was given. The clock is not fair: `DueIsServed` speaks of tasks
that are due by the clock as it is.

## Proofs

`tlapm` on `PacketPipelineProofs.tla`, `PipelineRefinement.tla`, `SequenceLemmas.tla`,
`SchedulerQueueProofs.tla`, `SchedulerProofs.tla`, `RegistrationProofs.tla`,
`AppManagerProofs.tla` and `ServiceProofs.tla` checks all of it: every invariant and
action property, and every refinement, that a passing run checks (`ManagedIsOpen` as a part
of `AppInv`).

*Pipeline*, for every queue size above 1, every semaphore limit of at least the
queue size, every number of engines and every set of well formed packets
(`QueueAssumption`, `DataAssumption`):

* `TypeCorrect`: `PosixSpec => []TypeOK`.  The invariant `TypeInv` adds that a slot
  pointer is set whenever a thread works through it.
* `SemaphoreCorrect`: `PosixSpec => []SemCoversQueue`.  The semaphore may saturate,
  so the proof needs that its limit is not below the number of slots, and
  (`ElabSlotClaimed`) that while the elaboration thread works on a slot there is
  one in the queue, so that freeing it makes up for the lowered semaphore.
* `NeverCrashes`, `SlotsDisjoint`, `WakeupFindsNode`: `Spec => []...`.  None of these
  is inductive.  The invariant behind them, `HolderInv`, says that the slot being
  filled and the slot a wakeup is for are two different claimed slots
  (`HoldersClaimed`: together they are no more than the occupied ones), that the
  first is the one claimed last (`FillsLast`) and the second the oldest
  (`EmptiesFirst`).  The step that signals turns the one into the other.
* `BacklogStays`: `Spec => BacklogNeverShrinks`, from the same invariant.
* `PipelineImplementsStore`: `Spec => ImplementsStore`, the abstract FIFO.  The pending
  packets are read off the slots, from the oldest that was not elaborated
  (`Oldest`) around the queue, as many as are claimed and filled (`NrPending`).
  `HolderInv` says that these fit (`PendingFits`), so that a slot cannot be counted
  twice, and that the slot being filled is the one behind them (`LastSlot`); a
  further invariant, `StampInv`, says that every other slot carries the time of its
  own packet.  Then `NetStamp` appends (`StampReceives`), `ElabElaborate` removes the
  head (`ElaborationElaborates`), and every other step, disposal included, leaves
  the sequence as it is (the `...Stutter` lemmas).

The arithmetic of the circular pointers is in `SuccIsCircular`, `DistanceMoves` and
`LastIsFirst`.

*Timespec*, for any two factors (`UnitAssumption`): `tm_ge_Compares`, `tm_incr_Adds`
and `FromMsConverts` say that the three operations on seconds and nanoseconds are
comparison, addition and multiplication of the times they stand for, and leave
normalised values.

*Scheduler queue*, for any finite set of handles, any intervals and any clock readings
(`HandleAssumption`, `UnitAssumption`; finite, because a list without an end would have
no tail):

* `QueueTypeCorrect` and `ListAlwaysWellFormed`: `Spec => []TypeOK` and
  `Spec => []ListWellFormed`.  Of well-formedness alone one cannot tell what the list is
  after a pointer was changed.  The invariant `QueueInv` therefore names the sequence of
  handles that a walk along the `next` pointers passes (`Walk`) and says that the list is
  chained in this order, forwards and backwards (`Chained`), and that it passes exactly
  the handles that were given out.  A list is chained in one order only (`WalkIsChain`),
  so it is enough to say in which order it is chained after a step:
  `insert_node` inserts where its walk stops (`InsertChains`), `remove_node` removes the
  node in its place (`RemoveChains`) and `pop` is removal in the first place
  (`PopChains`), each by cases on the ends of the list as in the code.  `Forward` is a
  recursive function on a bounded interval, and what it is along a chain
  (`ForwardFollows`) is shown with the least place where it would differ, instead of an
  induction.
* `ListIsOrderedQueue`: `Spec => ImplementsTaskQueue`.  The queue of TaskQueue is the
  walk, its times are the numbers that the timespecs stand for.  The node at which
  `insert_node` stops is the first that is due later, and so, in a queue in order, as
  many nodes from the front as TaskQueue counts (`PositionSplits`, `SplitIsDueBy`); the
  runs that were missed are skipped by the same two cases (`NextTimeReschedules`).

*Scheduler*, for every set of tasks, of intervals (0 included) and of clock readings
(`TimeAssumption`: both are natural numbers; `NoTaskAssumption`; `ClockAssumption`: the clock starts at 0):

* `TypeCorrect`, `QueueStaysInOrder` and `TasksNeverPutOff`: `Spec => []...`. A task
  that is inserted goes behind all that are due no later (`DueBySplits`,
  `InsertedInOrder`); the thread moves the first task only, by its interval or to one
  interval after its clock reading, and this reading is never ahead of the clock.
* `NoSignalIsMissed`: `Spec => NoSignalMissed`. While the thread falls asleep for a task
  that is scheduled, nobody can change the time of this task, and its memory is not
  given to another (`request.task \notin Scheduled` in `SchedInv`); whoever inserts a
  task before it signals a thread that has announced its sleep (`InsertKeepsSleep`), and
  unscheduling another task only makes it wake up early (`UnscheduleKeepsSleep`). That
  the queue is in order makes the first task stand for all of them (`FirstSuitsAll`).
  That the thread does not oversleep at all is not provable: SchedulerOversleep refutes
  it.
* `SchedulerImplementsPeriodicTasks`: `Spec => ImplementsPeriodicTasks`. The tasks on
  the schedule are the elements of the queue, so that the proof is about what insertion
  and removal do to them (`SequenceLemmas`).

*Application side*, for any connections, descriptors (natural numbers), request ids and
tasks, of which none need be finitely many (`FdAssumption`; `SocketAssumption`: a
socket takes at least one message; `ClientAssumption`: a
connection is not mistaken for a descriptor that is free):

* `RegistryStaysConsistent`: `Spec => []RegistryConsistent`. The property speaks of the
  moments when nothing is being unregistered, so the invariant `RegistryInv` follows the
  tasks in between as well: what is allocated is either on exactly one list, once, or
  waits to be freed (`LiveIsHeld`, `ListedOnce`, `VictimsUnchained`), and all of it but
  the task that is freed next is on the schedule (`LiveIsScheduled`).
* `NoQueriesInherited`: that a descriptor with queries stands for who registered them is
  kept by `accept()` since the descriptors it hands out are free, and by `close()` since
  a descriptor that is about to be closed has no queries, the first time and the second
  (`LoopPlaces`).
* `OneCloseIsSafe`: `LogSpec /\ [](closing # 2) => []ManagedIsOpen`, with the thread
  that logs. As long as no `read` fails, no descriptor is closed twice, the loop serves
  only descriptors that are managed, and so it closes only those (`ServedIsManaged`),
  while the thread that logs holds another one (`LogInv`). Without the restriction to
  one close it is false (AppDoubleClose). Without the thread the second close finds the
  descriptor still free, for nobody else opens any: this case is in `AppInv`.
* `TypeCorrect`: `Spec => []TypeOK`. What needs an argument is that the thread reads the
  query of a task only (`TaskBegun`), and that the descriptor served is one
  (`LowestIsOne`: a set of natural numbers has a least element).

*Service*, for any packets of the generator, any number of replies that an application
waits for, and queues and sockets of any size (`ServiceAssumption`: the engines that
are asked for exist, as they do with the four of `NR_ENGINES`):

* `NeverOlder`: `Spec => NeverShownOlder`.  The invariant `ServiceInv` says of every
  query that what its application knows, the replies in the socket in their order, the
  reply that is about to be written, and what the daemon holds are each as new as the
  one before (`InTurn`).  It rests on `DataInv`: all fields are of packets that are no
  newer than the one being elaborated, and this one is no newer than those pending, so
  that a field that is written only gets newer, and so a reading of it taken earlier is
  no newer than one taken later.  Two readings might still be written in
  the other order, were they taken by two threads; but an application of the repository
  either requests or registers, and so has its replies from one thread (`OneThreadEach`).
  And asking counts as knowing, so that a reply of an earlier question would be too old;
  but each query is asked once (`AsksOnce`).  Both facts are about the programs; the daemon by
  itself promises less.
* `RightMember`: `Spec => []PrintsWhatWasSet`, since every reply is one to a query of the
  application it was made for (`RepliesAre`), and each program tells its queries apart
  as far as their members differ (`QueriesDiffer`).
* `DataMovesAsStore`: `Spec => ImplementsStore`.  A field counts as written when its
  packet was taken from the queue (`Settled`), so that the packet reaches all its sections
  in the step that takes it (`TakeElaborates`) and the stores of its single fields are
  stutters (`AssignSettles`), however many locations one of them covers.  That a section
  is then of one packet, and the others stay as they were, is what the switch of
  `elaboration_thread` makes of a packet (`AssignedLocations`: all the fields of the
  sections it is for, the time stamp too, and no other).  And `main()` marks the data
  invalid when it is all zero still (`MainKeepsFields`).
* `ServiceTypeCorrect`: `Spec => []TypeOK`, from `ServiceInv` and the limits of the queue
  and the sockets (`LimitsInv`).

Model-checked only: the liveness properties (`WakeupIsServed`, `DueIsServed`, `RoundEnds`,
`ClosedIsCleanedUp`, `AppsEnd`).  They need fairness, which the prover cannot reason about.

## Not modelled

* Engine ids outside the array, and datagrams shorter than a packet.
* Socket set-up, and the exits when it, or `recvfrom`, fails.
* Partial reads from a stream socket.
* The loop over `xfds`: local sockets have no exceptional condition, and the only
  way into it, a `select` that failed, ends the process before (`AcceptFails`).
* More descriptors than `FD_SETSIZE`; a clock that is set back.
* What a sample application prints after the daemon is gone: `read()` returns 0, which it
  does not look at, and it prints the reply before, or none.
* Formatting, levels, tracing and configuration in simplog, a library of its own; `daemonize`, whose call is commented out.

## Plan

Done: the four threads, the scheduler down to its pointers, start-up, the sample
applications and the path of a value from the network to what they print; the proofs of
every safety property and of every refinement that a run checks.  What would come next:

1. **The registry's promise** - an abstract specification of who is served (a set of
   applications with their queries, from which leaving removes all at once), which Service
   uses as it is, and AppManager shown to implement it as long as nothing of a task that
   was freed is read.
2. **The safety half of liveness** - that whoever waits can be named: as invariants, what
   holds whenever a thread blocks (a round of the scheduler that only moves tasks past its
   clock reading, an application that waits for a reply and is registered), from which the
   liveness properties follow by fairness alone.
