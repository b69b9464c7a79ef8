--------------------------- MODULE SchedulerQueue ---------------------------
(***************************************************************************)
(* The queue operations of src/scheduler.c at the level of the C code: a   *)
(* doubly linked list with a first and a last pointer, timespecs, and      *)
(* memory that is reused after free().  Every action is a critical section *)
(* of scheduler_mutex; Scheduler models what happens between them.         *)
(***************************************************************************)
EXTENDS Timespec, FiniteSets

CONSTANTS Handles,     \* addresses malloc() may return for a node
          Intervals,   \* the intervals applications ask for, in milliseconds
          Clock,       \* readings of CLOCK_REALTIME
          NULL

ASSUME HandleAssumption ==
  /\ IsFiniteSet(Handles) /\ NULL \notin Handles
  /\ Intervals \subseteq Nat
  /\ Clock \subseteq timespec_t

VARIABLES first, last,   \* ends of the list
          nodes,         \* memory of the nodes
          allocated      \* the handles schedule_ts() returned and nobody freed

vars == <<first, last, nodes, allocated>>

Pointer == Handles \cup {NULL}
Node    == [interval : timespec_t, next_time : timespec_t,
            prev : Pointer, next : Pointer]

Zero     == [tv_sec |-> 0, tv_nsec |-> 0]
ZeroNode == [interval |-> Zero, next_time |-> Zero, prev |-> NULL, next |-> NULL]

TypeOK ==
  /\ first \in Pointer /\ last \in Pointer
  /\ nodes \in [Handles -> Node]
  /\ allocated \subseteq Handles

Init ==
  /\ first = NULL /\ last = NULL
  /\ nodes = [h \in Handles |-> ZeroNode]
  /\ allocated = {}

-----------------------------------------------------------------------------
(* A list is a record of the two ends and the memory; each operation maps  *)
(* the list it is called on to the one it leaves behind.                   *)

List == [first |-> first, last |-> last, nodes |-> nodes]

\* Where k steps along the next pointers lead.
Forward(list) ==
  LET at[k \in 0 .. Cardinality(Handles)] ==
        IF k = 0 THEN list.first
        ELSE IF at[k - 1] = NULL THEN NULL ELSE list.nodes[at[k - 1]].next
  IN at

\* The number of nodes that a walk along the next pointers passes.
Length(list) ==
  Cardinality({k \in 0 .. Cardinality(Handles) - 1 : Forward(list)[k] # NULL})

\* The number of nodes insert_node() walks past before it finds one that node
\* goes before, or the end.
Position(list, node) ==
  LET time == list.nodes[node].next_time
  IN Cardinality({k \in 0 .. Length(list) - 1 :
                    \A j \in 0 .. k :
                      tm_ge(time, list.nodes[Forward(list)[j]].next_time)})

\* An insertion in the middle that leaves the neighbour's back pointer alone.
insert_node_OneWay(list, node) ==
  LET at == Forward(list)
      k  == Position(list, node)
      prev_node == IF k = 0 THEN NULL ELSE at[k - 1]
      next_node == at[k]
  IN [first |-> IF k = 0 THEN node ELSE list.first,
      last  |-> IF next_node = NULL THEN node ELSE list.last,
      nodes |-> [h \in Handles |->
                   CASE h = node -> [list.nodes[h] EXCEPT !.prev = prev_node,
                                                          !.next = next_node]
                     [] h = prev_node -> [list.nodes[h] EXCEPT !.next = node]
                     [] OTHER -> list.nodes[h]]]

\* Chain node between the last one that is due no later and the first later one.
insert_node(list, node) ==
  LET at == Forward(list)
      k  == Position(list, node)
      next_node == at[k]
      prev_node == IF next_node = NULL THEN list.last
                   ELSE IF k = 0 THEN NULL ELSE at[k - 1]
  IN [first |-> IF k = 0 THEN node ELSE list.first,
      last  |-> IF next_node = NULL THEN node ELSE list.last,
      nodes |-> [h \in Handles |->
                   CASE h = node -> [list.nodes[h] EXCEPT !.prev = prev_node,
                                                          !.next = next_node]
                     [] h = prev_node -> [list.nodes[h] EXCEPT !.next = node]
                     [] h = next_node -> [list.nodes[h] EXCEPT !.prev = node]
                     [] OTHER -> list.nodes[h]]]

\* Chain the neighbours of node with each other; node keeps its pointers.
remove_node(list, node) ==
  LET prev == list.nodes[node].prev
      next == list.nodes[node].next
  IN [first |-> IF prev = NULL THEN next ELSE list.first,
      last  |-> IF next = NULL THEN prev ELSE list.last,
      nodes |-> [h \in Handles |->
                   CASE h = prev -> [list.nodes[h] EXCEPT !.next = next]
                     [] h = next -> [list.nodes[h] EXCEPT !.prev = prev]
                     [] OTHER -> list.nodes[h]]]

\* Unchain the first node of a list that has one.
pop(list) ==
  LET rest == list.nodes[list.first].next
  IN [first |-> rest,
      last  |-> IF rest = NULL THEN NULL ELSE list.last,
      nodes |-> [h \in Handles |->
                   IF h = rest THEN [list.nodes[h] EXCEPT !.prev = NULL]
                   ELSE list.nodes[h]]]

SetList(list) ==
  /\ first' = list.first
  /\ last' = list.last
  /\ nodes' = list.nodes

-----------------------------------------------------------------------------
\* The pointers of memory fresh from malloc() are not initialised.  When there is
\* no memory the process exits and there is no list any more: see NoMemory of
\* Registration.
schedule(handle, ms, now) ==
  LET filled == [nodes EXCEPT ![handle].interval = FromMs(ms),
                              ![handle].next_time = tm_incr(now, FromMs(ms))]
  IN /\ handle \notin allocated
     /\ allocated' = allocated \cup {handle}
     /\ SetList(insert_node([List EXCEPT !.nodes = filled], handle))

unschedule(handle) ==
  /\ handle \in allocated
  /\ allocated' = allocated \ {handle}
  /\ SetList(remove_node(List, handle))

\* When node is to run again, with the runs it missed skipped.
NextTime(node, now) ==
  LET incremented == tm_incr(node.next_time, node.interval)
  IN IF tm_ge(now, incremented) THEN tm_incr(now, node.interval) ELSE incremented

\* scheduler_run() with the mutex, when the first node is due.
run_first(now) ==
  /\ first # NULL
  /\ tm_ge(now, nodes[first].next_time)
  /\ LET popped == pop(List)
         node   == first
         again  == [popped.nodes EXCEPT ![node].next_time = NextTime(nodes[node], now)]
     IN SetList(insert_node([popped EXCEPT !.nodes = again], node))
  /\ UNCHANGED allocated

Next ==
  \/ \E handle \in Handles, ms \in Intervals, now \in Clock : schedule(handle, ms, now)
  \/ \E handle \in Handles : unschedule(handle)
  \/ \E now \in Clock : run_first(now)

Spec == Init /\ [][Next]_vars

-----------------------------------------------------------------------------
\* The list can be unchained from either side: each node's back pointer names
\* the node whose forward pointer names it, the ends are where the walk starts
\* and stops, and the handles the applications hold are exactly the nodes on
\* the walk, so that no handle that unschedule() may get is off the list.
ListWellFormed ==
  LET at == Forward(List)
      n  == Length(List)
  IN /\ {at[k] : k \in 0 .. n - 1} = allocated
     /\ Cardinality(allocated) = n
     /\ last = IF n = 0 THEN NULL ELSE at[n - 1]
     /\ \A k \in 0 .. n - 1 :
          nodes[at[k]].prev = IF k = 0 THEN NULL ELSE at[k - 1]

\* The linked list of timespecs implements the ordered sequence of tasks.
Tasks == INSTANCE TaskQueue
  WITH Tasks     <- Handles,
       Intervals <- {ms * NS_PER_MS : ms \in Intervals},
       Times     <- {Value(now) : now \in Clock},
       queue     <- [k \in 1 .. Length(List) |-> Forward(List)[k - 1]],
       next_time <- [h \in Handles |-> Value(nodes[h].next_time)],
       interval  <- [h \in Handles |-> Value(nodes[h].interval)]

\* Whatever is scheduled, unscheduled and run, the first node is the one that
\* is due first, ties in order of arrival, runs that were missed are skipped,
\* and nothing but the node concerned moves.
ImplementsTaskQueue == Tasks!TaskSpec

=============================================================================
