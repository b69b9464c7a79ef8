--------------------------- MODULE PacketPipeline ---------------------------
(***************************************************************************)
(* The network side of the daemon: the fixed size circular queue           *)
(* (src/queue.c), the network thread that fills it (src/network_thread.c)  *)
(* and the elaboration thread that empties it into the internal data       *)
(* (src/elaboration_thread.c).                                             *)
(*                                                                         *)
(* A call of queue.c that holds queue_mutex is one step; the counting      *)
(* semaphore is lowered outside the mutex and is a step of its own.  The   *)
(* slot is claimed, and the semaphore raised, BEFORE recvfrom() fills it:  *)
(* what keeps the consumer off that slot is the condition variable, which  *)
(* the network thread signals without a mutex and the elaboration thread   *)
(* waits on without a predicate.                                           *)
(***************************************************************************)
EXTENDS InternalData

CONSTANTS SIZE_QUEUE,     \* slots of the circular queue, fixed at compile time
          SEM_VALUE_MAX   \* where sem_post() stops counting

ASSUME QueueAssumption ==
  /\ SIZE_QUEUE \in Nat /\ SIZE_QUEUE > 1
  /\ SEM_VALUE_MAX \in Nat /\ SEM_VALUE_MAX >= SIZE_QUEUE

VARIABLES in_ptr,           \* next slot to claim
          out_ptr,          \* next slot to elaborate
          nodes,            \* the slots
          nr_nodes_queue,   \* value of the semaphore
          net_pc,           \* where the network thread is
          net_node,         \* the slot it was given, or NULL
          elab_pc,          \* where the elaboration thread is
          elab_node,        \* the slot it was given, or NULL
          intdata           \* the internal data

queueVars == <<in_ptr, out_ptr, nodes, nr_nodes_queue>>
netVars   == <<net_pc, net_node>>
elabVars  == <<elab_pc, elab_node>>
vars      == <<queueVars, netVars, elabVars, intdata>>

Slots == 0 .. SIZE_QUEUE - 1
NULL  == -1

NetPc  == {"claim", "receive", "stamp", "signal"}
ElabPc == {"start", "wait", "woken", "take", "elaborate", "dispose", "crashed"}

TypeOK ==
  /\ in_ptr \in Slots
  /\ out_ptr \in Slots
  /\ nodes \in [Slots -> Node]
  /\ nr_nodes_queue \in 0 .. SEM_VALUE_MAX
  /\ net_pc \in NetPc
  /\ net_node \in Slots \cup {NULL}
  /\ elab_pc \in ElabPc
  /\ elab_node \in Slots \cup {NULL}
  /\ intdata \in IntDataType

Init ==
  /\ in_ptr = 0
  /\ out_ptr = 0
  /\ nodes = [s \in Slots |-> ZeroNode]
  /\ nr_nodes_queue = 0
  /\ net_pc = "claim"
  /\ net_node = NULL
  /\ elab_pc = "start"
  /\ elab_node = NULL
  /\ intdata = InvalidData

\* A thread that dereferences NULL takes the whole process down.
Running == elab_pc # "crashed"

-----------------------------------------------------------------------------
(* queue.c *)

\* An increment that does not wrap around.
Succ_NoWrap(ptr) == ptr + 1

Succ(ptr) == (ptr + 1) % SIZE_QUEUE

Full  == Succ(in_ptr) = out_ptr
Empty == in_ptr = out_ptr

\* Nobody looks at the result of sem_post(): at its maximum the value stays.
SemPost(value) == IF value < SEM_VALUE_MAX THEN value + 1 ELSE value

\* A producer that does not raise the semaphore for the slot before the last.
next_nqnode_in_NoPost ==
  /\ \/ Full /\ net_node' = NULL /\ UNCHANGED in_ptr
     \/ ~Full /\ net_node' = in_ptr /\ in_ptr' = Succ(in_ptr)
  /\ nr_nodes_queue' = IF Empty THEN SemPost(nr_nodes_queue) ELSE nr_nodes_queue
  /\ UNCHANGED <<out_ptr, nodes>>

\* The semaphore is raised whether or not there was a slot to hand out.
next_nqnode_in ==
  /\ \/ Full /\ net_node' = NULL /\ UNCHANGED in_ptr
     \/ ~Full /\ net_node' = in_ptr /\ in_ptr' = Succ(in_ptr)
  /\ nr_nodes_queue' = SemPost(nr_nodes_queue)
  /\ UNCHANGED <<out_ptr, nodes>>

\* The part of next_nqnode_out() before the mutex: lower the semaphore.
next_nqnode_out_wait ==
  /\ nr_nodes_queue > 0
  /\ nr_nodes_queue' = nr_nodes_queue - 1

\* A consumer that frees the slot when it takes it.
next_nqnode_out_Early ==
  /\ elab_node' = IF Empty THEN NULL ELSE out_ptr
  /\ out_ptr' = IF Empty THEN out_ptr ELSE Succ(out_ptr)
  /\ UNCHANGED <<in_ptr, nodes, nr_nodes_queue>>

\* The part under the mutex: the oldest slot, which stays in the queue.
next_nqnode_out ==
  /\ elab_node' = IF Empty THEN NULL ELSE out_ptr
  /\ UNCHANGED queueVars

\* A consumer that drops everything it finds when it is done with a node.
dispose_last_nqnode_Flush ==
  /\ out_ptr' = in_ptr
  /\ UNCHANGED <<in_ptr, nodes, nr_nodes_queue>>

dispose_last_nqnode ==
  /\ out_ptr' = IF Empty THEN out_ptr ELSE Succ(out_ptr)
  /\ UNCHANGED <<in_ptr, nodes, nr_nodes_queue>>

-----------------------------------------------------------------------------
(* network_thread.c *)

\* Ask for a slot; without one the loop asks again at once.
NetClaim ==
  /\ Running /\ net_pc = "claim"
  /\ next_nqnode_in
  /\ net_pc' = IF net_node' = NULL THEN "claim" ELSE "receive"
  /\ UNCHANGED <<elabVars, intdata>>

\* recvfrom() returns with a datagram in the slot.
NetReceive(p) ==
  /\ Running /\ net_pc = "receive"
  /\ nodes' = [nodes EXCEPT ![net_node].packet = p]
  /\ net_pc' = "stamp"
  /\ UNCHANGED <<in_ptr, out_ptr, nr_nodes_queue, net_node, elabVars, intdata>>

\* Reception time of the datagram.
NetStamp ==
  /\ Running /\ net_pc = "stamp"
  /\ nodes' = [nodes EXCEPT ![net_node].last_update = nodes[net_node].packet]
  /\ net_pc' = "signal"
  /\ UNCHANGED <<in_ptr, out_ptr, nr_nodes_queue, net_node, elabVars, intdata>>

\* wakeup_elaboration_thread(): wakes the thread if it is waiting now, and is
\* lost otherwise.
wakeup_elaboration_thread ==
  elab_pc' = IF elab_pc = "wait" THEN "woken" ELSE elab_pc

NetSignal ==
  /\ Running /\ net_pc = "signal"
  /\ wakeup_elaboration_thread
  /\ net_pc' = "claim"
  /\ UNCHANGED <<queueVars, net_node, elab_node, intdata>>

-----------------------------------------------------------------------------
(* elaboration_thread.c *)

\* pthread_cond_wait() with no predicate around it.  No other thread takes
\* sync_elab_net_mutex, so waking up never waits for it.
ElabWait ==
  /\ elab_pc = "start"
  /\ elab_pc' = "wait"
  /\ UNCHANGED <<queueVars, netVars, elab_node, intdata>>

ElabSemWait ==
  /\ elab_pc = "woken"
  /\ next_nqnode_out_wait
  /\ elab_pc' = "take"
  /\ UNCHANGED <<in_ptr, out_ptr, nodes, netVars, elab_node, intdata>>

\* The slot is taken and its identifier read: a NULL node is dereferenced.
ElabTake ==
  /\ elab_pc = "take"
  /\ next_nqnode_out
  /\ elab_pc' = IF elab_node' = NULL THEN "crashed" ELSE "elaborate"
  /\ UNCHANGED <<netVars, intdata>>

ElabElaborate ==
  /\ elab_pc = "elaborate"
  /\ intdata' = Elaborated(intdata, nodes[elab_node])
  /\ elab_pc' = "dispose"
  /\ UNCHANGED <<queueVars, netVars, elab_node>>

ElabDispose ==
  /\ elab_pc = "dispose"
  /\ dispose_last_nqnode
  /\ elab_pc' = "start"
  /\ UNCHANGED <<netVars, elab_node, intdata>>

\* POSIX lets pthread_cond_wait() return without a signal.
SpuriousWakeup ==
  /\ elab_pc = "wait"
  /\ elab_pc' = "woken"
  /\ UNCHANGED <<queueVars, netVars, elab_node, intdata>>

-----------------------------------------------------------------------------
\* What the network thread does by itself, and with the network.
NetThread  == NetClaim \/ NetStamp \/ NetSignal
ElabThread == ElabWait \/ ElabSemWait \/ ElabTake \/ ElabElaborate \/ ElabDispose
Network    == \E p \in Packets : NetReceive(p)

Next      == NetThread \/ ElabThread \/ Network
PosixNext == Next \/ SpuriousWakeup

\* The system when the condition variable returns only for a signal, and when
\* it may do all that POSIX allows.
Spec      == Init /\ [][Next]_vars
PosixSpec == Init /\ [][PosixNext]_vars

\* Both threads are scheduled; the network owes nothing ...
Fairness == WF_vars(NetThread) /\ WF_vars(ElabThread)
FairSpec == Spec /\ Fairness
\* ... or keeps sending.
BusySpec == FairSpec /\ WF_vars(Network)

-----------------------------------------------------------------------------
\* Steps from one slot to another around the queue.
Distance(from, to) == IF from <= to THEN to - from ELSE to - from + SIZE_QUEUE

\* Number of claimed slots.
Occupied == Distance(out_ptr, in_ptr)

\* A claimed slot may be the one the network thread is filling, or the one a
\* wakeup of the elaboration thread is for.
NetHolds  == IF net_pc = "claim" THEN 0 ELSE 1
ElabHolds == IF elab_pc \in {"start", "wait"} THEN 0 ELSE 1

\* What the elaboration thread took off the semaphore and not yet off the queue.
Lowered == IF elab_pc \in {"take", "elaborate", "dispose"} THEN 1 ELSE 0

\* Packets that were received and signalled, and that no wakeup is under way for.
Backlog == Occupied - NetHolds - ElabHolds

\* queue.c says of the NULL that next_nqnode_out() returns that "This should
\* never happen when using the semaphore": the elaboration thread, which does
\* not test for it, never gets a NULL node.
NodeNeverNull == elab_pc # "crashed"

\* The elaboration thread works on its slot outside the mutex, and so does the
\* network thread: they are never given the same slot.
NoSlotRace ==
  net_pc # "claim" /\ elab_pc \in {"elaborate", "dispose"} => net_node # elab_node

\* The semaphore covers every claimed slot but the one the elaboration thread
\* lowered it for, whatever the wakeups: it is never the reason why a packet
\* that is in the queue is not taken.
SemCoversQueue == nr_nodes_queue + Lowered >= Occupied

\* A thread that was woken up finds a node: the semaphore does not block it.
WokenFindsNode == elab_pc = "woken" => nr_nodes_queue > 0 /\ ~Empty

\* One wakeup elaborates one packet and a wakeup that finds the thread busy is
\* lost, so the packets left behind are never caught up with, however quiet the
\* network becomes: every lost wakeup takes a slot away for good.
BacklogNeverShrinks == [][Backlog' >= Backlog]_vars

\* Every wakeup that reaches the elaboration thread makes it elaborate a packet
\* and come back for the next.
WakeupIsServed == elab_pc = "woken" ~> elab_pc = "wait"

\* "Thread must block here until there are messages": if it blocks while there
\* are messages, then not for ever.
BlocksOnlyUntilMessages == (elab_pc = "wait" /\ Backlog > 0) ~> (elab_pc # "wait")

-----------------------------------------------------------------------------
(* The pipeline implements the packet store. *)

\* The slot of the oldest packet that was not elaborated.
Oldest == IF elab_pc = "dispose" THEN Succ(out_ptr) ELSE out_ptr

\* The claimed slots but the one that was elaborated and the one being filled.
NrPending == Occupied - (IF elab_pc = "dispose" THEN 1 ELSE 0)
                      - (IF net_pc \in {"receive", "stamp"} THEN 1 ELSE 0)

\* The k-th slot from there around the queue.
SlotAt(from, k) == (from + k - 1) % SIZE_QUEUE

\* Packets that were received, stamped and not elaborated, oldest first.
PendingPackets == [k \in 1 .. NrPending |-> nodes[SlotAt(Oldest, k)].packet]

Store == INSTANCE PacketStore WITH Capacity <- SIZE_QUEUE - 1,
                                   pending  <- PendingPackets,
                                   data     <- intdata

\* Packets are elaborated in order of reception, once each, with the time of
\* their own reception, and no slot is reused before its packet was elaborated.
ImplementsStore == Store!StoreSpec

=============================================================================
