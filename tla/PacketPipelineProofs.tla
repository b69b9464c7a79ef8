------------------------ MODULE PacketPipelineProofs ------------------------
(***************************************************************************)
(* Machine-checked proofs about PacketPipeline, for every queue size, every *)
(* semaphore limit at least as large, and every set of packets.            *)
(*                                                                         *)
(* TypeOK and SemCoversQueue survive spurious wakeups (PosixSpec).  The    *)
(* rest needs a condition variable that returns for signals only (Spec);   *)
(* the invariant behind it is HolderInv: the slots the two threads are     *)
(* busy with are among the claimed ones.                                   *)
(***************************************************************************)
EXTENDS PacketPipeline, TLAPS

\* The circular increment stays in the queue, and is the plain increment with
\* a wrap at the end.
LEMMA SuccIsCircular ==
  ASSUME NEW s \in Slots
  PROVE  /\ Succ(s) \in Slots
         /\ Succ(s) = IF s = SIZE_QUEUE - 1 THEN 0 ELSE s + 1
<1>1. CASE s = SIZE_QUEUE - 1
  BY <1>1, QueueAssumption DEF Succ, Slots
<1>2. CASE s # SIZE_QUEUE - 1
  <2>1. s + 1 \in 0 .. SIZE_QUEUE - 1
    BY <1>2, QueueAssumption DEF Slots
  <2>2. (s + 1) % SIZE_QUEUE = s + 1
    BY <2>1, QueueAssumption
  <2>3. QED
    BY <1>2, <2>1, <2>2 DEF Succ, Slots
<1>3. QED
  BY <1>1, <1>2


\* What a packet does to the internal data leaves the internal data well typed.
LEMMA ElaboratedType ==
  ASSUME NEW data \in IntDataType, NEW node \in Node
  PROVE  Elaborated(data, node) \in IntDataType
<1>1. CASE node.packet.identifier = AFDX_PACKET_TYPE_ADIRU
  BY <1>1 DEF Elaborated, IntDataType
<1>2. CASE node.packet.identifier = AFDX_PACKET_TYPE_ENGINE
  <2>1. node.packet # ZeroPacket
    BY <1>2 DEF ZeroPacket, AFDX_PACKET_TYPE_UNKNOWN, AFDX_PACKET_TYPE_ENGINE
  <2>2. node.packet \in Packets
    BY <2>1 DEF Node, AnyPacket
  <2>3. node.packet.engine_id \in Engines
    BY <1>2, <2>2, DataAssumption
  <2>4. Elaborated(data, node)
          = [data EXCEPT !.engines[node.packet.engine_id] = node]
    BY <1>2 DEF Elaborated, AFDX_PACKET_TYPE_ADIRU, AFDX_PACKET_TYPE_ENGINE
  <2>5. [data.engines EXCEPT ![node.packet.engine_id] = node] \in [Engines -> Node]
    BY <2>3 DEF IntDataType
  <2>6. QED
    BY <2>4, <2>5 DEF IntDataType
<1>3. CASE /\ node.packet.identifier # AFDX_PACKET_TYPE_ADIRU
           /\ node.packet.identifier # AFDX_PACKET_TYPE_ENGINE
  BY <1>3 DEF Elaborated
<1>4. QED
  BY <1>1, <1>2, <1>3

-----------------------------------------------------------------------------
(* Type correctness, spurious wakeups included. *)

\* A slot pointer is set whenever a thread is about to write or read through it.
PointersSet ==
  /\ net_pc # "claim" => net_node \in Slots
  /\ elab_pc \in {"elaborate", "dispose"} => elab_node \in Slots

TypeInv == TypeOK /\ PointersSet

LEMMA InitTypeInv == Init => TypeInv
<1> SUFFICES ASSUME Init PROVE TypeInv
  OBVIOUS
<1>1. 0 \in Slots /\ 0 \in 0 .. SEM_VALUE_MAX
  BY QueueAssumption DEF Slots
<1>2. ZeroNode \in Node
  BY DEF ZeroNode, Node, AnyPacket
<1>3. InvalidData \in IntDataType
  BY <1>2 DEF InvalidData, IntDataType
<1>4. nodes \in [Slots -> Node]
  BY <1>2 DEF Init
<1>5. QED
  BY <1>1, <1>3, <1>4 DEF Init, TypeInv, TypeOK, PointersSet, NetPc, ElabPc

LEMMA NextTypeInv == TypeInv /\ [PosixNext]_vars => TypeInv'
<1> SUFFICES ASSUME TypeInv, [PosixNext]_vars PROVE TypeInv'
  OBVIOUS
<1> USE DEF TypeInv, TypeOK, PointersSet, NetPc, ElabPc
<1>0. NULL \notin Slots /\ NULL = -1
  BY DEF NULL, Slots
<1>1. CASE NetClaim
  <2>1. Succ(in_ptr) \in Slots
    BY SuccIsCircular
  <2>2. in_ptr' \in Slots /\ net_node' \in Slots \cup {NULL}
    BY <1>1, <2>1 DEF NetClaim, next_nqnode_in
  <2>3. nr_nodes_queue' \in 0 .. SEM_VALUE_MAX
    BY <1>1, QueueAssumption DEF NetClaim, next_nqnode_in, SemPost
  <2>4. QED
    BY <1>1, <2>2, <2>3 DEF NetClaim, next_nqnode_in, elabVars
<1>2. ASSUME NEW p \in Packets, NetReceive(p) PROVE TypeInv'
  <2>1. [nodes[net_node] EXCEPT !.packet = p] \in Node
    BY <1>2 DEF NetReceive, Node, AnyPacket
  <2>2. nodes' = [nodes EXCEPT ![net_node] = [nodes[net_node] EXCEPT !.packet = p]]
    BY <1>2 DEF NetReceive
  <2>3. nodes' \in [Slots -> Node]
    BY <2>1, <2>2
  <2>4. QED
    BY <1>2, <2>3 DEF NetReceive, elabVars
<1>3. CASE NetStamp
  <2>1. [nodes[net_node] EXCEPT !.last_update = nodes[net_node].packet] \in Node
    BY <1>3 DEF NetStamp, Node
  <2>2. nodes' = [nodes EXCEPT ![net_node] =
                    [nodes[net_node] EXCEPT !.last_update = nodes[net_node].packet]]
    BY <1>3 DEF NetStamp
  <2>3. nodes' \in [Slots -> Node]
    BY <2>1, <2>2
  <2>4. QED
    BY <1>3, <2>3 DEF NetStamp, elabVars
<1>4. CASE NetSignal
  BY <1>4 DEF NetSignal, wakeup_elaboration_thread, queueVars
<1>5. CASE ElabWait
  BY <1>5 DEF ElabWait, queueVars, netVars
<1>6. CASE ElabSemWait
  BY <1>6, QueueAssumption DEF ElabSemWait, next_nqnode_out_wait, netVars
<1>7. CASE ElabTake
  BY <1>7, <1>0 DEF ElabTake, next_nqnode_out, queueVars, netVars
<1>8. CASE ElabElaborate
  <2>1. intdata' \in IntDataType
    BY <1>8, ElaboratedType DEF ElabElaborate
  <2>2. QED
    BY <1>8, <2>1 DEF ElabElaborate, queueVars, netVars
<1>9. CASE ElabDispose
  <2>1. out_ptr' \in Slots
    BY <1>9, SuccIsCircular DEF ElabDispose, dispose_last_nqnode
  <2>2. QED
    BY <1>9, <2>1 DEF ElabDispose, dispose_last_nqnode, netVars
<1>10. CASE SpuriousWakeup
  BY <1>10 DEF SpuriousWakeup, queueVars, netVars
<1>11. CASE UNCHANGED vars
  BY <1>11 DEF vars, queueVars, netVars, elabVars
<1>12. QED
  BY <1>1, <1>2, <1>3, <1>4, <1>5, <1>6, <1>7, <1>8, <1>9, <1>10, <1>11
     DEF PosixNext, Next, NetThread, ElabThread, Network

\* The slot pointers are set when used.
LEMMA TypeInvariant == PosixSpec => []TypeInv
  BY InitTypeInv, NextTypeInv, PTL DEF PosixSpec

\* Every variable of the pipeline keeps its type, spurious wakeups included.
THEOREM TypeCorrect == PosixSpec => []TypeOK
<1>1. TypeInv => TypeOK
  BY DEF TypeInv
<1>2. QED
  BY <1>1, TypeInvariant, PTL

-----------------------------------------------------------------------------
(* How many slots are claimed. *)

\* The number of claimed slots as the two pointers move around the queue.
LEMMA DistanceMoves ==
  ASSUME NEW o \in Slots, NEW i \in Slots
  PROVE  /\ Distance(o, i) \in Slots
         /\ Distance(o, i) = 0 <=> o = i
         /\ Succ(i) # o => Distance(o, Succ(i)) = Distance(o, i) + 1
         /\ o # i => Distance(Succ(o), i) = Distance(o, i) - 1
  BY SuccIsCircular, QueueAssumption DEF Distance, Slots

\* The claimed slot before the in pointer is the oldest one only if there is no
\* other.
LEMMA LastIsFirst ==
  ASSUME NEW o \in Slots, NEW i \in Slots, NEW s \in Slots, Succ(s) = i, s = o
  PROVE  Distance(o, i) = 1
  BY SuccIsCircular, QueueAssumption DEF Distance, Slots

-----------------------------------------------------------------------------
(* The semaphore covers the queue, spurious wakeups included. *)

\* Elaboration frees the slot the semaphore was lowered for: that slot is still
\* claimed.
ElabSlotClaimed == elab_pc \in {"elaborate", "dispose"} => ~Empty

SemInv == SemCoversQueue /\ ElabSlotClaimed

LEMMA InitSemInv == Init => SemInv
  BY QueueAssumption
     DEF Init, SemInv, SemCoversQueue, ElabSlotClaimed, Occupied, Distance, Lowered

LEMMA NextSemInv == TypeInv /\ SemInv /\ [PosixNext]_vars => SemInv'
<1> SUFFICES ASSUME TypeInv, SemInv, [PosixNext]_vars PROVE SemInv'
  OBVIOUS
<1> USE DEF SemInv, SemCoversQueue, ElabSlotClaimed, Empty
<1>0. /\ in_ptr \in Slots /\ out_ptr \in Slots
      /\ nr_nodes_queue \in 0 .. SEM_VALUE_MAX
      /\ Occupied \in Slots
      /\ Lowered \in 0 .. 1
  BY DistanceMoves DEF TypeInv, TypeOK, Occupied, Lowered
<1>a. CASE UNCHANGED <<in_ptr, out_ptr, nr_nodes_queue, elab_pc>>
  BY <1>a DEF Occupied, Lowered
<1>1. CASE NetClaim
  <2>1. elab_pc' = elab_pc /\ out_ptr' = out_ptr
    BY <1>1 DEF NetClaim, next_nqnode_in, elabVars
  <2>2. CASE Full
    <3>1. in_ptr' = in_ptr
      BY <1>1, <2>2 DEF NetClaim, next_nqnode_in
    <3>2. \/ nr_nodes_queue' = nr_nodes_queue + 1
          \/ nr_nodes_queue' = nr_nodes_queue
      BY <1>0, <1>1, QueueAssumption DEF NetClaim, next_nqnode_in, SemPost
    <3>3. Occupied' = Occupied
      BY <2>1, <3>1 DEF Occupied
    <3>4. SemCoversQueue'
      <4>1. Lowered' = Lowered
        BY <2>1 DEF Lowered
      <4>2. nr_nodes_queue + Lowered >= Occupied
        OBVIOUS
      <4>3. nr_nodes_queue' + Lowered >= Occupied
        BY <1>0, <3>2, <4>2, QueueAssumption DEF Slots
      <4>4. QED
        BY <3>3, <4>1, <4>3
    <3>5. QED
      BY <2>1, <3>1, <3>4
  <2>3. CASE ~Full
    <3>1. in_ptr' = Succ(in_ptr) /\ Succ(in_ptr) # out_ptr
      BY <1>1, <2>3 DEF NetClaim, next_nqnode_in, Full
    <3>2. Occupied' = Occupied + 1 /\ Occupied' \in Slots
      BY <1>0, <2>1, <3>1, DistanceMoves, SuccIsCircular DEF Occupied
    <3>3. Lowered' = Lowered
      BY <2>1 DEF Lowered
    <3>4. \/ nr_nodes_queue' = nr_nodes_queue + 1
          \/ nr_nodes_queue' = SEM_VALUE_MAX
      BY <1>0, <1>1, QueueAssumption DEF NetClaim, next_nqnode_in, SemPost
    <3>5. SemCoversQueue'
      BY <1>0, <3>2, <3>3, <3>4, QueueAssumption DEF Slots
    <3>6. Occupied' # 0 /\ out_ptr' \in Slots /\ in_ptr' \in Slots
      BY <1>0, <2>1, <3>1, <3>2, SuccIsCircular DEF Slots
    <3>7. QED
      BY <3>5, <3>6, DistanceMoves DEF Occupied
  <2>4. QED
    BY <2>2, <2>3
<1>2. ASSUME NEW p \in Packets, NetReceive(p) PROVE SemInv'
  BY <1>a, <1>2 DEF NetReceive, elabVars
<1>3. CASE NetStamp
  BY <1>a, <1>3 DEF NetStamp, elabVars
<1>4. CASE NetSignal
  BY <1>0, <1>4 DEF NetSignal, wakeup_elaboration_thread, queueVars, Occupied, Lowered
<1>5. CASE ElabWait
  BY <1>0, <1>5 DEF ElabWait, queueVars, Occupied, Lowered
<1>6. CASE ElabSemWait
  <2>1. Occupied' = Occupied /\ Lowered = 0 /\ Lowered' = 1
    BY <1>6 DEF ElabSemWait, Occupied, Lowered
  <2>2. QED
    BY <1>0, <1>6, <2>1, QueueAssumption DEF ElabSemWait, next_nqnode_out_wait, Slots
<1>7. CASE ElabTake
  <2>1. UNCHANGED <<in_ptr, out_ptr, nr_nodes_queue>> /\ Occupied' = Occupied
    BY <1>7 DEF ElabTake, next_nqnode_out, queueVars, Occupied, Lowered
  <2>2. CASE Empty
    <3>1. elab_pc' = "crashed" /\ Occupied = 0 /\ Lowered' = 0
      BY <1>0, <1>7, <2>2, DistanceMoves
         DEF ElabTake, next_nqnode_out, Occupied, Lowered
    <3>2. QED
      BY <1>0, <2>1, <3>1, QueueAssumption
  <2>3. CASE ~Empty
    <3>1. elab_pc = "take" /\ elab_pc' = "elaborate" /\ Lowered' = Lowered
      BY <1>0, <1>7, <2>3 DEF ElabTake, next_nqnode_out, NULL, Slots, Lowered
    <3>2. QED
      BY <1>0, <2>1, <2>3, <3>1
  <2>4. QED
    BY <2>2, <2>3
<1>8. CASE ElabElaborate
  BY <1>0, <1>8 DEF ElabElaborate, queueVars, Occupied, Lowered
<1>9. CASE ElabDispose
  <2>1. /\ in_ptr' = in_ptr /\ nr_nodes_queue' = nr_nodes_queue
        /\ out_ptr' = Succ(out_ptr)
        /\ elab_pc = "dispose" /\ elab_pc' = "start"
        /\ Lowered = 1 /\ Lowered' = 0
    BY <1>9 DEF ElabDispose, dispose_last_nqnode, Lowered
  <2>2. Occupied' = Occupied - 1
    BY <1>0, <1>9, <2>1, DistanceMoves DEF Occupied
  <2>3. QED
    BY <1>0, <2>1, <2>2, QueueAssumption DEF Slots
<1>10. CASE SpuriousWakeup
  BY <1>0, <1>10 DEF SpuriousWakeup, queueVars, Occupied, Lowered
<1>11. CASE UNCHANGED vars
  BY <1>a, <1>11 DEF vars, queueVars, elabVars
<1>12. QED
  BY <1>1, <1>2, <1>3, <1>4, <1>5, <1>6, <1>7, <1>8, <1>9, <1>10, <1>11
     DEF PosixNext, Next, NetThread, ElabThread, Network

\* Whatever the wakeups, the semaphore never hides a claimed slot.
THEOREM SemaphoreCorrect == PosixSpec => []SemCoversQueue
<1>1. SemInv => SemCoversQueue
  BY DEF SemInv
<1>2. QED
  BY <1>1, InitSemInv, NextSemInv, TypeInvariant, PTL DEF PosixSpec

-----------------------------------------------------------------------------
(* The slots the two threads are busy with, without spurious wakeups. *)

\* Without spurious wakeups the system is a special case of what POSIX allows.
LEMMA SpecIsPosix == Spec => PosixSpec
<1>1. [Next]_vars => [PosixNext]_vars
  BY DEF PosixNext
<1>2. QED
  BY <1>1, PTL DEF Spec, PosixSpec

\* The slot being filled and the slot the elaboration thread was woken for are
\* two of the claimed ones; the first is the last claimed, the second the oldest.
HoldersClaimed == NetHolds + ElabHolds <= Occupied
FillsLast      == net_pc # "claim" => Succ(net_node) = in_ptr
EmptiesFirst   == elab_pc \in {"elaborate", "dispose"} => elab_node = out_ptr

HolderInv == NodeNeverNull /\ HoldersClaimed /\ FillsLast /\ EmptiesFirst

LEMMA InitHolderInv == Init => HolderInv
  BY QueueAssumption
     DEF Init, HolderInv, NodeNeverNull, HoldersClaimed, FillsLast, EmptiesFirst,
         NetHolds, ElabHolds, Occupied, Distance

\* What one step does to the claimed slots and to the slots held: it claims one
\* for the network thread, hands the network thread's on or lets go of it,
\* frees the elaboration thread's, or changes none of them.
LEMMA StepSlots ==
  ASSUME TypeInv, HolderInv, Next
  PROVE  /\ Occupied \in Slots /\ Occupied' \in Slots
         /\ NetHolds \in 0 .. 1 /\ NetHolds' \in 0 .. 1
         /\ ElabHolds \in 0 .. 1 /\ ElabHolds' \in 0 .. 1
         /\ elab_pc' # "crashed"
         /\ \/ Occupied' = Occupied + 1 /\ NetHolds' = NetHolds + 1 /\ ElabHolds' = ElabHolds
            \/ Occupied' = Occupied /\ NetHolds' = NetHolds - 1 /\ ElabHolds' = ElabHolds
            \/ Occupied' = Occupied /\ NetHolds' = NetHolds - 1 /\ ElabHolds' = ElabHolds + 1
            \/ Occupied' = Occupied - 1 /\ NetHolds' = NetHolds /\ ElabHolds' = ElabHolds - 1
            \/ Occupied' = Occupied /\ NetHolds' = NetHolds /\ ElabHolds' = ElabHolds
<1> USE DEF HolderInv, NodeNeverNull, HoldersClaimed, Running
<1>0. /\ in_ptr \in Slots /\ out_ptr \in Slots /\ in_ptr' \in Slots /\ out_ptr' \in Slots
      /\ Occupied \in Slots /\ Occupied' \in Slots
      /\ NetHolds \in 0 .. 1 /\ NetHolds' \in 0 .. 1
      /\ ElabHolds \in 0 .. 1 /\ ElabHolds' \in 0 .. 1
  <2>1. TypeInv'
    BY NextTypeInv DEF PosixNext
  <2>2. /\ in_ptr \in Slots /\ out_ptr \in Slots /\ in_ptr' \in Slots /\ out_ptr' \in Slots
    BY <2>1 DEF TypeInv, TypeOK
  <2>3. QED
    BY <2>2, DistanceMoves DEF Occupied, NetHolds, ElabHolds
<1>1. CASE NetClaim
  <2>1. elab_pc' = elab_pc /\ out_ptr' = out_ptr /\ ElabHolds' = ElabHolds
    BY <1>1 DEF NetClaim, next_nqnode_in, elabVars, ElabHolds
  <2>2. CASE Full
    <3>1. in_ptr' = in_ptr /\ net_pc' = "claim" /\ net_pc = "claim"
      BY <1>1, <2>2 DEF NetClaim, next_nqnode_in
    <3>2. Occupied' = Occupied /\ NetHolds' = NetHolds
      BY <2>1, <3>1 DEF Occupied, NetHolds
    <3>3. QED
      BY <1>0, <1>1, <2>1, <3>2 DEF NetClaim
  <2>3. CASE ~Full
    <3>1. in_ptr' = Succ(in_ptr) /\ Succ(in_ptr) # out_ptr /\ net_node' = in_ptr
      BY <1>1, <2>3 DEF NetClaim, next_nqnode_in, Full
    <3>2. net_pc = "claim" /\ net_pc' = "receive"
      BY <1>0, <1>1, <3>1 DEF NetClaim, NULL, Slots
    <3>3. Occupied' = Occupied + 1
      BY <1>0, <2>1, <3>1, DistanceMoves DEF Occupied
    <3>4. NetHolds' = NetHolds + 1
      BY <3>2 DEF NetHolds
    <3>5. QED
      BY <1>0, <1>1, <2>1, <3>3, <3>4 DEF NetClaim
  <2>4. QED
    BY <2>2, <2>3
<1>2. ASSUME NEW p \in Packets, NetReceive(p) PROVE /\ Occupied' = Occupied
                                                    /\ NetHolds' = NetHolds
                                                    /\ ElabHolds' = ElabHolds
                                                    /\ elab_pc' = elab_pc
  BY <1>2 DEF NetReceive, elabVars, Occupied, NetHolds, ElabHolds
<1>3. CASE NetStamp
  BY <1>0, <1>3 DEF NetStamp, elabVars, Occupied, NetHolds, ElabHolds
<1>4. CASE NetSignal
  BY <1>0, <1>4 DEF NetSignal, wakeup_elaboration_thread, queueVars,
                    Occupied, NetHolds, ElabHolds
<1>5. CASE ElabWait
  BY <1>0, <1>5 DEF ElabWait, queueVars, netVars, Occupied, NetHolds, ElabHolds
<1>6. CASE ElabSemWait
  BY <1>0, <1>6 DEF ElabSemWait, netVars, Occupied, NetHolds, ElabHolds
<1>7. CASE ElabTake
  <2>1. Occupied # 0
    BY <1>0, <1>7 DEF ElabTake, ElabHolds, Slots
  <2>2. ~Empty
    BY <1>0, <2>1, DistanceMoves DEF Empty, Occupied
  <2>3. elab_pc' = "elaborate"
    BY <1>0, <1>7, <2>2 DEF ElabTake, next_nqnode_out, NULL, Slots
  <2>4. QED
    BY <1>0, <1>7, <2>3 DEF ElabTake, next_nqnode_out, queueVars, netVars,
                            Occupied, NetHolds, ElabHolds
<1>8. CASE ElabElaborate
  BY <1>0, <1>8 DEF ElabElaborate, queueVars, netVars, Occupied, NetHolds, ElabHolds
<1>9. CASE ElabDispose
  <2>1. Occupied # 0
    BY <1>0, <1>9 DEF ElabDispose, ElabHolds, Slots
  <2>2. out_ptr # in_ptr
    BY <1>0, <2>1, DistanceMoves DEF Occupied
  <2>3. Occupied' = Occupied - 1
    BY <1>0, <1>9, <2>2, DistanceMoves
       DEF ElabDispose, dispose_last_nqnode, Empty, Occupied
  <2>4. ElabHolds' = ElabHolds - 1 /\ NetHolds' = NetHolds /\ elab_pc' = "start"
    BY <1>9 DEF ElabDispose, netVars, ElabHolds, NetHolds
  <2>5. QED
    BY <1>0, <2>3, <2>4
<1>10. QED
  BY <1>0, <1>1, <1>2, <1>3, <1>4, <1>5, <1>6, <1>7, <1>8, <1>9
     DEF Next, NetThread, ElabThread, Network

LEMMA NextHolderInv == TypeInv /\ HolderInv /\ [Next]_vars => HolderInv'
<1> SUFFICES ASSUME TypeInv, HolderInv, [Next]_vars PROVE HolderInv'
  OBVIOUS
<1>1. CASE UNCHANGED vars
  BY <1>1 DEF vars, queueVars, netVars, elabVars, HolderInv, NodeNeverNull,
              HoldersClaimed, FillsLast, EmptiesFirst, NetHolds, ElabHolds, Occupied
<1>2. CASE Next
  <2>1. NodeNeverNull' /\ HoldersClaimed'
    BY <1>2, StepSlots DEF HolderInv, NodeNeverNull, HoldersClaimed, Slots
  <2>2. FillsLast'
    <3>1. CASE NetClaim
      BY <3>1 DEF NetClaim, next_nqnode_in, FillsLast, Full
    <3>2. CASE net_pc # "claim" /\ UNCHANGED <<net_node, in_ptr>>
      BY <3>2 DEF FillsLast, HolderInv
    <3>3. CASE net_pc' = "claim"
      BY <3>3 DEF FillsLast
    <3>4. QED
      BY <1>2, <3>1, <3>2, <3>3
         DEF Next, NetThread, ElabThread, Network, NetReceive, NetStamp, NetSignal,
             ElabWait, ElabSemWait, ElabTake, ElabElaborate, ElabDispose,
             next_nqnode_out, dispose_last_nqnode, queueVars, netVars, elabVars
  <2>3. EmptiesFirst'
    <3>1. CASE ElabTake
      BY <3>1 DEF ElabTake, next_nqnode_out, queueVars, EmptiesFirst
    <3>2. CASE ElabElaborate
      BY <3>2 DEF ElabElaborate, queueVars, EmptiesFirst, HolderInv
    <3>3. CASE elab_pc' \notin {"elaborate", "dispose"}
      BY <3>3 DEF EmptiesFirst
    <3>4. CASE UNCHANGED <<elab_pc, elab_node, out_ptr>>
      BY <3>4 DEF EmptiesFirst, HolderInv
    <3>5. CASE NetSignal
      BY <3>5 DEF NetSignal, wakeup_elaboration_thread, queueVars, EmptiesFirst,
                  HolderInv
    <3>6. QED
      BY <1>2, <3>1, <3>2, <3>3, <3>4, <3>5
         DEF Next, NetThread, ElabThread, Network, NetClaim, NetReceive, NetStamp,
             ElabWait, ElabSemWait, ElabDispose, next_nqnode_in, netVars, elabVars
  <2>4. QED
    BY <2>1, <2>2, <2>3 DEF HolderInv
<1>3. QED
  BY <1>1, <1>2

LEMMA HolderCorrect == Spec => [](TypeInv /\ SemInv /\ HolderInv)
<1>1. [Next]_vars => [PosixNext]_vars
  BY DEF PosixNext
<1>2. QED
  BY <1>1, InitTypeInv, NextTypeInv, InitSemInv, NextSemInv,
     InitHolderInv, NextHolderInv, PTL DEF Spec

\* Woken by a signal only, the elaboration thread never gets a NULL node.
THEOREM NeverCrashes == Spec => []NodeNeverNull
<1>1. HolderInv => NodeNeverNull
  BY DEF HolderInv
<1>2. QED
  BY <1>1, HolderCorrect, PTL

\* The two threads are never busy with the same slot.
THEOREM SlotsDisjoint == Spec => []NoSlotRace
<1>1. TypeInv /\ HolderInv => NoSlotRace
  <2> SUFFICES ASSUME TypeInv, HolderInv, net_pc # "claim",
                      elab_pc \in {"elaborate", "dispose"}, net_node = elab_node
               PROVE  FALSE
    BY DEF NoSlotRace
  <2>1. Succ(net_node) = in_ptr /\ net_node = out_ptr
    BY DEF HolderInv, FillsLast, EmptiesFirst
  <2>2. Occupied = 1
    BY <2>1, LastIsFirst DEF TypeInv, TypeOK, PointersSet, Occupied
  <2>3. NetHolds = 1 /\ ElabHolds = 1
    BY DEF NetHolds, ElabHolds
  <2>4. QED
    BY <2>2, <2>3 DEF HolderInv, HoldersClaimed
<1>2. QED
  BY <1>1, HolderCorrect, PTL

\* A woken elaboration thread does not block on the semaphore and finds a node.
THEOREM WakeupFindsNode == Spec => []WokenFindsNode
<1>1. TypeInv /\ SemInv /\ HolderInv => WokenFindsNode
  <2> SUFFICES ASSUME TypeInv, SemInv, HolderInv, elab_pc = "woken"
               PROVE  nr_nodes_queue > 0 /\ ~Empty
    BY DEF WokenFindsNode
  <2>1. Occupied \in Nat /\ NetHolds \in 0 .. 1 /\ ElabHolds = 1 /\ Lowered = 0
    BY DistanceMoves DEF TypeInv, TypeOK, Occupied, Slots, NetHolds, ElabHolds, Lowered
  <2>2. Occupied >= 1
    BY <2>1 DEF HolderInv, HoldersClaimed
  <2>3. nr_nodes_queue > 0
    BY <2>1, <2>2 DEF SemInv, SemCoversQueue, TypeInv, TypeOK
  <2>4. ~Empty
    BY <2>1, <2>2, DistanceMoves DEF Empty, Occupied, TypeInv, TypeOK
  <2>5. QED
    BY <2>3, <2>4
<1>2. QED
  BY <1>1, HolderCorrect, PTL

\* Whatever the network does, packets left behind by lost wakeups are never
\* caught up with.
THEOREM BacklogStays == Spec => BacklogNeverShrinks
<1>1. TypeInv /\ HolderInv /\ [Next]_vars => [Backlog' >= Backlog]_vars
  <2> SUFFICES ASSUME TypeInv, HolderInv, Next PROVE Backlog' >= Backlog
    OBVIOUS
  <2>1. QED
    BY StepSlots DEF Backlog, Slots
<1>2. QED
  BY <1>1, HolderCorrect, PTL DEF Spec, BacklogNeverShrinks

=============================================================================
