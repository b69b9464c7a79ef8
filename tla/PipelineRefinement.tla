------------------------- MODULE PipelineRefinement -------------------------
(***************************************************************************)
(* Machine-checked proof that the pipeline implements the packet store,    *)
(* for every queue size and every set of packets, when the condition       *)
(* variable returns for signals only.                                      *)
(*                                                                         *)
(* A packet enters the abstract queue when the network thread stamps it    *)
(* and leaves it when the elaboration thread elaborates it; every other    *)
(* step is a stutter.  What has to be known beyond the invariants of       *)
(* PacketPipelineProofs is StampInv: no packet is without its own time     *)
(* stamp, the one being received aside.                                    *)
(***************************************************************************)
EXTENDS PacketPipelineProofs, SequenceTheorems

-----------------------------------------------------------------------------
(* Slots *)

\* The k-th slot from another one, without the modulus.
LEMMA SlotAtIsCircular ==
  ASSUME NEW from \in Slots, NEW k \in 1 .. SIZE_QUEUE
  PROVE  /\ SlotAt(from, k) \in Slots
         /\ SlotAt(from, k) = IF from + k <= SIZE_QUEUE THEN from + k - 1
                              ELSE from + k - 1 - SIZE_QUEUE
<1> DEFINE x == from + k - 1
<1>1. SIZE_QUEUE \in Nat /\ SIZE_QUEUE > 1 /\ from \in Int /\ from >= 0
      /\ from < SIZE_QUEUE /\ k \in Int /\ k >= 1 /\ k <= SIZE_QUEUE
  BY QueueAssumption DEF Slots
<1>2. CASE from + k <= SIZE_QUEUE
  <2>1. x \in 0 .. SIZE_QUEUE - 1
    BY <1>1, <1>2
  <2>2. x % SIZE_QUEUE = x
    BY <1>1, <2>1
  <2>3. QED
    BY <1>2, <2>1, <2>2 DEF SlotAt, Slots
<1>3. CASE from + k > SIZE_QUEUE
  <2>1. x - SIZE_QUEUE \in 0 .. SIZE_QUEUE - 1
    BY <1>1, <1>3
  <2>2. x % SIZE_QUEUE = x - SIZE_QUEUE
    BY <1>1, <2>1
  <2>3. QED
    BY <1>1, <1>3, <2>1, <2>2 DEF SlotAt, Slots
<1>4. QED
  BY <1>1, <1>2, <1>3

\* The first slot is where the walk starts, and the next ones are the first
\* ones from the next slot.
LEMMA SlotAtMoves ==
  ASSUME NEW from \in Slots
  PROVE  /\ SlotAt(from, 1) = from
         /\ \A k \in 1 .. SIZE_QUEUE - 1 : SlotAt(Succ(from), k) = SlotAt(from, k + 1)
<1>1. SIZE_QUEUE \in Nat /\ SIZE_QUEUE > 1
  BY QueueAssumption
<1>2. SlotAt(from, 1) = from
  BY <1>1, SlotAtIsCircular DEF Slots
<1>3. ASSUME NEW k \in 1 .. SIZE_QUEUE - 1
      PROVE  SlotAt(Succ(from), k) = SlotAt(from, k + 1)
  <2>1. k \in 1 .. SIZE_QUEUE /\ k + 1 \in 1 .. SIZE_QUEUE
    BY <1>1
  <2>2. Succ(from) \in Slots /\ Succ(from) = IF from = SIZE_QUEUE - 1 THEN 0 ELSE from + 1
    BY SuccIsCircular
  <2>3. SlotAt(Succ(from), k) = IF Succ(from) + k <= SIZE_QUEUE THEN Succ(from) + k - 1
                                ELSE Succ(from) + k - 1 - SIZE_QUEUE
    BY <2>1, <2>2, SlotAtIsCircular
  <2>4. SlotAt(from, k + 1) = IF from + (k + 1) <= SIZE_QUEUE THEN from + (k + 1) - 1
                              ELSE from + (k + 1) - 1 - SIZE_QUEUE
    BY <2>1, SlotAtIsCircular
  <2>5. QED
    BY <1>1, <2>2, <2>3, <2>4 DEF Slots
<1>4. QED
  BY <1>2, <1>3

\* The slot claimed last is as many slots away as are claimed, and no other of
\* the claimed ones is that slot.
LEMMA LastSlot ==
  ASSUME NEW from \in Slots, NEW i \in Slots, NEW s \in Slots, Succ(s) = i
  PROVE  /\ Distance(from, i) # 0 => SlotAt(from, Distance(from, i)) = s
         /\ \A k \in 1 .. Distance(from, i) - 1 : SlotAt(from, k) # s
<1>1. SIZE_QUEUE \in Nat /\ SIZE_QUEUE > 1
  BY QueueAssumption
<1>2. Distance(from, i) \in 0 .. SIZE_QUEUE - 1
  BY DistanceMoves DEF Slots
<1>3. i = IF s = SIZE_QUEUE - 1 THEN 0 ELSE s + 1
  BY SuccIsCircular
<1>4. Distance(from, i) # 0 => SlotAt(from, Distance(from, i)) = s
  <2>1. SUFFICES ASSUME Distance(from, i) # 0 PROVE SlotAt(from, Distance(from, i)) = s
    OBVIOUS
  <2>2. Distance(from, i) \in 1 .. SIZE_QUEUE
    BY <1>1, <1>2, <2>1
  <2>3. QED
    BY <1>1, <1>3, <2>1, <2>2, SlotAtIsCircular DEF Distance, Slots
<1>5. ASSUME NEW k \in 1 .. Distance(from, i) - 1 PROVE SlotAt(from, k) # s
  <2>1. k \in 1 .. SIZE_QUEUE
    BY <1>1, <1>2
  <2>2. SlotAt(from, k) = IF from + k <= SIZE_QUEUE THEN from + k - 1
                          ELSE from + k - 1 - SIZE_QUEUE
    BY <2>1, SlotAtIsCircular
  <2>3. Distance(from, i) = IF from <= i THEN i - from ELSE i - from + SIZE_QUEUE
    BY DEF Distance
  <2>4. /\ from \in Int /\ from >= 0 /\ from < SIZE_QUEUE
        /\ i \in Int /\ s \in Int /\ s >= 0 /\ s < SIZE_QUEUE
    BY <1>1 DEF Slots
  <2>5. k \in Int /\ k >= 1 /\ k <= Distance(from, i) - 1
    BY <1>2
  <2>6. CASE from <= i
    BY <1>1, <1>3, <2>2, <2>3, <2>4, <2>5, <2>6
  <2>7. CASE ~(from <= i)
    BY <1>1, <1>3, <2>2, <2>3, <2>4, <2>5, <2>7
  <2>8. QED
    BY <2>6, <2>7
<1>6. QED
  BY <1>4, <1>5

-----------------------------------------------------------------------------
(* Time stamps *)

\* Only the packet being received may be without its own time stamp, and that
\* one came from the network.
Stamped(s) == nodes[s].last_update = nodes[s].packet

StampInv ==
  /\ \A s \in Slots : Stamped(s) \/ (net_pc = "stamp" /\ s = net_node)
  /\ net_pc = "stamp" => nodes[net_node].packet \in Packets

\* Nothing was received yet: all slots are zeroed.
LEMMA InitStampInv == Init => StampInv
  BY DEF Init, StampInv, Stamped, ZeroNode

\* A stamp is written for every packet before its slot is let go.
LEMMA NextStampInv == TypeInv /\ StampInv /\ [Next]_vars => StampInv'
<1> SUFFICES ASSUME TypeInv, StampInv, [Next]_vars PROVE StampInv'
  OBVIOUS
<1>0. nodes \in [Slots -> Node] /\ (net_pc # "claim" => net_node \in Slots)
  BY DEF TypeInv, TypeOK, PointersSet
<1>1. ASSUME NEW p \in Packets, NetReceive(p) PROVE StampInv'
  <2>1. nodes' = [nodes EXCEPT ![net_node].packet = p] /\ net_node \in Slots
        /\ net_node' = net_node /\ net_pc = "receive" /\ net_pc' = "stamp"
    BY <1>0, <1>1 DEF NetReceive
  <2>2. nodes'[net_node].packet = p
    BY <1>0, <2>1 DEF Node
  <2>3. \A s \in Slots : s # net_node => nodes'[s] = nodes[s]
    BY <1>0, <2>1
  <2>4. QED
    BY <2>1, <2>2, <2>3 DEF StampInv, Stamped
<1>2. CASE NetStamp
  <2>1. nodes' = [nodes EXCEPT ![net_node].last_update = nodes[net_node].packet]
        /\ net_node \in Slots /\ net_pc = "stamp" /\ net_pc' = "signal"
    BY <1>0, <1>2 DEF NetStamp
  <2>2. nodes'[net_node].last_update = nodes'[net_node].packet
    BY <1>0, <2>1 DEF Node
  <2>3. \A s \in Slots : s # net_node => nodes'[s] = nodes[s]
    BY <1>0, <2>1
  <2>4. QED
    BY <2>1, <2>2, <2>3 DEF StampInv, Stamped
<1>3. CASE nodes' = nodes /\ net_pc # "stamp" /\ net_pc' # "stamp"
  BY <1>3 DEF StampInv, Stamped
<1>4. CASE UNCHANGED <<nodes, netVars>>
  BY <1>4 DEF StampInv, Stamped, netVars
<1>5. CASE NetClaim
  BY <1>3, <1>5 DEF NetClaim, next_nqnode_in
<1>6. CASE NetSignal
  BY <1>3, <1>6 DEF NetSignal, queueVars
<1>7. QED
  BY <1>1, <1>2, <1>4, <1>5, <1>6
     DEF Next, NetThread, ElabThread, Network, ElabWait, ElabSemWait, ElabTake,
         ElabElaborate, ElabDispose, next_nqnode_out, dispose_last_nqnode, queueVars, vars

-----------------------------------------------------------------------------
(* The pending packets *)

\* Every packet that is pending has a slot.
LEMMA PendingFits ==
  ASSUME TypeInv, HolderInv
  PROVE  /\ Oldest \in Slots
         /\ NrPending \in Nat /\ NrPending < SIZE_QUEUE
         /\ elab_pc = "elaborate" => NrPending # 0
         /\ net_pc \in {"receive", "stamp"} => NrPending + 1 < SIZE_QUEUE
         /\ NrPending + (IF net_pc \in {"receive", "stamp"} THEN 1 ELSE 0)
              = Distance(Oldest, in_ptr)
<1>1. /\ in_ptr \in Slots /\ out_ptr \in Slots
      /\ Occupied \in Slots /\ SIZE_QUEUE \in Nat
  BY DistanceMoves, QueueAssumption DEF TypeInv, TypeOK, Occupied
<1>2. NetHolds + ElabHolds <= Occupied
  BY DEF HolderInv, HoldersClaimed
<1>3. Oldest \in Slots
  BY <1>1, SuccIsCircular DEF Oldest
<1>4. /\ NrPending \in Nat /\ NrPending < SIZE_QUEUE
      /\ elab_pc = "elaborate" => NrPending # 0
      /\ net_pc \in {"receive", "stamp"} => NrPending + 1 < SIZE_QUEUE
  BY <1>1, <1>2 DEF NrPending, NetHolds, ElabHolds, Slots
<1>5. NrPending + (IF net_pc \in {"receive", "stamp"} THEN 1 ELSE 0)
        = Distance(Oldest, in_ptr)
  <2>1. CASE elab_pc = "dispose"
    <3>1. Occupied # 0
      BY <1>1, <1>2, <2>1 DEF NetHolds, ElabHolds, Slots
    <3>2. Distance(Oldest, in_ptr) = Occupied - 1
      BY <1>1, <2>1, <3>1, DistanceMoves DEF Oldest, Occupied
    <3>3. QED
      BY <1>1, <2>1, <3>2 DEF NrPending, Slots
  <2>2. CASE elab_pc # "dispose"
    BY <1>1, <2>2 DEF Oldest, NrPending, Occupied, Slots
  <2>3. QED
    BY <2>1, <2>2
<1>6. QED
  BY <1>3, <1>4, <1>5

\* They are a sequence of packets.
PendingSeq ==
  /\ PendingPackets \in Seq(AnyPacket)
  /\ Len(PendingPackets) = NrPending
  /\ \A k \in 1 .. NrPending : /\ SlotAt(Oldest, k) \in Slots
                               /\ PendingPackets[k] = nodes[SlotAt(Oldest, k)].packet

LEMMA PendingIsASeq == TypeInv /\ HolderInv => PendingSeq
<1> SUFFICES ASSUME TypeInv, HolderInv PROVE PendingSeq
  OBVIOUS
<1>1. NrPending \in Nat /\ NrPending < SIZE_QUEUE /\ Oldest \in Slots /\ SIZE_QUEUE \in Nat
  BY PendingFits, QueueAssumption
<1>2. \A k \in 1 .. NrPending : SlotAt(Oldest, k) \in Slots
  BY <1>1, SlotAtIsCircular
<1>3. \A k \in 1 .. NrPending : nodes[SlotAt(Oldest, k)].packet \in AnyPacket
  BY <1>2 DEF TypeInv, TypeOK, Node
<1>4. PendingPackets \in [1 .. NrPending -> AnyPacket]
  BY <1>3 DEF PendingPackets
<1>5. PendingPackets \in Seq(AnyPacket)
  BY <1>1, <1>4, SeqDef
<1>6. Len(PendingPackets) = NrPending
  BY <1>1, <1>4, <1>5, LenProperties
<1>7. QED
  BY <1>2, <1>5, <1>6 DEF PendingPackets, PendingSeq

\* After a step as well.
LEMMA PendingIsASeqNext == TypeInv' /\ HolderInv' => PendingSeq'
  BY PendingIsASeq, PTL

\* Steps that move none of it change nothing that is pending.
LEMMA PendingStays ==
  ASSUME Oldest' = Oldest, NrPending' = NrPending, nodes' = nodes
  PROVE  PendingPackets' = PendingPackets
  BY DEF PendingPackets, SlotAt

-----------------------------------------------------------------------------
(* Every step is a step of the packet store or none *)

\* The store starts out empty.
LEMMA InitStore == Init => Store!StoreInit
<1> SUFFICES ASSUME Init PROVE Store!StoreInit
  OBVIOUS
<1>1. NrPending = 0
  <2>1. Occupied = 0
    BY DEF Init, Occupied, Distance
  <2>2. elab_pc = "start" /\ net_pc = "claim"
    BY DEF Init
  <2>3. NrPending = Occupied - 0 - 0
    BY <2>2 DEF NrPending
  <2>4. QED
    BY <2>1, <2>3
<1>2. PendingPackets = << >>
  BY <1>1 DEF PendingPackets
<1>3. intdata = Store!InvalidData
  BY DEF Init, InvalidData, Store!InvalidData, ZeroNode, Store!ZeroNode, ZeroPacket,
         Store!ZeroPacket, Engines, Store!Engines, AFDX_PACKET_TYPE_UNKNOWN,
         Store!AFDX_PACKET_TYPE_UNKNOWN
<1>4. QED
  BY <1>2, <1>3 DEF Store!StoreInit

\* A packet enters the store when it is stamped.
LEMMA StampReceives ==
  ASSUME TypeInv, HolderInv, StampInv, TypeInv', HolderInv', NetStamp
  PROVE  \E p \in Packets : Store!Receive(p)
<1> DEFINE p == nodes[net_node].packet
<1>0. /\ net_pc = "stamp" /\ net_pc' = "signal" /\ net_node' = net_node
      /\ net_node \in Slots /\ Succ(net_node) = in_ptr
      /\ nodes' = [nodes EXCEPT ![net_node].last_update = p]
      /\ nodes \in [Slots -> Node]
      /\ UNCHANGED <<in_ptr, out_ptr, elab_pc, elab_node, intdata>>
  BY DEF NetStamp, TypeInv, TypeOK, PointersSet, HolderInv, FillsLast, elabVars
<1>1. p \in Packets /\ p \in AnyPacket
  BY <1>0 DEF StampInv, AnyPacket
<1>2. /\ NrPending \in Nat /\ NrPending + 1 < SIZE_QUEUE /\ Oldest \in Slots
      /\ in_ptr \in Slots /\ NrPending + 1 = Distance(Oldest, in_ptr)
  BY <1>0, PendingFits DEF TypeInv, TypeOK
<1>3. Oldest' = Oldest /\ NrPending' = NrPending + 1
  BY <1>0, DistanceMoves DEF Oldest, NrPending, Occupied, TypeInv, TypeOK, Slots
<1>4. \A s \in Slots : nodes'[s].packet = nodes[s].packet
  BY <1>0 DEF Node
<1>5. SlotAt(Oldest, NrPending + 1) = net_node
  BY <1>0, <1>2, LastSlot
<1>6. /\ PendingPackets \in Seq(AnyPacket) /\ Len(PendingPackets) = NrPending
      /\ \A k \in 1 .. NrPending : /\ SlotAt(Oldest, k) \in Slots
                                   /\ PendingPackets[k] = nodes[SlotAt(Oldest, k)].packet
  BY PendingIsASeq DEF PendingSeq
<1>7. /\ PendingPackets' \in Seq(AnyPacket) /\ Len(PendingPackets') = NrPending'
      /\ \A k \in 1 .. NrPending' :
           PendingPackets'[k] = nodes'[SlotAt(Oldest', k)].packet
  BY PendingIsASeqNext DEF PendingSeq, SlotAt
<1>8. PendingPackets' = Append(PendingPackets, p)
  <2>1. /\ Append(PendingPackets, p) \in Seq(AnyPacket)
        /\ Len(Append(PendingPackets, p)) = NrPending + 1
        /\ \A k \in 1 .. NrPending : Append(PendingPackets, p)[k] = PendingPackets[k]
        /\ Append(PendingPackets, p)[NrPending + 1] = p
    BY <1>1, <1>6, AppendProperties
  <2>2. \A k \in 1 .. NrPending : PendingPackets'[k] = PendingPackets[k]
    BY <1>2, <1>3, <1>4, <1>6, <1>7
  <2>3. PendingPackets'[NrPending + 1] = p
    BY <1>0, <1>2, <1>3, <1>4, <1>5, <1>7
  <2>4. \A k \in 1 .. NrPending + 1 : PendingPackets'[k] = Append(PendingPackets, p)[k]
    BY <1>2, <2>1, <2>2, <2>3
  <2>5. QED
    BY <1>2, <1>3, <1>7, <2>1, <2>4, SeqEqual
<1>9. QED
  BY <1>0, <1>1, <1>2, <1>6, <1>8, QueueAssumption DEF Store!Receive

\* A packet leaves the store when it is elaborated.
LEMMA ElaborationElaborates ==
  ASSUME TypeInv, HolderInv, StampInv, TypeInv', HolderInv', ElabElaborate
  PROVE  Store!Elaborate
<1>0. /\ elab_pc = "elaborate" /\ elab_pc' = "dispose" /\ elab_node = out_ptr
      /\ elab_node \in Slots /\ nodes \in [Slots -> Node]
      /\ intdata' = Elaborated(intdata, nodes[elab_node])
      /\ UNCHANGED <<in_ptr, out_ptr, nodes, net_pc, net_node>>
  BY DEF ElabElaborate, TypeInv, TypeOK, PointersSet, HolderInv, EmptiesFirst,
         queueVars, netVars
<1>1. /\ NrPending \in Nat /\ NrPending # 0 /\ NrPending < SIZE_QUEUE /\ Oldest \in Slots
  BY <1>0, PendingFits
<1>2. /\ Oldest = elab_node /\ Oldest' = Succ(elab_node) /\ NrPending' = NrPending - 1
  <2>1. Oldest = out_ptr /\ Oldest' = Succ(out_ptr)
    BY <1>0 DEF Oldest, Succ
  <2>2. Occupied' = Occupied /\ Occupied \in Int
    BY <1>0, DistanceMoves DEF Occupied, TypeInv, TypeOK, Slots, Distance
  <2>3. NrPending' = NrPending - 1
    BY <1>0, <2>2 DEF NrPending
  <2>4. QED
    BY <1>0, <2>1, <2>3
<1>3. /\ PendingPackets \in Seq(AnyPacket) /\ Len(PendingPackets) = NrPending
      /\ \A k \in 1 .. NrPending : /\ SlotAt(Oldest, k) \in Slots
                                   /\ PendingPackets[k] = nodes[SlotAt(Oldest, k)].packet
  BY PendingIsASeq DEF PendingSeq
<1>4. /\ PendingPackets' \in Seq(AnyPacket) /\ Len(PendingPackets') = NrPending'
      /\ \A k \in 1 .. NrPending' :
           PendingPackets'[k] = nodes'[SlotAt(Oldest', k)].packet
  BY PendingIsASeqNext DEF PendingSeq, SlotAt
<1>5. PendingPackets # << >>
  BY <1>1, <1>3, EmptySeq
<1>6. PendingPackets' = Tail(PendingPackets)
  <2>1. /\ Tail(PendingPackets) \in Seq(AnyPacket)
        /\ Len(Tail(PendingPackets)) = NrPending - 1
        /\ \A k \in 1 .. NrPending - 1 : Tail(PendingPackets)[k] = PendingPackets[k + 1]
    BY <1>3, <1>5, HeadTailProperties
  <2>2. ASSUME NEW k \in 1 .. NrPending - 1
        PROVE  PendingPackets'[k] = Tail(PendingPackets)[k]
    <3>1. k \in 1 .. SIZE_QUEUE - 1 /\ k + 1 \in 1 .. NrPending
      BY <1>1, QueueAssumption
    <3>2. SlotAt(Oldest', k) = SlotAt(Oldest, k + 1)
      BY <1>1, <1>2, <3>1, SlotAtMoves
    <3>3. PendingPackets'[k] = nodes[SlotAt(Oldest, k + 1)].packet
      BY <1>0, <1>2, <1>4, <3>2
    <3>4. QED
      BY <1>3, <2>1, <3>1, <3>3
  <2>3. QED
    BY <1>1, <1>2, <1>4, <2>1, <2>2, SeqEqual
<1>7. nodes[elab_node] = [packet      |-> Head(PendingPackets),
                          last_update |-> Head(PendingPackets)]
  <2>1. Head(PendingPackets) = PendingPackets[1]
    BY <1>3, <1>5
  <2>2. PendingPackets[1] = nodes[elab_node].packet
    BY <1>1, <1>2, <1>3, SlotAtMoves
  <2>3. ~(net_pc = "stamp" /\ elab_node = net_node)
    <3>1. SUFFICES ASSUME net_pc = "stamp", elab_node = net_node PROVE FALSE
      OBVIOUS
    <3>2. Succ(elab_node) = in_ptr /\ in_ptr \in Slots
      BY <3>1 DEF HolderInv, FillsLast, TypeInv, TypeOK
    <3>3. Occupied = 1
      BY <1>0, <3>2, LastIsFirst DEF Occupied
    <3>4. NetHolds = 1 /\ ElabHolds = 1
      BY <1>0, <3>1 DEF NetHolds, ElabHolds
    <3>5. QED
      BY <3>3, <3>4 DEF HolderInv, HoldersClaimed
  <2>4. nodes[elab_node].last_update = nodes[elab_node].packet
    BY <1>0, <2>3 DEF StampInv, Stamped
  <2>5. nodes[elab_node] \in Node
    BY <1>0
  <2>6. QED
    BY <2>1, <2>2, <2>4, <2>5 DEF Node
<1>8. intdata' = Store!Elaborated(intdata, [packet      |-> Head(PendingPackets),
                                            last_update |-> Head(PendingPackets)])
  BY <1>0, <1>7 DEF Elaborated, Store!Elaborated, AFDX_PACKET_TYPE_ADIRU,
     Store!AFDX_PACKET_TYPE_ADIRU, AFDX_PACKET_TYPE_ENGINE, Store!AFDX_PACKET_TYPE_ENGINE
<1>9. QED
  BY <1>5, <1>6, <1>8 DEF Store!Elaborate

\* A slot that is claimed is not pending until it was filled.
LEMMA ClaimStutters ==
  ASSUME TypeInv, HolderInv, NetClaim
  PROVE  PendingPackets' = PendingPackets /\ intdata' = intdata
<1>0. /\ net_pc = "claim" /\ in_ptr \in Slots /\ out_ptr \in Slots
      /\ UNCHANGED <<out_ptr, nodes, elab_pc, intdata>>
  BY DEF NetClaim, next_nqnode_in, elabVars, TypeInv, TypeOK
<1>1. Oldest' = Oldest
  BY <1>0 DEF Oldest, Succ
<1>2. Occupied \in Int
  BY <1>0, DistanceMoves DEF Occupied, Slots
<1>3. CASE Full
  <2>1. in_ptr' = in_ptr /\ net_pc' = net_pc
    BY <1>0, <1>3 DEF NetClaim, next_nqnode_in
  <2>2. NrPending' = NrPending
    BY <1>0, <2>1 DEF NrPending, Occupied, Distance
  <2>3. QED
    BY <1>0, <1>1, <2>2, PendingStays
<1>4. CASE ~Full
  <2>1. in_ptr' = Succ(in_ptr) /\ Succ(in_ptr) # out_ptr /\ net_node' = in_ptr
    BY <1>4 DEF NetClaim, next_nqnode_in, Full
  <2>2. net_pc' = "receive"
    BY <1>0, <2>1 DEF NetClaim, NULL, Slots
  <2>3. Occupied' = Occupied + 1
    BY <1>0, <2>1, DistanceMoves DEF Occupied
  <2>4. NrPending' = NrPending
    BY <1>0, <1>2, <2>2, <2>3 DEF NrPending
  <2>5. QED
    BY <1>0, <1>1, <2>4, PendingStays
<1>5. QED
  BY <1>3, <1>4

\* The slot being filled is none of the pending ones.
LEMMA ReceiveStutters ==
  ASSUME TypeInv, HolderInv, NEW p \in Packets, NetReceive(p)
  PROVE  PendingPackets' = PendingPackets /\ intdata' = intdata
<1>0. /\ net_pc = "receive" /\ net_pc' = "stamp" /\ net_node \in Slots
      /\ Succ(net_node) = in_ptr /\ in_ptr \in Slots
      /\ nodes \in [Slots -> Node]
      /\ nodes' = [nodes EXCEPT ![net_node].packet = p]
      /\ UNCHANGED <<in_ptr, out_ptr, elab_pc, intdata>>
  BY DEF NetReceive, elabVars, TypeInv, TypeOK, PointersSet, HolderInv, FillsLast
<1>1. Oldest' = Oldest
  BY <1>0 DEF Oldest, Succ
<1>2. NrPending' = NrPending
  BY <1>0 DEF NrPending, Occupied, Distance
<1>3. /\ Oldest \in Slots /\ NrPending \in Nat /\ NrPending + 1 = Distance(Oldest, in_ptr)
      /\ NrPending < SIZE_QUEUE
  BY <1>0, PendingFits
<1>4. ASSUME NEW k \in 1 .. NrPending
      PROVE  nodes'[SlotAt(Oldest, k)].packet = nodes[SlotAt(Oldest, k)].packet
  <2>1. SlotAt(Oldest, k) \in Slots
    BY PendingIsASeq DEF PendingSeq
  <2>2. k \in 1 .. Distance(Oldest, in_ptr) - 1
    BY <1>3
  <2>3. SlotAt(Oldest, k) # net_node
    BY <1>0, <1>3, <2>2, LastSlot
  <2>4. QED
    BY <1>0, <2>1, <2>3
<1>5. PendingPackets' = [k \in 1 .. NrPending |-> nodes'[SlotAt(Oldest, k)].packet]
  BY <1>1, <1>2 DEF PendingPackets, SlotAt
<1>6. QED
  BY <1>0, <1>4, <1>5 DEF PendingPackets

\* The slot that is freed was no longer pending.
LEMMA DisposalStutters ==
  ASSUME TypeInv, HolderInv, ElabDispose
  PROVE  PendingPackets' = PendingPackets /\ intdata' = intdata
<1>0. /\ elab_pc = "dispose" /\ elab_pc' = "start"
      /\ in_ptr \in Slots /\ out_ptr \in Slots
      /\ UNCHANGED <<in_ptr, nodes, net_pc, intdata>>
  BY DEF ElabDispose, dispose_last_nqnode, netVars, TypeInv, TypeOK
<1>1. Occupied \in Slots /\ Occupied # 0
  <2>1. Occupied \in Slots /\ NetHolds \in 0 .. 1 /\ ElabHolds = 1
    BY <1>0, DistanceMoves DEF Occupied, NetHolds, ElabHolds
  <2>2. QED
    BY <2>1 DEF HolderInv, HoldersClaimed, Slots
<1>2. out_ptr # in_ptr
  BY <1>0, <1>1, DistanceMoves DEF Occupied
<1>3. out_ptr' = Succ(out_ptr)
  BY <1>2 DEF ElabDispose, dispose_last_nqnode, Empty
<1>4. Occupied' = Occupied - 1
  BY <1>0, <1>2, <1>3, DistanceMoves DEF Occupied
<1>5. Oldest' = Oldest
  BY <1>0, <1>3 DEF Oldest
<1>6. NrPending' = NrPending
  BY <1>0, <1>1, <1>4 DEF NrPending, Slots
<1>7. QED
  BY <1>0, <1>5, <1>6, PendingStays

\* The other steps touch neither the slots nor their pointers.
LEMMA OthersStutter ==
  ASSUME \/ NetSignal \/ ElabWait \/ ElabSemWait \/ ElabTake \/ UNCHANGED vars
  PROVE  PendingPackets' = PendingPackets /\ intdata' = intdata
<1>1. UNCHANGED <<in_ptr, out_ptr, nodes, intdata>>
  BY DEF NetSignal, ElabWait, ElabSemWait, next_nqnode_out_wait, ElabTake, next_nqnode_out,
         queueVars, vars
<1>2. (elab_pc' = "dispose") <=> (elab_pc = "dispose")
  BY DEF NetSignal, wakeup_elaboration_thread, ElabWait, ElabSemWait, ElabTake,
         vars, elabVars
<1>3. (net_pc' \in {"receive", "stamp"}) <=> (net_pc \in {"receive", "stamp"})
  BY DEF NetSignal, ElabWait, ElabSemWait, ElabTake, vars, netVars
<1>4. Oldest' = Oldest
  BY <1>1, <1>2 DEF Oldest, Succ
<1>5. Occupied' = Occupied
  BY <1>1 DEF Occupied, Distance
<1>6. NrPending' = NrPending
  BY <1>2, <1>3, <1>5 DEF NrPending
<1>7. QED
  BY <1>1, <1>4, <1>6, PendingStays

\* A step of the pipeline is a step of the store or a stutter.
LEMMA NextStore ==
  TypeInv /\ HolderInv /\ StampInv /\ TypeInv' /\ HolderInv' /\ [Next]_vars
    => [Store!StoreNext]_<<PendingPackets, intdata>>
<1> SUFFICES ASSUME TypeInv, HolderInv, StampInv, TypeInv', HolderInv', [Next]_vars
             PROVE  \/ Store!StoreNext
                    \/ PendingPackets' = PendingPackets /\ intdata' = intdata
  OBVIOUS
<1>1. CASE NetStamp
  BY <1>1, StampReceives DEF Store!StoreNext
<1>2. CASE ElabElaborate
  BY <1>2, ElaborationElaborates DEF Store!StoreNext
<1>3. CASE NetClaim
  BY <1>3, ClaimStutters
<1>4. CASE \E p \in Packets : NetReceive(p)
  BY <1>4, ReceiveStutters
<1>5. CASE ElabDispose
  BY <1>5, DisposalStutters
<1>6. CASE NetSignal \/ ElabWait \/ ElabSemWait \/ ElabTake \/ UNCHANGED vars
  BY <1>6, OthersStutter
<1>7. QED
  BY <1>1, <1>2, <1>3, <1>4, <1>5, <1>6 DEF Next, NetThread, ElabThread, Network

\* Packets are elaborated in order of reception, once each, with the time of
\* their own reception, and no slot is reused before its packet was elaborated.
THEOREM PipelineImplementsStore == Spec => ImplementsStore
<1>1. Spec => [](TypeInv /\ HolderInv /\ StampInv)
  BY HolderCorrect, InitStampInv, NextStampInv, PTL DEF Spec
<1>2. [Store!StoreNext]_<<PendingPackets, intdata>> <=> [Store!StoreNext]_(Store!StoreVars)
  BY DEF Store!StoreVars
<1>3. QED
  BY <1>1, <1>2, InitStore, NextStore, PTL DEF Spec, ImplementsStore, Store!StoreSpec

=============================================================================
