---------------------------- MODULE InternalData ----------------------------
(***************************************************************************)
(* The daemon's copy of the avionics data (include/internal_data.h) and    *)
(* what a packet of the AFDX network does to it                            *)
(* (src/elaboration_thread.c).  A packet keeps what decides where it goes, *)
(* its identifier and its engine id; the measured values are one opaque    *)
(* payload.  A reception time is represented by the packet whose reception *)
(* it records, so that a time stamp of another packet can be told apart.   *)
(***************************************************************************)
EXTENDS Integers

CONSTANTS NR_ENGINES,   \* number of engines of the aircraft
          Packets,      \* the datagrams the network may deliver
          NoData        \* the payload of memory no packet was written to

AFDX_PACKET_TYPE_UNKNOWN == 0
AFDX_PACKET_TYPE_ADIRU   == 1
AFDX_PACKET_TYPE_ENGINE  == 2

Engines == 0 .. NR_ENGINES - 1

ASSUME DataAssumption ==
  /\ NR_ENGINES \in Nat \ {0}
  /\ \A p \in Packets :
       /\ p.identifier \in 0 .. 255
       /\ p.identifier = AFDX_PACKET_TYPE_ENGINE => p.engine_id \in Engines

\* Static storage starts out zeroed, and 0 is the unknown packet type.
ZeroPacket == [identifier |-> AFDX_PACKET_TYPE_UNKNOWN,
               engine_id  |-> 0,
               payload    |-> NoData]

AnyPacket == Packets \cup {ZeroPacket}

\* A node of the network queue: a packet and its reception time.
Node     == [packet : AnyPacket, last_update : AnyPacket]
ZeroNode == [packet |-> ZeroPacket, last_update |-> ZeroPacket]

IntDataType == [attitude : Node, speeds : Node, engines : [Engines -> Node]]

\* main() marks every section invalid before it starts the threads.
InvalidData == [attitude |-> ZeroNode,
                speeds   |-> ZeroNode,
                engines  |-> [e \in Engines |-> ZeroNode]]

-----------------------------------------------------------------------------
\* The switch of elaboration_thread(): an ADIRU packet refreshes attitude and
\* speeds, an engine packet its engine, any other packet is discarded.
Elaborated(data, node) ==
  CASE node.packet.identifier = AFDX_PACKET_TYPE_ADIRU ->
         [data EXCEPT !.attitude = node, !.speeds = node]
    [] node.packet.identifier = AFDX_PACKET_TYPE_ENGINE ->
         [data EXCEPT !.engines[node.packet.engine_id] = node]
    [] OTHER -> data

=============================================================================
