-------------------------- MODULE MCPacketPipeline --------------------------
(***************************************************************************)
(* Small instances of PacketPipeline for TLC.  Two engines and two ADIRU   *)
(* payloads tell apart a lost, a doubled and a reordered packet; the       *)
(* unknown packet is the one the elaboration thread discards.              *)
(***************************************************************************)
EXTENDS PacketPipeline

CONSTANTS d1, d2   \* payloads

Adiru(d)     == [identifier |-> AFDX_PACKET_TYPE_ADIRU, engine_id |-> 0, payload |-> d]
Engine(e, d) == [identifier |-> AFDX_PACKET_TYPE_ENGINE, engine_id |-> e, payload |-> d]
Unknown      == [identifier |-> AFDX_PACKET_TYPE_UNKNOWN, engine_id |-> 0, payload |-> d1]

MCPackets    == {Adiru(d1), Adiru(d2), Engine(1, d1), Unknown}
MCFewPackets == {Adiru(d1), Engine(1, d1)}

=============================================================================
