------------------------------ MODULE MCService ------------------------------
(***************************************************************************)
(* Small instances of Service.  The first has two ADIRU packets, of which  *)
(* one application asks for the angle of attack, and another registers for *)
(* the altitude and for the status of an engine that never sends any, so   *)
(* that a packet is written in two steps that somebody can tell apart; the *)
(* second has a packet for each query of the application that registers.   *)
(***************************************************************************)
EXTENDS Service

AdiruPackets == {net_packet(1), net_packet(5)}
MixedPackets == {net_packet(1), net_packet(4)}

AskerAndSubscriber == {{"app1", "app4"}}
SubscriberAlone    == {{"app4"}}

=============================================================================
