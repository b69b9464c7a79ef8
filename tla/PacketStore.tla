----------------------------- MODULE PacketStore -----------------------------
(***************************************************************************)
(* What the network side of the daemon promises its applications: packets  *)
(* are elaborated in the order in which they were received, each exactly   *)
(* once, each stamped with the time of its own reception, and at most      *)
(* Capacity of them are pending.  Nothing is promised about when.          *)
(***************************************************************************)
EXTENDS InternalData, Sequences

CONSTANT Capacity   \* how many received packets may be pending

VARIABLES pending,  \* received packets that were not elaborated, oldest first
          data      \* the internal data

StoreVars == <<pending, data>>

StoreInit ==
  /\ pending = << >>
  /\ data = InvalidData

\* The network delivers a packet.
Receive(p) ==
  /\ Len(pending) < Capacity
  /\ pending' = Append(pending, p)
  /\ UNCHANGED data

\* The oldest pending packet updates the internal data.
Elaborate ==
  /\ pending # << >>
  /\ pending' = Tail(pending)
  /\ data' = Elaborated(data, [packet      |-> Head(pending),
                               last_update |-> Head(pending)])

StoreNext == Elaborate \/ \E p \in Packets : Receive(p)

StoreSpec == StoreInit /\ [][StoreNext]_StoreVars

=============================================================================
