--------------------------- MODULE SamplePrograms ---------------------------
(***************************************************************************)
(* The programs that come with the daemon, as the sequence of calls each   *)
(* makes: the applications src/app1.c to src/app4.c and the generator of   *)
(* packets src/UDP_generator.c.  An application has one or two queries and *)
(* prints, of every reply, one member.  Sleeping is nothing but time.      *)
(***************************************************************************)
EXTENDS DataFields

CONSTANT MaxReads   \* bound on the replies an application reads

ASSUME ReadsAssumption == MaxReads \in Nat \ {0}

Apps == {"app1", "app2", "app3", "app4"}

\* What an application asks for, and the member that it prints of the reply.
AppQueries ==
  [app1 |-> <<[req_id |-> 12345678,  data_id |-> "SPEEDS_AOA",
               engine_id |-> 0, prints |-> "i16"]>>,
   app2 |-> <<[req_id |-> 23456789,  data_id |-> "ENGINE_THROTTLE",
               engine_id |-> 2, prints |-> "u8"]>>,
   app3 |-> <<[req_id |-> 87654321,  data_id |-> "SPEEDS_AOA",
               engine_id |-> 0, prints |-> "i16"],
              [req_id |-> 876543210, data_id |-> "ENGINE_FLAGS",
               engine_id |-> 1, prints |-> "u8"]>>,
   app4 |-> <<[req_id |-> 98765432,  data_id |-> "ATTITUDE_ALTITUDE",
               engine_id |-> 0, prints |-> "i32"],
              [req_id |-> 987654320, data_id |-> "ENGINE_STATUS",
               engine_id |-> 2, prints |-> "u8"]>>]

QueriesOf(app) == ToSet(AppQueries[app])

\* app3 and app4 compare the request id with that of their first query and take
\* everything else for their second; app1 and app2 do not look at it.
Prints(app, req_id) ==
  LET qs == AppQueries[app]
  IN IF req_id = Head(qs).req_id THEN Head(qs).prints ELSE Last(qs).prints

\* How many replies an application reads, and how many of them are modelled.
AllReads == [app1 |-> 1, app2 |-> 1, app3 |-> 500, app4 |-> 1000]
NrReads(app) == IF AllReads[app] < MaxReads THEN AllReads[app] ELSE MaxReads

\* The calls of main(): connect, ask, read, take back what was registered, close.
Program == [app \in Apps |->
  LET qs       == AppQueries[app]
      Send(ty) == [k \in DOMAIN qs |-> [call |-> "write", type |-> ty, query |-> qs[k]]]
      Asks     == app \in {"app1", "app2"}
  IN <<[call |-> "connect"]>>
       \o Send(IF Asks THEN "request" ELSE "register")
       \o [k \in 1 .. NrReads(app) |-> [call |-> "read"]]
       \o (IF Asks THEN << >> ELSE Send("unregister"))
       \o <<[call |-> "close"]>>]

-----------------------------------------------------------------------------
NUM_PACKETS == 20

\* The i-th packet of UDP_generator: engines in turn on even numbers, ADIRU on
\* odd ones, four that the daemon does not know.  Number i + 1 stands for its
\* values.
net_packet(i) ==
  LET unknown == {3, 8, 11, 16}
      engines == {j \in 0 .. i - 1 : j \notin unknown /\ j % 2 = 0}
  IN [identifier |-> CASE i \in unknown -> AFDX_PACKET_TYPE_UNKNOWN
                       [] i \notin unknown /\ i % 2 = 1 -> AFDX_PACKET_TYPE_ADIRU
                       [] OTHER -> AFDX_PACKET_TYPE_ENGINE,
      engine_id  |-> IF i \in unknown \/ i % 2 = 1 THEN 0 ELSE Cardinality(engines) % 4,
      payload    |-> i + 1]

net_packets == {net_packet(i) : i \in 0 .. NUM_PACKETS - 1}

=============================================================================
