------------------------------- MODULE Service -------------------------------
(***************************************************************************)
(* The whole of the daemon, from the reception of a packet to what an      *)
(* application prints: main() that starts the threads one after the other  *)
(* (src/afdx.c), the elaboration thread that writes the internal data      *)
(* field by field, and the two threads that read it without a lock, the    *)
(* application manager for requests and the scheduler thread for           *)
(* registered queries, among the programs that come with it.               *)
(*                                                                         *)
(* The network side is PacketStore's queue, which PacketPipeline           *)
(* implements; the schedule is a set of queries of which any may be due,   *)
(* as in PeriodicTasks.  Each descriptor is served by itself, a message at *)
(* a time, and everything that unregisters is one step: AppManager has the *)
(* steps in between.                                                       *)
(***************************************************************************)
EXTENDS SamplePrograms

CONSTANTS Capacity,   \* how many received packets may be pending
          SockBuf,    \* how many replies a socket holds before write() blocks
          Together    \* the sets of applications that are run together

ASSUME ServiceAssumption ==
  /\ Capacity \in Nat \ {0} /\ SockBuf \in Nat \ {0}
  /\ Packets \subseteq net_packets
  /\ \A apps \in Together :
       /\ apps \subseteq Apps
       /\ \A a \in apps : \A q \in QueriesOf(a) : q.engine_id \in Engines

\* The applications that are run at all.
Launched == UNION Together

VARIABLES init_pc,    \* what main() does next
          pending,    \* received packets that were not elaborated
          received,   \* number of the last packet received
          current,    \* the packet being elaborated
          todo,       \* the locations it is still to be written to
          fields,     \* the internal data
          alive,      \* the daemon was not killed and did not exit
          backlog,    \* connections that wait for accept()
          table,      \* what each descriptor stands for
          schedule,   \* the registered queries, with their descriptors
          answer,     \* what each serving thread is about to write
          pc,         \* how far each application is in its program
          toDaemon,   \* messages sent by each application
          toApp,      \* replies written to each application
          reply,      \* what each application read last
          shown       \* of each query, the packet its application knows of

dataVars    == <<pending, received, current, todo, fields>>
servingVars == <<backlog, table, schedule, answer>>
appVars     == <<pc, toDaemon, toApp, reply, shown>>
vars        == <<init_pc, dataVars, alive, servingVars, appVars>>

Numbers == 0 .. NUM_PACKETS
Fds     == 0 .. Cardinality(Apps) - 1
Free    == "free"
Threads == {"manager", "scheduler"}

Task  == UNION {[app : {a}, fd : Fds, query : QueriesOf(a)] : a \in Apps}
Reply == UNION {[to : {a}, req_id : {q.req_id : q \in QueriesOf(a)}, number : Numbers,
                 member : {"u8", "i16", "i32"}] : a \in Apps}

Answer   == [fd : Fds, reply : Reply]
NoReply  == [to |-> "none"]
NoAnswer == [fd |-> -1]

StartUp == <<"invalidate", "init_queue", "init_net", "init_elab", "init_app_man", "init_sched">>

TypeOK ==
  /\ init_pc \in 1 .. Len(StartUp) + 1
  /\ pending \in Seq(Packets) /\ Len(pending) <= Capacity
  /\ received \in Numbers
  /\ current \in AnyPacket
  /\ todo \in Seq(Locations)
  /\ fields \in [Locations -> Numbers]
  /\ alive \in BOOLEAN
  /\ backlog \in Seq(Apps)
  /\ table \in [Fds -> Apps \cup {Free}]
  /\ schedule \subseteq Task
  /\ DOMAIN answer = Threads
  /\ \A t \in Threads : answer[t] \in Answer \cup {NoAnswer}
  /\ pc \in [Apps -> Nat]
  /\ \A a \in Apps :
       /\ ToSet(toApp[a]) \subseteq Reply /\ Len(toApp[a]) <= SockBuf
       /\ reply[a] \in Reply \cup {NoReply}
       /\ shown[a] \in [{q.req_id : q \in QueriesOf(a)} -> Numbers]

\* An application that is past its program ended, or was not started.
Ended(a) == pc[a] > Len(Program[a])

Init ==
  /\ init_pc = 1
  /\ pending = << >> /\ received = 0
  /\ current = ZeroPacket /\ todo = << >>
  /\ fields = [l \in Locations |-> 0]
  /\ alive = TRUE
  /\ backlog = << >>
  /\ table = [fd \in Fds |-> Free]
  /\ schedule = {}
  /\ answer = [t \in Threads |-> NoAnswer]
  /\ \E apps \in Together :
       pc = [a \in Apps |-> IF a \in apps THEN 1 ELSE Len(Program[a]) + 1]
  /\ toDaemon = [a \in Apps |-> << >>]
  /\ toApp = [a \in Apps |-> << >>]
  /\ reply = [a \in Apps |-> NoReply]
  /\ shown = [a \in Apps |-> [r \in {q.req_id : q \in QueriesOf(a)} |-> 0]]

-----------------------------------------------------------------------------
(* afdx.c *)

Started(init) == \E k \in 1 .. init_pc - 1 : StartUp[k] = init

\* main() and init_all(): every init function starts the thread of its file,
\* and the data is marked invalid before there are any threads.
Main ==
  /\ alive /\ init_pc <= Len(StartUp)
  /\ init_pc' = init_pc + 1
  /\ fields' = IF StartUp[init_pc] = "invalidate"
               THEN [l \in Locations |-> IF IsStamp(l) THEN 0 ELSE fields[l]]
               ELSE fields
  /\ UNCHANGED <<pending, received, current, todo, alive, servingVars, appVars>>

-----------------------------------------------------------------------------
(* The network side *)

\* A packet of the generator arrives; others before it may have been lost.
Receive(p) ==
  /\ Started("init_net")
  /\ p.payload > received
  /\ Len(pending) < Capacity
  /\ pending' = Append(pending, p)
  /\ received' = p.payload
  /\ UNCHANGED <<current, todo, fields>>

\* An elaboration that takes the latest packet first.
Take_Latest ==
  /\ Started("init_elab")
  /\ todo = << >> /\ pending # << >>
  /\ current' = Last(pending)
  /\ todo' = Assignments(Last(pending))
  /\ pending' = Front(pending)
  /\ UNCHANGED <<received, fields>>

Take ==
  /\ Started("init_elab")
  /\ todo = << >> /\ pending # << >>
  /\ current' = Head(pending)
  /\ todo' = Assignments(Head(pending))
  /\ pending' = Tail(pending)
  /\ UNCHANGED <<received, fields>>

\* The locations that some application asks for.
Watched == UNION {{LocationOf(q) : q \in QueriesOf(a)} : a \in Launched}

\* The next assignment of elaboration_thread() to a location that is watched,
\* with those around it, which nobody can see.
Assign ==
  /\ todo # << >>
  /\ LET seen    == {k \in DOMAIN todo : todo[k] \in Watched}
         n       == IF Cardinality(seen) > 1 THEN Min(seen) ELSE Len(todo)
         written == ToSet(SubSeq(todo, 1, n))
     IN /\ fields' = [l \in Locations |-> IF l \in written THEN current.payload ELSE fields[l]]
        /\ todo' = SubSeq(todo, n + 1, Len(todo))
  /\ UNCHANGED <<pending, received, current>>

NetworkSide ==
  /\ alive
  /\ Take \/ Assign \/ \E p \in Packets : Receive(p)
  /\ UNCHANGED <<init_pc, alive, servingVars, appVars>>

-----------------------------------------------------------------------------
(* serve_query() *)

\* The reply to a query, as it will be written to the descriptor.
AnswerTo(a, fd, query) ==
  [fd    |-> fd,
   reply |-> [to     |-> a,
              req_id |-> query.req_id,
              number |-> fields[LocationOf(query)],
              member |-> MemberOf(query.data_id)]]

\* There is an application at the other end, and it has not closed it.
Reading(a) == a # Free /\ ~Ended(a)

\* A write() that does not wait for room.
WriteReply_NoBlock(t) ==
  /\ answer[t] # NoAnswer
  /\ LET a == table[answer[t].fd]
     IN \/ /\ Reading(a)
           /\ toApp' = [toApp EXCEPT ![a] = Append(@, answer[t].reply)]
           /\ UNCHANGED alive
        \/ /\ ~Reading(a)
           /\ alive' = FALSE
           /\ UNCHANGED toApp
  /\ answer' = [answer EXCEPT ![t] = NoAnswer]
  /\ UNCHANGED <<backlog, table, schedule, pc, toDaemon, reply, shown>>

\* write(): to whom the descriptor stands for by now, and not before there is
\* room.  When nobody is there to read, the process ends.
WriteReply(t) ==
  /\ answer[t] # NoAnswer
  /\ LET a == table[answer[t].fd]
     IN \/ /\ Reading(a)
           /\ Len(toApp[a]) < SockBuf
           /\ toApp' = [toApp EXCEPT ![a] = Append(@, answer[t].reply)]
           /\ UNCHANGED alive
        \/ /\ ~Reading(a)
           /\ alive' = FALSE
           /\ UNCHANGED toApp
  /\ answer' = [answer EXCEPT ![t] = NoAnswer]
  /\ UNCHANGED <<backlog, table, schedule, pc, toDaemon, reply, shown>>

-----------------------------------------------------------------------------
(* application_manager(), with registration.c *)

FreeFds == {fd \in Fds : table[fd] = Free}

Accept ==
  /\ backlog # << >>
  /\ LET newfd == CHOOSE fd \in FreeFds : \A other \in FreeFds : fd <= other
     IN table' = [table EXCEPT ![newfd] = Head(backlog)]
  /\ backlog' = Tail(backlog)
  /\ UNCHANGED <<schedule, answer, toDaemon>>

\* A dispatcher that does not answer before there is data.
Dispatch_ValidOnly(fd) ==
  /\ table[fd] # Free
  /\ LET a == table[fd]
         m == Head(toDaemon[a])
         task == [app |-> a, fd |-> fd, query |-> m.query]
     IN /\ toDaemon[a] # << >>
        /\ toDaemon' = [toDaemon EXCEPT ![a] = Tail(@)]
        /\ \/ /\ m.type = "request"
              /\ answer' = IF fields[LocationOf(m.query)] = 0 THEN answer
                           ELSE [answer EXCEPT !["manager"] = AnswerTo(a, fd, m.query)]
              /\ UNCHANGED schedule
           \/ /\ m.type = "register"
              /\ schedule' = schedule \cup {task}
              /\ UNCHANGED answer
           \/ /\ m.type = "unregister"
              /\ schedule' = {k \in schedule : k.fd # fd \/ k.query.req_id # m.query.req_id}
              /\ UNCHANGED answer
  /\ UNCHANGED <<backlog, table>>

\* read() returns a message.
Dispatch(fd) ==
  /\ table[fd] # Free
  /\ LET a == table[fd]
         m == Head(toDaemon[a])
         task == [app |-> a, fd |-> fd, query |-> m.query]
     IN /\ toDaemon[a] # << >>
        /\ toDaemon' = [toDaemon EXCEPT ![a] = Tail(@)]
        /\ \/ /\ m.type = "request"
              /\ answer' = [answer EXCEPT !["manager"] = AnswerTo(a, fd, m.query)]
              /\ UNCHANGED schedule
           \/ /\ m.type = "register"
              /\ schedule' = schedule \cup {task}
              /\ UNCHANGED answer
           \/ /\ m.type = "unregister"
              /\ schedule' = {k \in schedule : k.fd # fd \/ k.query.req_id # m.query.req_id}
              /\ UNCHANGED answer
  /\ UNCHANGED <<backlog, table>>

\* read() returns the end of file, or an error first.
HangUp(fd) ==
  /\ table[fd] # Free /\ Ended(table[fd]) /\ toDaemon[table[fd]] = << >>
  /\ schedule' = {k \in schedule : k.fd # fd}
  /\ table' = [table EXCEPT ![fd] = Free]
  /\ UNCHANGED <<backlog, answer, toDaemon>>

Manager ==
  /\ Started("init_app_man") /\ alive
  /\ \/ WriteReply("manager")
     \/ /\ answer["manager"] = NoAnswer
        /\ Accept \/ \E fd \in Fds : Dispatch(fd) \/ HangUp(fd)
        /\ UNCHANGED <<alive, pc, toApp, reply, shown>>
  /\ UNCHANGED <<init_pc, dataVars>>

-----------------------------------------------------------------------------
(* The scheduler thread *)

\* A query that is registered is due, and its data is read.
Begin(a, q) ==
  /\ Started("init_sched") /\ alive
  /\ answer["scheduler"] = NoAnswer
  /\ \E task \in schedule :
       /\ task.app = a /\ task.query = q
       /\ answer' = [answer EXCEPT !["scheduler"] = AnswerTo(a, task.fd, q)]
  /\ UNCHANGED <<init_pc, dataVars, alive, backlog, table, schedule, appVars>>

Scheduler ==
  /\ alive
  /\ WriteReply("scheduler")
  /\ UNCHANGED <<init_pc, dataVars>>

-----------------------------------------------------------------------------
(* The applications *)

Exit(a) == pc' = [pc EXCEPT ![a] = Len(Program[a]) + 1]

Continue(a) == pc' = [pc EXCEPT ![a] = @ + 1]

Call(a) == Program[a][pc[a]]

\* Refused when nobody listens, and the application exits.
Connect(a) ==
  /\ Call(a).call = "connect"
  /\ IF alive /\ Started("init_app_man")
     THEN Continue(a) /\ backlog' = Append(backlog, a)
     ELSE Exit(a) /\ UNCHANGED backlog
  /\ UNCHANGED <<toDaemon, toApp, reply, shown>>

\* Also an application dies of a write that nobody can read.  What the daemon
\* holds at this moment is the least that the answer may be.
Write(a) ==
  /\ Call(a).call = "write"
  /\ IF alive
     THEN /\ Continue(a)
          /\ toDaemon' = [toDaemon EXCEPT ![a] = Append(@, Call(a))]
          /\ shown' = IF Call(a).type = "unregister" THEN shown
                      ELSE [shown EXCEPT ![a][Call(a).query.req_id] =
                              fields[LocationOf(Call(a).query)]]
     ELSE Exit(a) /\ UNCHANGED <<toDaemon, shown>>
  /\ UNCHANGED <<backlog, toApp, reply>>

\* read() and print.  When the daemon is gone, read() returns 0, which is not
\* looked at, so that what was read before is printed once more; or, if it left
\* messages unread, an error, and the application exits.
Read(a) ==
  /\ Call(a).call = "read"
  /\ \/ /\ toApp[a] # << >>
        /\ reply' = [reply EXCEPT ![a] = Head(toApp[a])]
        /\ toApp' = [toApp EXCEPT ![a] = Tail(@)]
        /\ shown' = IF Head(toApp[a]).to = a
                    THEN [shown EXCEPT ![a][Head(toApp[a]).req_id] = Head(toApp[a]).number]
                    ELSE shown
        /\ Continue(a)
     \/ /\ toApp[a] = << >> /\ ~alive
        /\ IF toDaemon[a] = << >> THEN Continue(a) ELSE Exit(a)
        /\ UNCHANGED <<toApp, reply, shown>>
  /\ UNCHANGED <<backlog, toDaemon>>

Close(a) ==
  /\ Call(a).call = "close"
  /\ Continue(a)
  /\ UNCHANGED <<backlog, toDaemon, toApp, reply, shown>>

\* Somebody starts the application.
Launch(a) ==
  /\ ~Ended(a) /\ pc[a] = 1
  /\ Connect(a)
  /\ UNCHANGED <<init_pc, dataVars, alive, table, schedule, answer>>

Application(a) ==
  /\ ~Ended(a)
  /\ Write(a) \/ Read(a) \/ Close(a)
  /\ UNCHANGED <<init_pc, dataVars, alive, table, schedule, answer>>

-----------------------------------------------------------------------------
Next ==
  \/ Main \/ NetworkSide
  \/ Manager \/ Scheduler
  \/ \E a \in Launched : \/ Launch(a) \/ Application(a)
                         \/ \E q \in QueriesOf(a) : Begin(a, q)

Spec == Init /\ [][Next]_vars

\* The threads and the applications that were started get their turn, and so
\* does every task that is on the schedule again and again.  Nobody need start
\* an application, and no packet need arrive.
FairSpec ==
  /\ Spec
  /\ WF_vars(Main) /\ WF_vars(Manager) /\ WF_vars(Scheduler)
  /\ \A a \in Launched : \A q \in QueriesOf(a) : SF_vars(Begin(a, q))
  /\ \A a \in Launched : WF_vars(Application(a))

-----------------------------------------------------------------------------
\* The member of a reply that an application prints is the one that the daemon
\* set, whichever of its queries it takes the reply for; it need not be so for a
\* reply that was written to a descriptor that changed hands.
PrintsWhatWasSet ==
  \A a \in Apps : reply[a] # NoReply /\ reply[a].to = a =>
    Prints(a, reply[a].req_id) = reply[a].member

\* What an application reads is never older than what the daemon had when it
\* asked, nor than what the application read before for the same query.
NeverShownOlder ==
  [][\A a \in Apps : \A r \in DOMAIN shown[a] : shown'[a][r] >= shown[a][r]]_shown

\* Started and not ended.
Running(a) == pc[a] > 1 /\ ~Ended(a)

\* The applications that were started come to their end: each gets all the
\* replies it counts on, or the daemon is gone.
AppsEnd == (\E a \in Launched : Running(a)) ~> (\A a \in Launched : ~Running(a))

\* "Unregisters an application, therefore all its queries.  This could happen if
\* an app disconnects or closes abruptly": when an application ended, and be it
\* in good order, the daemon goes on without its queries.
EndedIsUnregistered ==
  \A a \in Launched : Ended(a) ~> (alive /\ \A task \in schedule : task.app # a)

-----------------------------------------------------------------------------
(* Every section is that of one packet, but for what is still to be written *)

Settled(l) == IF l \in ToSet(todo) THEN current.payload ELSE fields[l]

PacketOf(section, number) ==
  IF number = 0 THEN ZeroPacket
  ELSE [identifier |-> IF section[1] = "engine" THEN AFDX_PACKET_TYPE_ENGINE
                                                ELSE AFDX_PACKET_TYPE_ADIRU,
        engine_id  |-> section[2],
        payload    |-> number]

\* The packet that all the measured values come from; of a section that mixes
\* them, none that there is.
SectionNode(section) ==
  LET values == {Settled(FieldAt(section, f)) : f \in FieldsOf(section[1])}
      number == IF Cardinality(values) = 1 THEN CHOOSE n \in values : TRUE ELSE -1
  IN [packet      |-> PacketOf(section, number),
      last_update |-> PacketOf(section, Settled(FieldAt(section, "last_update")))]

Store == INSTANCE PacketStore WITH
           data    <- [attitude |-> SectionNode(<<"attitude", 0>>),
                       speeds   |-> SectionNode(<<"speeds", 0>>),
                       engines  |-> [e \in Engines |-> SectionNode(<<"engine", e>>)]]

\* The data moves from packet to packet as a whole, in the order in which they
\* were received, although its fields are written one by one.
ImplementsStore == Store!StoreSpec

=============================================================================
