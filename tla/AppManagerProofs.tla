-------------------------- MODULE AppManagerProofs --------------------------
(***************************************************************************)
(* That the registry, the sockets and the descriptors of the application   *)
(* manager agree at every step, whatever the applications and the          *)
(* scheduler thread do; and how far they do when another thread logs.      *)
(***************************************************************************)
EXTENDS LoggedManager, RegistrationProofs

\* A descriptor with queries stands for the connection that registered them.
RegistrantsConnected ==
  \A fd \in Fds : \A task \in ToSet(queries[fd]) : table[fd] = query[task].client

\* Where the loop is says what is left to do: tasks are dropped in one place
\* only, and a descriptor that is about to be closed has no queries any more.
LoopPlaces ==
  /\ am_pc # "drop" => victims = << >>
  /\ am_pc \in {"serve", "reply", "drop", "close"} => rfds \subseteq Fds
  /\ am_pc \in {"reply", "drop", "close"} => rfds # {}
  /\ am_pc \in {"select", "accept", "serve", "reply"} => closing = 0
  /\ am_pc = "close" => closing \in {1, 2}
  /\ closing # 0 => queries[fd_served] = << >>

AppInv ==
  /\ TypeOK
  /\ RegistryInv
  /\ ManagedIsOpen
  /\ RegistrantsConnected
  /\ LoopPlaces

\* The scheduler thread looks at a task only after it began it.
TaskBegun == sched_pc = "begun" => running \in Tasks

-----------------------------------------------------------------------------
\* The least of some descriptors is one of them.
LEMMA LowestIsOne ==
  ASSUME NEW fds, fds \subseteq Nat, fds # {}
  PROVE  Lowest(fds) \in fds
<1>1. PICK m \in fds : \A other \in fds : m <= other
  BY LeastNumber
<1> QED
  BY <1>1 DEF Lowest

LEMMA ServedIsFd ==
  ASSUME rfds \subseteq Fds, rfds # {}
  PROVE  fd_served \in rfds /\ fd_served \in Fds
<1>1. rfds \subseteq Nat
  BY FdAssumption
<1> QED
  BY <1>1, LowestIsOne DEF fd_served

\* A connection stays one when a field of it changes.
LEMMA ConnectionChanges ==
  ASSUME NEW cs \in [Clients -> Connection], NEW c \in Clients
  PROVE  /\ \A n \in 0 .. SockBuf : [cs EXCEPT ![c].unread = n] \in [Clients -> Connection]
         /\ [cs EXCEPT ![c].end = "open"] \in [Clients -> Connection]
         /\ [cs EXCEPT ![c] = NoConnection] \in [Clients -> Connection]
         /\ \A s \in Seq(Message) : [cs EXCEPT ![c].inbox = s] \in [Clients -> Connection]
         /\ \A b \in BOOLEAN :
              [cs EXCEPT ![c] = [@ EXCEPT !.end = "closed", !.unread = 0, !.reset = b]]
                \in [Clients -> Connection]
<1>1. cs[c] \in Connection
  OBVIOUS
<1>2. NoConnection \in Connection /\ 0 \in 0 .. SockBuf
  BY EmptySeq, SocketAssumption DEF NoConnection, Connection
<1> QED
  BY <1>1, <1>2 DEF Connection

LEMMA CloseTableType ==
  ASSUME TypeOK, NEW fd \in Fds, CloseTable(fd)
  PROVE  /\ table' = [table EXCEPT ![fd] = Free]
         /\ table' \in [Fds -> Clients \cup {Free, Log}]
         /\ conn' \in [Clients -> Connection]
<1>1. table \in [Fds -> Clients \cup {Free, Log}] /\ conn \in [Clients -> Connection]
  BY DEF TypeOK
<1>2. table' = [table EXCEPT ![fd] = Free]
  BY DEF CloseTable
<1>3. conn' \in [Clients -> Connection]
  BY <1>1, ConnectionChanges DEF CloseTable, IsSocket
<1> QED
  BY <1>1, <1>2, <1>3

LEMMA ServeQueryType ==
  ASSUME NEW fd, conn \in [Clients -> Connection], alive \in BOOLEAN, serve_query(fd)
  PROVE  conn' \in [Clients -> Connection] /\ alive' \in BOOLEAN
<1>1. CASE /\ IsSocket(fd) /\ conn[table[fd]].unread < SockBuf /\ alive' = alive
           /\ conn' = [conn EXCEPT ![table[fd]].unread = @ + 1]
  <2>1. table[fd] \in Clients /\ conn[table[fd]].unread \in 0 .. SockBuf
    BY <1>1 DEF IsSocket, Connection
  <2>2. conn[table[fd]].unread + 1 \in 0 .. SockBuf
    BY <1>1, <2>1, SocketAssumption
  <2>3. QED
    BY <1>1, <2>1, <2>2, ConnectionChanges
<1>2. CASE conn' = conn /\ alive' \in BOOLEAN
  BY <1>2
<1> QED
  BY <1>1, <1>2 DEF serve_query

-----------------------------------------------------------------------------
LEMMA AppInit == Init => AppInv
<1> SUFFICES ASSUME Init PROVE AppInv
  OBVIOUS
<1>1. RegistryInit /\ RegistryInv /\ RegistryTypeOK
  BY RegistryInitInv DEF Init, RegistryInv
<1>2. queries = [fd \in Fds |-> << >>] /\ victims = << >>
  BY <1>1 DEF RegistryInit
<1>3. NoConnection \in Connection
  BY EmptySeq, SocketAssumption DEF NoConnection, Connection
<1>4. TypeOK
  BY <1>1, <1>3, EmptySeq DEF Init, TypeOK
<1>5. ManagedIsOpen
  BY ClientAssumption DEF Init, ManagedIsOpen, IsSocket
<1>6. RegistrantsConnected
  BY <1>2, EmptyList DEF RegistrantsConnected
<1>7. LoopPlaces
  BY <1>2 DEF Init, LoopPlaces
<1> QED
  BY <1>1, <1>4, <1>5, <1>6, <1>7 DEF AppInv

\* Applications touch nothing but their connections.
LEMMA ApplicationStep ==
  ASSUME AppInv, Application
  PROVE  AppInv'
<1>1. UNCHANGED ToApplications
  BY DEF Application
<1> USE <1>1 DEF ToApplications, registryVars, periodicVars, amVars, schedVars
<1>2. conn \in [Clients -> Connection] /\ backlog \in Seq(Clients)
  BY DEF AppInv, TypeOK
<1>3. conn' \in [Clients -> Connection] /\ backlog' \in Seq(Clients)
  <2>1. PICK c \in Clients : Connect(c) \/ (\E m \in Message : Send(c, m)) \/ Read(c) \/ Close(c)
    BY DEF Application
  <2>2. CASE Connect(c)
    BY <1>2, <2>2, ConnectionChanges, AppendProperties DEF Connect
  <2>3. CASE \E m \in Message : Send(c, m)
    <3>1. PICK m \in Message : Send(c, m)
      BY <2>3
    <3>2. conn[c].inbox \in Seq(Message)
      BY <1>2 DEF Connection
    <3>3. Append(conn[c].inbox, m) \in Seq(Message)
      BY <3>2, AppendProperties
    <3>4. QED
      BY <1>2, <3>1, <3>3, ConnectionChanges DEF Send
  <2>4. CASE Read(c)
    <3>1. conn[c].unread \in 0 .. SockBuf /\ conn[c].unread > 0
      BY <1>2, <2>4 DEF Read, Connection
    <3>2. conn[c].unread - 1 \in 0 .. SockBuf
      BY <3>1, SocketAssumption
    <3>3. QED
      BY <1>2, <2>4, <3>2, ConnectionChanges DEF Read
  <2>5. CASE Close(c)
    <3>1. (conn[c].unread > 0) \in BOOLEAN
      OBVIOUS
    <3>2. QED
      BY <1>2, <2>5, <3>1, ConnectionChanges DEF Close
  <2>6. QED
    BY <2>1, <2>2, <2>3, <2>4, <2>5
<1>4. RegistryInv'
  BY RegistryUnchanged DEF AppInv, TypeOK, RegistryTypeOK
<1>5. TypeOK'
  BY <1>3, <1>4 DEF AppInv, TypeOK, RegistryInv
<1>6. ManagedIsOpen' /\ RegistrantsConnected'
  BY DEF AppInv, ManagedIsOpen, IsSocket, RegistrantsConnected
<1>7. LoopPlaces'
  BY DEF AppInv, LoopPlaces, fd_served
<1> QED
  BY <1>4, <1>5, <1>6, <1>7 DEF AppInv

-----------------------------------------------------------------------------
(* The application manager *)

\* A step that leaves the registry alone keeps its invariant, and the type of
\* what it also leaves alone.
LEMMA RegistryAside ==
  ASSUME AppInv, UNCHANGED <<registryVars, scheduled>>, UNCHANGED ToManager
  PROVE  RegistryInv' /\ RegistryTypeOK'
<1>1. running' \in Tasks \cup {NoTask}
  BY DEF AppInv, TypeOK, RegistryTypeOK, ToManager
<1> QED
  BY <1>1, RegistryUnchanged DEF AppInv, RegistryInv

LEMMA SelectStep ==
  ASSUME AppInv, Select, UNCHANGED ToManager
  PROVE  AppInv'
<1> USE DEF registryVars, netVars, ToManager, schedVars
<1>1. /\ am_pc = "select" /\ rfds' = Ready
      /\ am_pc' = IF Listener \in Ready THEN "accept" ELSE "serve"
      /\ UNCHANGED <<registryVars, scheduled, alive, netVars, managed, closing>>
  BY DEF Select
<1>2. RegistryInv' /\ RegistryTypeOK'
  BY <1>1, RegistryAside
<1>3. Ready \subseteq Fds \cup {Listener}
  BY DEF Ready, AppInv, TypeOK
<1>4. TypeOK'
  BY <1>1, <1>2, <1>3 DEF AppInv, TypeOK
<1>5. ManagedIsOpen' /\ RegistrantsConnected'
  BY <1>1 DEF AppInv, ManagedIsOpen, IsSocket, RegistrantsConnected
<1>6. LoopPlaces'
  BY <1>1, <1>3 DEF AppInv, LoopPlaces
<1> QED
  BY <1>2, <1>4, <1>5, <1>6 DEF AppInv

\* A descriptor that is handed out has no queries from before.
LEMMA AcceptStep ==
  ASSUME AppInv, Accept, UNCHANGED ToManager
  PROVE  AppInv'
<1> USE DEF registryVars, ToManager, schedVars
<1> DEFINE newfd == Lowest(FreeFds)
<1>1. newfd \in Fds /\ table[newfd] = Free
  <2>1. FreeFds \subseteq Nat /\ FreeFds # {}
    BY FdAssumption DEF FreeFds, Accept
  <2>2. QED
    BY <2>1, LowestIsOne DEF FreeFds
<1>2. /\ am_pc = "accept" /\ backlog # << >>
      /\ table' = [table EXCEPT ![newfd] = Head(backlog)]
      /\ managed' = managed \cup {newfd}
      /\ backlog' = Tail(backlog)
      /\ rfds' = rfds \ {Listener} /\ am_pc' = "serve"
      /\ UNCHANGED <<registryVars, scheduled, alive, conn, closing>>
  BY DEF Accept
<1> HIDE DEF newfd
<1>3. RegistryInv' /\ RegistryTypeOK'
  BY <1>2, RegistryAside
<1>4. /\ table \in [Fds -> Clients \cup {Free, Log}] /\ backlog \in Seq(Clients)
      /\ managed \subseteq Fds /\ rfds \subseteq Fds \cup {Listener}
  BY DEF AppInv, TypeOK
<1>5. Head(backlog) \in Clients /\ backlog' \in Seq(Clients)
  BY <1>2, <1>4, HeadTailProperties
<1>6. /\ table' \in [Fds -> Clients \cup {Free, Log}]
      /\ \A fd \in Fds : table'[fd] = IF fd = newfd THEN Head(backlog) ELSE table[fd]
  BY <1>1, <1>2, <1>4, <1>5
<1>7. TypeOK'
  BY <1>1, <1>2, <1>3, <1>4, <1>5, <1>6 DEF AppInv, TypeOK
<1>8. ManagedIsOpen'
  BY <1>1, <1>2, <1>5, <1>6 DEF AppInv, ManagedIsOpen, IsSocket
<1>9. RegistrantsConnected'
  <2> SUFFICES ASSUME NEW fd \in Fds, NEW task \in ToSet(queries[fd])
               PROVE  table'[fd] = query[task].client
    BY <1>2 DEF RegistrantsConnected
  <2>1. table[fd] = query[task].client
    BY DEF AppInv, RegistrantsConnected
  <2>2. task \in Tasks
    BY ElementOfSeq, LenProperties DEF ToSet, AppInv, TypeOK, RegistryTypeOK
  <2>3. query[task].client \in Clients \cup {"none"}
    BY <2>2 DEF AppInv, TypeOK, RegistryTypeOK, Query, NoQuery
  <2>4. fd # newfd
    BY <1>1, <2>1, <2>3, ClientAssumption DEF Free
  <2>5. QED
    BY <1>6, <2>1, <2>4
<1>10. LoopPlaces'
  BY <1>2, <1>4, FdAssumption DEF AppInv, LoopPlaces
<1> QED
  BY <1>3, <1>7, <1>8, <1>9, <1>10 DEF AppInv

LEMMA AcceptFailsStep ==
  ASSUME AppInv, AcceptFails, UNCHANGED ToManager
  PROVE  AppInv'
<1> USE DEF registryVars, netVars, amVars, ToManager, schedVars
<1>1. alive' = FALSE /\ UNCHANGED <<registryVars, scheduled, netVars, amVars>>
  BY DEF AcceptFails
<1>2. RegistryInv' /\ RegistryTypeOK'
  BY <1>1, RegistryAside
<1>3. TypeOK'
  BY <1>1, <1>2 DEF AppInv, TypeOK
<1>4. ManagedIsOpen' /\ RegistrantsConnected' /\ LoopPlaces'
  BY <1>1 DEF AppInv, ManagedIsOpen, IsSocket, RegistrantsConnected, LoopPlaces, fd_served
<1> QED
  BY <1>2, <1>3, <1>4 DEF AppInv

LEMMA ServedStep ==
  ASSUME AppInv, Served, UNCHANGED ToManager
  PROVE  AppInv'
<1> USE DEF registryVars, netVars, ToManager, schedVars
<1>1. /\ am_pc = "serve" /\ am_pc' = "select"
      /\ UNCHANGED <<registryVars, scheduled, alive, netVars, managed, rfds, closing>>
  BY DEF Served
<1>2. RegistryInv' /\ RegistryTypeOK'
  BY <1>1, RegistryAside
<1>3. TypeOK'
  BY <1>1, <1>2 DEF AppInv, TypeOK
<1>4. ManagedIsOpen' /\ RegistrantsConnected' /\ LoopPlaces'
  BY <1>1 DEF AppInv, ManagedIsOpen, IsSocket, RegistrantsConnected, LoopPlaces
<1> QED
  BY <1>2, <1>3, <1>4 DEF AppInv

\* Whatever the message asks for, it is done for the connection that sent it.
LEMMA ReadMessageStep ==
  ASSUME AppInv, ReadMessage, UNCHANGED ToManager
  PROVE  AppInv'
<1> USE DEF ToManager, schedVars
<1> DEFINE c      == table[fd_served]
           m      == Head(conn[c].inbox)
           req_id == m.req_id
<1>1. /\ am_pc = "serve" /\ rfds # {} /\ IsSocket(fd_served)
      /\ conn[c].inbox # << >>
      /\ conn' = [conn EXCEPT ![c].inbox = Tail(@)]
      /\ Dispatch(c, m)
      /\ UNCHANGED <<table, backlog, managed, closing>>
  BY DEF ReadMessage
<1>2. rfds \subseteq Fds /\ closing = 0 /\ victims = << >>
  BY <1>1 DEF AppInv, LoopPlaces
<1>3. fd_served \in Fds /\ c \in Clients
  BY <1>1, <1>2, ServedIsFd DEF IsSocket
<1>4. /\ conn \in [Clients -> Connection] /\ conn[c].inbox \in Seq(Message)
      /\ alive \in BOOLEAN
  BY <1>3 DEF AppInv, TypeOK, Connection
<1>5. m \in Message /\ Tail(conn[c].inbox) \in Seq(Message)
  BY <1>1, <1>4, HeadTailProperties
<1>6. conn' \in [Clients -> Connection]
  BY <1>1, <1>3, <1>4, <1>5, ConnectionChanges
<1>7. m.type = "register" => req_id \in ReqIds
  <2> HIDE DEF m
  <2>1. QED
    BY <1>5 DEF Message
<1>8. \/ /\ am_pc' \in {"serve", "reply"} /\ rfds' \subseteq rfds
         /\ am_pc' = "reply" => rfds' = rfds
         /\ \/ alive' \in BOOLEAN /\ UNCHANGED <<registryVars, scheduled>>
            \/ /\ am_pc' = "serve" /\ req_id \in ReqIds /\ alive' = alive
               /\ register_query(fd_served, c, req_id)
      \/ /\ am_pc' = "drop" /\ rfds' = rfds /\ alive' = alive
         /\ unregister_query(fd_served, req_id)
  BY <1>1, <1>4, <1>7 DEF Dispatch
<1> HIDE DEF c, m, req_id
<1>9. /\ RegistryInv' /\ RegistryTypeOK' /\ alive' \in BOOLEAN
      /\ am_pc' # "drop" => victims' = << >>
      /\ \A g \in Fds : \A t \in ToSet(queries'[g]) :
           \/ t \in ToSet(queries[g]) /\ query'[t] = query[t]
           \/ g = fd_served /\ query'[t].client = c
  <2>1. CASE alive' \in BOOLEAN /\ UNCHANGED <<registryVars, scheduled>>
    BY <1>2, <2>1, RegistryAside DEF registryVars
  <2>2. CASE req_id \in ReqIds /\ register_query(fd_served, c, req_id) /\ alive' = alive
    <3>1. victims' = victims
      BY <2>2 DEF register_query
    <3>2. QED
      BY <1>2, <1>3, <1>4, <2>2, <3>1, RegisterInv DEF AppInv, TypeOK, RegistryInv
  <2>3. CASE am_pc' = "drop" /\ unregister_query(fd_served, req_id) /\ alive' = alive
    BY <1>2, <1>3, <1>4, <2>3, UnregisterInv DEF AppInv, TypeOK, RegistryInv
  <2>4. QED
    BY <1>8, <2>1, <2>2, <2>3
<1>10. TypeOK'
  BY <1>1, <1>2, <1>6, <1>8, <1>9 DEF AppInv, TypeOK
<1>11. ManagedIsOpen'
  BY <1>1 DEF AppInv, ManagedIsOpen, IsSocket
<1>12. RegistrantsConnected'
  BY <1>1, <1>9 DEF AppInv, RegistrantsConnected, c
<1>13. LoopPlaces'
  BY <1>1, <1>2, <1>8, <1>9 DEF LoopPlaces
<1> QED
  BY <1>9, <1>10, <1>11, <1>12, <1>13 DEF AppInv

\* The answer changes the connection only, or ends the process.
LEMMA ReplyStep ==
  ASSUME AppInv, Reply, UNCHANGED ToManager
  PROVE  AppInv'
<1> USE DEF registryVars, ToManager, schedVars
<1>1. /\ am_pc = "reply" /\ serve_query(fd_served)
      /\ am_pc' = "serve" /\ rfds' = rfds \ {fd_served}
      /\ UNCHANGED <<registryVars, scheduled, table, backlog, managed, closing>>
  BY DEF Reply
<1>2. RegistryInv' /\ RegistryTypeOK'
  BY <1>1, RegistryAside
<1>3. rfds \subseteq Fds /\ closing = 0 /\ victims = << >>
  BY <1>1 DEF AppInv, LoopPlaces
<1>4. conn' \in [Clients -> Connection] /\ alive' \in BOOLEAN
  BY <1>1, ServeQueryType DEF AppInv, TypeOK
<1>5. TypeOK'
  BY <1>1, <1>2, <1>3, <1>4 DEF AppInv, TypeOK
<1>6. ManagedIsOpen' /\ RegistrantsConnected'
  BY <1>1 DEF AppInv, ManagedIsOpen, IsSocket, RegistrantsConnected
<1>7. LoopPlaces'
  BY <1>1, <1>3 DEF LoopPlaces
<1> QED
  BY <1>2, <1>5, <1>6, <1>7 DEF AppInv

\* After the end of the messages the application is unregistered.
LEMMA ReadEndStep ==
  ASSUME AppInv, ReadEnd, UNCHANGED ToManager
  PROVE  AppInv'
<1> USE DEF netVars, ToManager, schedVars
<1>1. /\ am_pc = "serve" /\ rfds # {}
      /\ closing' \in {1, 2} /\ am_pc' = "drop"
      /\ unregister_application(fd_served)
      /\ UNCHANGED <<alive, netVars, managed, rfds>>
  BY DEF ReadEnd
<1>2. rfds \subseteq Fds /\ victims = << >>
  BY <1>1 DEF AppInv, LoopPlaces
<1>3. fd_served \in Fds
  BY <1>1, <1>2, ServedIsFd
<1>4. /\ RegistryInv' /\ query' = query
      /\ \A g \in Fds : ToSet(queries'[g]) \subseteq ToSet(queries[g])
  BY <1>1, <1>2, <1>3, UnregisterApplicationInv DEF AppInv
<1>5. queries'[fd_served] = << >>
  BY <1>1, <1>3 DEF unregister_application, AppInv, TypeOK, RegistryTypeOK
<1>6. TypeOK'
  BY <1>1, <1>4 DEF AppInv, TypeOK, RegistryInv
<1>7. ManagedIsOpen' /\ RegistrantsConnected'
  BY <1>1, <1>4 DEF AppInv, ManagedIsOpen, IsSocket, RegistrantsConnected
<1>8. LoopPlaces'
  BY <1>1, <1>2, <1>5 DEF LoopPlaces, fd_served
<1> QED
  BY <1>4, <1>6, <1>7, <1>8 DEF AppInv

LEMMA DropVictimStep ==
  ASSUME AppInv, DropVictim, UNCHANGED ToManager
  PROVE  AppInv'
<1> USE DEF netVars, amVars, ToManager, schedVars
<1>1. /\ am_pc = "drop" /\ UNCHANGED <<alive, netVars, amVars>>
      /\ UnscheduleVictim \/ FreeVictim
  BY DEF DropVictim
<1>2. RegistryInv' /\ RegistryTypeOK'
  BY <1>1, UnscheduleVictimInv, FreeVictimInv DEF AppInv, RegistryInv
<1>3. queries' = queries /\ query' = query
  BY <1>1 DEF UnscheduleVictim, FreeVictim, registryVars
<1>4. TypeOK'
  BY <1>1, <1>2 DEF AppInv, TypeOK
<1>5. ManagedIsOpen' /\ RegistrantsConnected'
  BY <1>1, <1>3 DEF AppInv, ManagedIsOpen, IsSocket, RegistrantsConnected
<1>6. LoopPlaces'
  BY <1>1, <1>3 DEF AppInv, LoopPlaces, fd_served
<1> QED
  BY <1>2, <1>4, <1>5, <1>6 DEF AppInv

LEMMA DroppedStep ==
  ASSUME AppInv, Dropped, UNCHANGED ToManager
  PROVE  AppInv'
<1> USE DEF registryVars, netVars, ToManager, schedVars
<1>1. /\ am_pc = "drop" /\ victims = << >>
      /\ am_pc' = IF closing = 0 THEN "serve" ELSE "close"
      /\ rfds' = IF closing = 0 THEN rfds \ {fd_served} ELSE rfds
      /\ UNCHANGED <<registryVars, scheduled, alive, netVars, managed, closing>>
  BY DEF Dropped
<1>2. RegistryInv' /\ RegistryTypeOK'
  BY <1>1, RegistryAside
<1>3. closing \in 0 .. 2 /\ rfds \subseteq Fds /\ rfds # {}
  BY <1>1 DEF AppInv, TypeOK, LoopPlaces
<1>4. TypeOK'
  BY <1>1, <1>2, <1>3 DEF AppInv, TypeOK
<1>5. ManagedIsOpen' /\ RegistrantsConnected'
  BY <1>1 DEF AppInv, ManagedIsOpen, IsSocket, RegistrantsConnected
<1>6. LoopPlaces'
  BY <1>1, <1>3 DEF AppInv, LoopPlaces, fd_served
<1> QED
  BY <1>2, <1>4, <1>5, <1>6 DEF AppInv

\* The descriptor that is closed has no queries, the first time and the second.
LEMMA CloseFdStep ==
  ASSUME AppInv, CloseFd, UNCHANGED ToManager
  PROVE  AppInv'
<1> USE DEF registryVars, ToManager, schedVars
<1>1. /\ am_pc = "close" /\ CloseTable(fd_served)
      /\ managed' = managed \ {fd_served} /\ closing' = closing - 1
      /\ am_pc' = (IF closing = 2 THEN "close" ELSE "serve")
      /\ rfds' = (IF closing = 2 THEN rfds ELSE rfds \ {fd_served})
      /\ UNCHANGED <<registryVars, scheduled, alive, backlog>>
  BY DEF CloseFd
<1>2. RegistryInv' /\ RegistryTypeOK'
  BY <1>1, RegistryAside
<1>3. /\ closing \in {1, 2} /\ rfds \subseteq Fds /\ rfds # {}
      /\ queries[fd_served] = << >> /\ victims = << >>
  BY <1>1 DEF AppInv, LoopPlaces
<1>4. fd_served \in Fds
  BY <1>3, ServedIsFd
<1>5. /\ table' = [table EXCEPT ![fd_served] = Free]
      /\ table' \in [Fds -> Clients \cup {Free, Log}]
      /\ conn' \in [Clients -> Connection]
  BY <1>1, <1>4, CloseTableType DEF AppInv
<1>6. \A fd \in Fds : table'[fd] = IF fd = fd_served THEN Free ELSE table[fd]
  BY <1>5 DEF AppInv, TypeOK
<1>7. TypeOK'
  BY <1>1, <1>2, <1>3, <1>5 DEF AppInv, TypeOK
<1>8. ManagedIsOpen'
  BY <1>1, <1>6, ClientAssumption DEF AppInv, ManagedIsOpen, IsSocket
<1>9. RegistrantsConnected'
  BY <1>1, <1>3, <1>6, EmptyList DEF AppInv, RegistrantsConnected
<1>10. LoopPlaces'
  BY <1>1, <1>3 DEF LoopPlaces, fd_served
<1> QED
  BY <1>2, <1>7, <1>8, <1>9, <1>10 DEF AppInv

-----------------------------------------------------------------------------
(* The scheduler thread *)

\* It changes what it is doing, the connections, and whether the process lives.
LEMMA SchedulerThreadStep ==
  ASSUME AppInv, TaskBegun, SchedulerThread
  PROVE  AppInv' /\ TaskBegun'
<1>1. UNCHANGED ToScheduler
  BY DEF SchedulerThread
<1> USE <1>1 DEF ToScheduler, registryVars, amVars
<1>2. /\ conn \in [Clients -> Connection] /\ alive \in BOOLEAN
      /\ sched_pc \in {"idle", "begun", "write"} /\ out \in Query \cup {NoQuery}
      /\ query \in [Tasks -> Query \cup {NoQuery}]
      /\ running \in Tasks \cup {NoTask} /\ scheduled \subseteq Tasks
  BY DEF AppInv, TypeOK, RegistryTypeOK
<1>3. /\ conn' \in [Clients -> Connection] /\ alive' \in BOOLEAN
      /\ sched_pc' \in {"idle", "begun", "write"} /\ out' \in Query \cup {NoQuery}
      /\ scheduled' = scheduled /\ running' \in Tasks \cup {NoTask}
      /\ TaskBegun'
  <2> USE DEF TaskBegun
  <2>1. CASE Begin
    BY <1>2, <2>1 DEF Begin, BeginTask
  <2>2. CASE FetchQuery
    BY <1>2, <2>2 DEF FetchQuery, periodicVars, schedVars
  <2>3. CASE SendUpdate
    BY <1>2, <2>3, ServeQueryType DEF SendUpdate, EndTask
  <2>4. QED
    BY <2>1, <2>2, <2>3 DEF SchedulerThread
<1>4. RegistryInv'
  BY <1>3, RegistryUnchanged DEF AppInv
<1>5. TypeOK'
  BY <1>3, <1>4 DEF AppInv, TypeOK, RegistryInv
<1>6. ManagedIsOpen' /\ RegistrantsConnected' /\ LoopPlaces'
  BY DEF AppInv, ManagedIsOpen, IsSocket, RegistrantsConnected, LoopPlaces, fd_served
<1> QED
  BY <1>3, <1>4, <1>5, <1>6 DEF AppInv

-----------------------------------------------------------------------------
\* The invariant holds at the start and is kept by every step.
LEMMA AppManagerInit == Init => AppInv /\ TaskBegun
  BY AppInit DEF Init, TaskBegun

LEMMA AppManagerStep ==
  AppInv /\ TaskBegun /\ [Next]_vars => AppInv' /\ TaskBegun'
<1> SUFFICES ASSUME AppInv, TaskBegun, [Next]_vars PROVE AppInv' /\ TaskBegun'
  OBVIOUS
<1>1. CASE Application
  <2>1. TaskBegun'
    BY <1>1 DEF Application, ToApplications, periodicVars, schedVars, TaskBegun
  <2>2. QED
    BY <1>1, <2>1, ApplicationStep
<1>2. CASE ApplicationManager
  <2>1. ManagerStep /\ UNCHANGED ToManager
    BY <1>2 DEF ApplicationManager
  <2>2. TaskBegun'
    BY <2>1 DEF ToManager, schedVars, TaskBegun
  <2>3. AppInv'
    BY <2>1, SelectStep, AcceptStep, AcceptFailsStep, ServedStep, ReadMessageStep,
       ReplyStep, ReadEndStep, DropVictimStep, DroppedStep, CloseFdStep DEF ManagerStep
  <2>4. QED
    BY <2>2, <2>3
<1>3. CASE SchedulerThread
  BY <1>3, SchedulerThreadStep
<1>4. CASE UNCHANGED vars
  <2> USE <1>4 DEF vars, registryVars, periodicVars, netVars, amVars, schedVars
  <2>1. RegistryInv'
    BY RegistryUnchanged DEF AppInv, TypeOK, RegistryTypeOK
  <2>2. TypeOK'
    BY <2>1 DEF AppInv, TypeOK, RegistryInv
  <2>3. ManagedIsOpen' /\ RegistrantsConnected' /\ LoopPlaces' /\ TaskBegun'
    BY DEF AppInv, ManagedIsOpen, IsSocket, RegistrantsConnected, LoopPlaces, fd_served,
           TaskBegun
  <2>4. QED
    BY <2>1, <2>2, <2>3 DEF AppInv
<1> QED
  BY <1>1, <1>2, <1>3, <1>4 DEF Next

LEMMA AppManagerInvHolds == Spec => [](AppInv /\ TaskBegun)
  BY AppManagerInit, AppManagerStep, PTL DEF Spec

\* Every variable has its type, with any number of applications, descriptors,
\* tasks and messages.
THEOREM TypeCorrect == Spec => []TypeOK
<1>1. AppInv => TypeOK
  BY DEF AppInv
<1> QED
  BY <1>1, AppManagerInvHolds, PTL

\* The lists of src/registration.c, the schedule and the memory in use agree
\* whenever no unregistration is under way, however registrations,
\* unregistrations and updates interleave.
THEOREM RegistryStaysConsistent == Spec => []RegistryConsistent
<1>1. AppInv => RegistryConsistent
  BY InvIsConsistent DEF AppInv
<1> QED
  BY <1>1, AppManagerInvHolds, PTL

\* A descriptor that accept() hands out again brings no queries of the
\* application that had it before: application_manager() unregisters an
\* application before it closes its descriptor.
THEOREM NoQueriesInherited == Spec => []QueriesNotInherited
<1>1. AppInv => QueriesNotInherited
  BY DEF AppInv, TypeOK, RegistryTypeOK, RegistrantsConnected, QueriesNotInherited
<1> QED
  BY <1>1, AppManagerInvHolds, PTL

-----------------------------------------------------------------------------
(* With a thread that logs *)

\* The loop serves managed descriptors only, and another one is open for the
\* log file.
LogInv ==
  /\ table \in [Fds -> Clients \cup {Free, Log}]
  /\ backlog \in Seq(Clients)
  /\ managed \subseteq Fds
  /\ closing \in 0 .. 2
  /\ ManagedIsOpen
  /\ am_pc # "refused"
  /\ am_pc = "accept" => rfds \subseteq managed \cup {Listener}
  /\ am_pc \in {"serve", "reply", "drop", "close"} => rfds \subseteq managed
  /\ am_pc \in {"reply", "drop", "close"} => rfds # {}
  /\ am_pc \in {"select", "accept", "serve", "reply"} => closing = 0
  /\ am_pc = "close" => closing # 0
  /\ log = Closed \/ (log \in Fds /\ table[log] = Log)

\* No managed descriptor is open for the log, or not open.
LEMMA ManagedIsSocket ==
  ASSUME LogInv, NEW fd \in managed
  PROVE  fd \in Fds /\ table[fd] \in Clients /\ table[fd] # Free /\ table[fd] # Log /\ fd # log
<1>1. fd \in Fds /\ table[fd] \in Clients
  BY DEF LogInv, ManagedIsOpen, IsSocket
<1>2. table[fd] # Free /\ table[fd] # Log
  BY <1>1, ClientAssumption
<1>3. fd # Closed
  BY <1>1, FdAssumption DEF Closed
<1> QED
  BY <1>1, <1>2, <1>3 DEF LogInv

LEMMA ServedIsManaged ==
  ASSUME LogInv, rfds # {}, am_pc \in {"serve", "reply", "drop", "close"}
  PROVE  fd_served \in rfds /\ fd_served \in managed
<1>1. rfds \subseteq Fds /\ rfds \subseteq managed
  BY DEF LogInv
<1> QED
  BY <1>1, ServedIsFd

LEMMA LogAcceptStep ==
  ASSUME LogInv, Accept, UNCHANGED log
  PROVE  LogInv'
<1> DEFINE newfd == Lowest(FreeFds)
<1>1. newfd \in Fds /\ table[newfd] = Free
  <2>1. FreeFds \subseteq Nat /\ FreeFds # {}
    BY FdAssumption DEF FreeFds, Accept
  <2>2. QED
    BY <2>1, LowestIsOne DEF FreeFds
<1>2. /\ am_pc = "accept" /\ backlog # << >>
      /\ table' = [table EXCEPT ![newfd] = Head(backlog)]
      /\ managed' = managed \cup {newfd}
      /\ backlog' = Tail(backlog)
      /\ rfds' = rfds \ {Listener} /\ am_pc' = "serve" /\ closing' = closing
  BY DEF Accept
<1> HIDE DEF newfd
<1>3. Head(backlog) \in Clients /\ backlog' \in Seq(Clients)
  BY <1>2, HeadTailProperties DEF LogInv
<1>4. /\ table' \in [Fds -> Clients \cup {Free, Log}]
      /\ \A fd \in Fds : table'[fd] = IF fd = newfd THEN Head(backlog) ELSE table[fd]
  BY <1>1, <1>2, <1>3 DEF LogInv
<1>5. ManagedIsOpen'
  BY <1>1, <1>2, <1>3, <1>4 DEF LogInv, ManagedIsOpen, IsSocket
<1>6. log' = Closed \/ (log' \in Fds /\ table'[log'] = Log)
  <2>1. log # newfd \/ log = Closed
    BY <1>1 DEF LogInv, Free, Log
  <2>2. QED
    BY <1>4, <2>1 DEF LogInv
<1> QED
  BY <1>1, <1>2, <1>3, <1>4, <1>5, <1>6 DEF LogInv

\* What is closed once is the descriptor that is served, and nobody else's.
LEMMA LogCloseStep ==
  ASSUME LogInv, closing # 2, CloseFd, UNCHANGED log
  PROVE  LogInv'
<1>1. /\ am_pc = "close" /\ CloseTable(fd_served)
      /\ managed' = managed \ {fd_served} /\ closing' = closing - 1
      /\ am_pc' = "serve" /\ rfds' = rfds \ {fd_served} /\ UNCHANGED backlog
  BY DEF CloseFd
<1>2. closing = 1 /\ rfds # {} /\ rfds \subseteq managed
  BY <1>1 DEF LogInv
<1>3. fd_served \in managed /\ fd_served \in Fds /\ fd_served # log
  BY <1>1, <1>2, ServedIsManaged, ManagedIsSocket
<1>4. /\ table' \in [Fds -> Clients \cup {Free, Log}]
      /\ \A fd \in Fds : table'[fd] = IF fd = fd_served THEN Free ELSE table[fd]
  BY <1>1, <1>3 DEF LogInv, CloseTable
<1>5. ManagedIsOpen'
  BY <1>1, <1>4, ClientAssumption DEF LogInv, ManagedIsOpen, IsSocket
<1>6. log' = Closed \/ (log' \in Fds /\ table'[log'] = Log)
  BY <1>3, <1>4 DEF LogInv
<1> QED
  BY <1>1, <1>2, <1>4, <1>5, <1>6 DEF LogInv

\* The other steps of the application manager leave the descriptors alone.
LEMMA LogManagerStep ==
  ASSUME LogInv, closing # 2, ManagerStep \/ MistakenSocket, UNCHANGED log
  PROVE  LogInv'
<1>1. CASE Select
  <2>1. /\ am_pc = "select" /\ rfds' = Ready
        /\ am_pc' = IF Listener \in Ready THEN "accept" ELSE "serve"
        /\ UNCHANGED <<table, backlog, managed, closing>>
    BY <1>1 DEF Select, netVars
  <2>2. Ready \subseteq managed \cup {Listener}
    BY DEF Ready
  <2>3. QED
    BY <2>1, <2>2 DEF LogInv, ManagedIsOpen, IsSocket
<1>2. CASE ReadMessage \/ Reply \/ Dropped \/ Served
  <2>1. /\ UNCHANGED <<table, backlog, managed, closing>>
        /\ am_pc \in {"serve", "reply", "drop"}
        /\ am_pc' = "close" => am_pc = "drop" /\ closing # 0
        /\ am_pc' \in {"select", "reply", "drop", "close", "serve"}
        /\ am_pc' \in {"reply", "drop", "close"} => rfds # {} /\ rfds' = rfds
        /\ am_pc = "drop" /\ am_pc' # "close" => closing = 0
        /\ rfds' \subseteq rfds
    <3>1. CASE ReadMessage
      <4>1. /\ UNCHANGED <<table, backlog, managed, closing>>
            /\ am_pc = "serve" /\ rfds # {}
            /\ \/ am_pc' \in {"reply", "drop"} /\ rfds' = rfds
               \/ am_pc' = "serve" /\ rfds' = rfds \ {fd_served}
        BY <3>1 DEF ReadMessage, Dispatch
      <4>2. QED
        BY <4>1
    <3>2. CASE Reply
      BY <3>2 DEF Reply
    <3>3. CASE Dropped
      <4>1. rfds # {}
        BY <3>3 DEF Dropped, LogInv
      <4>2. QED
        BY <3>3, <4>1 DEF Dropped, netVars
    <3>4. CASE Served
      BY <3>4 DEF Served, netVars
    <3>5. QED
      BY <1>2, <3>1, <3>2, <3>3, <3>4
  <2>2. am_pc # "drop" => closing = 0
    BY <2>1 DEF LogInv
  <2>3. rfds' \subseteq managed
    BY <2>1 DEF LogInv
  <2>4. QED
    BY <2>1, <2>2, <2>3 DEF LogInv, ManagedIsOpen, IsSocket
<1>3. CASE ReadEnd
  <2>1. /\ UNCHANGED <<table, backlog, managed, rfds>>
        /\ am_pc = "serve" /\ rfds # {} /\ am_pc' = "drop" /\ closing' \in 1 .. 2
    BY <1>3 DEF ReadEnd, netVars
  <2>2. QED
    BY <2>1 DEF LogInv, ManagedIsOpen, IsSocket
<1>4. CASE DropVictim \/ AcceptFails
  <2>1. UNCHANGED <<table, backlog, managed, rfds, am_pc, closing>>
    BY <1>4 DEF DropVictim, AcceptFails, netVars, amVars
  <2>2. QED
    BY <2>1 DEF LogInv, ManagedIsOpen, IsSocket
<1>5. CASE MistakenSocket
  <2>1. ~SelectFails
    BY ManagedIsSocket DEF SelectFails
  <2>2. ~RefusedExit
    BY DEF RefusedExit, LogInv
  <2>3. ~ReadLog /\ ~ReadLogEnd /\ ~ReadClosed
    BY ServedIsManaged, ManagedIsSocket DEF ReadLog, ReadLogEnd, ReadClosed
  <2>4. QED
    BY <1>5, <2>1, <2>2, <2>3 DEF MistakenSocket
<1> QED
  BY <1>1, <1>2, <1>3, <1>4, <1>5, LogAcceptStep, LogCloseStep DEF ManagerStep

\* The log is opened with a descriptor that is not open, and closed with it.
LEMMA LogThreadStep ==
  ASSUME LogInv, LogThread
  PROVE  LogInv'
<1>1. UNCHANGED <<backlog, managed, rfds, am_pc, closing>>
  BY DEF LogThread, amVars
<1>2. /\ table' \in [Fds -> Clients \cup {Free, Log}]
      /\ log' = Closed \/ (log' \in Fds /\ table'[log'] = Log)
      /\ \A fd \in Fds : table'[fd] # table[fd] => {table[fd], table'[fd]} = {Free, Log}
  <2>1. CASE OpenLog
    <3>1. FreeFds \subseteq Nat /\ FreeFds # {}
      BY <2>1, FdAssumption DEF FreeFds, OpenLog
    <3>2. Lowest(FreeFds) \in Fds /\ table[Lowest(FreeFds)] = Free
      BY <3>1, LowestIsOne DEF FreeFds
    <3>3. log' = Lowest(FreeFds) /\ table' = [table EXCEPT ![log'] = Log]
      BY <2>1 DEF OpenLog
    <3>4. QED
      BY <3>2, <3>3 DEF LogInv
  <2>2. CASE WriteLog
    BY <2>2 DEF WriteLog, LogInv
  <2>3. CASE CloseLog
    BY <2>3 DEF CloseLog, CloseTable, LogInv
  <2>4. QED
    BY <2>1, <2>2, <2>3 DEF LogThread
<1>3. ManagedIsOpen'
  BY <1>1, <1>2, ClientAssumption DEF LogInv, ManagedIsOpen, IsSocket
<1> QED
  BY <1>1, <1>2, <1>3 DEF LogInv

LEMMA LogInitInv == LogInit => LogInv
  BY EmptySeq, ClientAssumption
     DEF LogInit, Init, LogInv, ManagedIsOpen, IsSocket, Closed

LEMMA LogStep == LogInv /\ closing # 2 /\ [LogNext]_loggedManagerVars => LogInv'
<1> SUFFICES ASSUME LogInv, closing # 2, [LogNext]_loggedManagerVars PROVE LogInv'
  OBVIOUS
<1>1. CASE UNCHANGED loggedManagerVars
  BY <1>1 DEF loggedManagerVars, vars, netVars, amVars, logVars, LogInv, ManagedIsOpen, IsSocket
<1>2. CASE Application /\ UNCHANGED logVars
  <2>1. UNCHANGED <<table, amVars>>
    BY <1>2 DEF Application, ToApplications
  <2>2. backlog' \in Seq(Clients)
    BY <1>2, AppendProperties
       DEF Application, Connect, Send, Read, Close, LogInv
  <2>3. QED
    BY <1>2, <2>1, <2>2 DEF amVars, logVars, LogInv, ManagedIsOpen, IsSocket
<1>3. CASE SchedulerThread /\ UNCHANGED logVars
  BY <1>3 DEF SchedulerThread, ToScheduler, amVars, logVars, LogInv, ManagedIsOpen, IsSocket
<1>4. CASE (ManagerStep \/ MistakenSocket) /\ UNCHANGED logVars
  BY <1>4, LogManagerStep DEF logVars
<1> QED
  BY <1>1, <1>2, <1>3, <1>4, LogThreadStep DEF LogNext, Next, ApplicationManager

\* select() waits for the sockets of the applications, all of them and nothing
\* else, even while another thread opens and closes descriptors for the log
\* file, as long as no read() fails: it is only after an error that a
\* descriptor is closed twice.
THEOREM OneCloseIsSafe == LogSpec /\ [](closing # 2) => []ManagedIsOpen
<1>1. LogInv => ManagedIsOpen
  BY DEF LogInv
<1> QED
  BY <1>1, LogInitInv, LogStep, PTL DEF LogSpec

=============================================================================
