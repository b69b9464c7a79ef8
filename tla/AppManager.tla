----------------------------- MODULE AppManager -----------------------------
(***************************************************************************)
(* The application side of the daemon: the select() loop of                *)
(* src/application_manager.c, which owns the sockets of the applications   *)
(* and the registry, the scheduler thread that sends them their updates,   *)
(* and the file descriptors both refer to by number.                       *)
(*                                                                         *)
(* A descriptor that is closed is handed out again by the next accept().   *)
(* A write waits as long as the application does not read and its socket   *)
(* is full.  A write to a connection whose other end is gone kills the     *)
(* process (SIGPIPE), and so does one to a closed descriptor               *)
(* (serve_query() exits).  Here nothing is logged; LoggedManager adds a    *)
(* thread that opens and closes descriptors for the log file.              *)
(***************************************************************************)
EXTENDS Registration

CONSTANTS InboxMax,  \* bound on the messages that wait for the daemon in a socket
          SockBuf    \* how many messages of the daemon a socket takes

Listener == -1      \* am_sockfd
Free     == "free"  \* a descriptor that is not open
Log      == "log"   \* one that another thread opened for the log file

ASSUME FdAssumption == Fds \subseteq Nat

ASSUME SocketAssumption == InboxMax \in Nat \ {0} /\ SockBuf \in Nat \ {0}

ASSUME ClientAssumption == {Free, Log} \cap Clients = {}

VARIABLES alive,      \* the process was not killed and did not exit
          table,      \* what each descriptor stands for
          backlog,    \* connections that wait for accept()
          conn,       \* the connections, seen from the applications
          am_pc,      \* where the application manager is
          managed,    \* managed_fds, the listening socket aside
          rfds,       \* what select() returned and is not served yet
          closing,    \* how often it is about to close the first of rfds
          sched_pc,   \* where the scheduler thread is
          out         \* the update the scheduler thread is about to send

netVars   == <<table, backlog, conn>>
amVars    == <<am_pc, managed, rfds, closing>>
schedVars == <<sched_pc, out>>
vars      == <<registryVars, periodicVars, alive, netVars, amVars, schedVars>>

Message == [type : {"request", "other"}] \cup [type : {"register", "unregister"}, req_id : ReqIds]

\* The application's end is open or not; if it was closed before it had read
\* everything, the other end gets an error before it gets the end of file.
Connection == [end    : {"none", "open", "closed"},
               inbox  : Seq(Message),
               unread : 0 .. SockBuf,
               reset  : BOOLEAN]
NoConnection == [end |-> "none", inbox |-> << >>, unread |-> 0, reset |-> FALSE]

TypeOK ==
  /\ RegistryTypeOK
  /\ alive \in BOOLEAN
  /\ table \in [Fds -> Clients \cup {Free, Log}]
  /\ backlog \in Seq(Clients)
  /\ conn \in [Clients -> Connection]
  /\ am_pc \in {"select", "accept", "serve", "reply", "drop", "close"}
  /\ managed \subseteq Fds
  /\ rfds \subseteq Fds \cup {Listener}
  /\ closing \in 0 .. 2
  /\ sched_pc \in {"idle", "begun", "write"}
  /\ out \in Query \cup {NoQuery}

Init ==
  /\ RegistryInit
  /\ alive = TRUE
  /\ table = [fd \in Fds |-> Free]
  /\ backlog = << >>
  /\ conn = [c \in Clients |-> NoConnection]
  /\ am_pc = "select"
  /\ managed = {}
  /\ rfds = {}
  /\ closing = 0
  /\ sched_pc = "idle"
  /\ out = NoQuery

Lowest(fds) == CHOOSE fd \in fds : \A other \in fds : fd <= other

\* The kernel hands out the lowest descriptor that is not open.
FreeFds == {fd \in Fds : table[fd] = Free}

IsSocket(fd) == table[fd] \in Clients

\* close(): a connection that the application closed too is gone.
CloseTable(fd) ==
  /\ table' = [table EXCEPT ![fd] = Free]
  /\ conn' = IF IsSocket(fd) /\ conn[table[fd]].end = "closed"
             THEN [conn EXCEPT ![table[fd]] = NoConnection]
             ELSE conn

-----------------------------------------------------------------------------
(* The applications *)

ToApplications == <<registryVars, periodicVars, alive, table, amVars, schedVars>>

Connect(c) ==
  /\ conn[c].end = "none"
  /\ conn' = [conn EXCEPT ![c].end = "open"]
  /\ backlog' = Append(backlog, c)

\* Accepted or not, the other end takes messages until its socket is closed.
Connected(c) == c \in ToSet(backlog) \/ \E fd \in Fds : table[fd] = c

Send(c, m) ==
  /\ conn[c].end = "open" /\ Connected(c)
  /\ Len(conn[c].inbox) < InboxMax
  /\ conn' = [conn EXCEPT ![c].inbox = Append(@, m)]
  /\ UNCHANGED backlog

Read(c) ==
  /\ conn[c].end = "open" /\ conn[c].unread > 0
  /\ conn' = [conn EXCEPT ![c].unread = @ - 1]
  /\ UNCHANGED backlog

\* An application closes its end, or dies.
Close(c) ==
  /\ conn[c].end = "open"
  /\ conn' = [conn EXCEPT ![c] =
                IF Connected(c)
                THEN [@ EXCEPT !.end = "closed", !.unread = 0, !.reset = conn[c].unread > 0]
                ELSE NoConnection]
  /\ UNCHANGED backlog

Application ==
  /\ alive
  /\ \E c \in Clients :
       Connect(c) \/ (\E m \in Message : Send(c, m)) \/ Read(c) \/ Close(c)
  /\ UNCHANGED ToApplications

-----------------------------------------------------------------------------
(* Sending data *)

\* write() at the end of serve_query(): it waits for room in the socket, for as
\* long as the other end is open.
serve_query(fd) ==
  \/ /\ IsSocket(fd) /\ conn[table[fd]].end = "open"
     /\ conn[table[fd]].unread < SockBuf
     /\ conn' = [conn EXCEPT ![table[fd]].unread = @ + 1]
     /\ UNCHANGED alive
  \/ /\ IsSocket(fd) /\ conn[table[fd]].end # "open"
     /\ alive' = FALSE
     /\ UNCHANGED conn
  \/ /\ ~IsSocket(fd)
     /\ alive' = (table[fd] = Log)
     /\ UNCHANGED conn

-----------------------------------------------------------------------------
(* application_manager() *)

ToManager == <<schedVars, running>>

\* A wait for data only.
Readable_DataOnly(fd) ==
  \/ table[fd] = Log
  \/ IsSocket(fd) /\ conn[table[fd]].inbox # << >>

\* Data, an end of file or an error is waiting; a plain file is always ready.
Readable(fd) ==
  \/ table[fd] = Log
  \/ IsSocket(fd) /\ (conn[table[fd]].inbox # << >> \/ conn[table[fd]].end = "closed")

Ready == {fd \in managed : Readable(fd)} \cup (IF backlog = << >> THEN {} ELSE {Listener})

Select ==
  /\ am_pc = "select"
  /\ \A fd \in managed : table[fd] # Free
  /\ Ready # {}
  /\ rfds' = Ready
  /\ am_pc' = IF Listener \in Ready THEN "accept" ELSE "serve"
  /\ UNCHANGED <<registryVars, scheduled, alive, netVars, managed, closing>>

\* accept() blocks until there is a connection.
Accept ==
  /\ am_pc = "accept"
  /\ backlog # << >>
  /\ FreeFds # {}
  /\ LET newfd == Lowest(FreeFds)
     IN /\ table' = [table EXCEPT ![newfd] = Head(backlog)]
        /\ managed' = managed \cup {newfd}
  /\ backlog' = Tail(backlog)
  /\ rfds' = rfds \ {Listener}
  /\ am_pc' = "serve"
  /\ UNCHANGED <<registryVars, scheduled, alive, conn, closing>>

\* Out of descriptors accept() fails, and the process exits.
AcceptFails ==
  /\ am_pc = "accept"
  /\ backlog # << >>
  /\ FreeFds = {}
  /\ alive' = FALSE
  /\ UNCHANGED <<registryVars, scheduled, netVars, amVars>>

\* Descriptors are served in ascending order.
fd_served == Lowest(rfds)

Served ==
  /\ am_pc = "serve" /\ rfds = {}
  /\ am_pc' = "select"
  /\ UNCHANGED <<registryVars, scheduled, alive, netVars, managed, rfds, closing>>

\* The switch over the type of a message, from the connection c.
Dispatch(c, m) ==
  \/ /\ m.type = "request"
     /\ am_pc' = "reply"
     /\ UNCHANGED <<registryVars, scheduled, alive, rfds>>
  \/ /\ m.type = "register"
     /\ \/ register_query(fd_served, c, m.req_id) /\ UNCHANGED alive
        \/ NoMemory /\ alive' = FALSE /\ UNCHANGED <<registryVars, scheduled>>
     /\ am_pc' = "serve"
     /\ rfds' = rfds \ {fd_served}
  \/ /\ m.type = "unregister"
     /\ unregister_query(fd_served, m.req_id)
     /\ am_pc' = "drop"
     /\ UNCHANGED <<alive, rfds>>
  \/ /\ m.type = "other"
     /\ am_pc' = "serve"
     /\ rfds' = rfds \ {fd_served}
     /\ UNCHANGED <<registryVars, scheduled, alive>>

\* read() returns a message.
ReadMessage ==
  /\ am_pc = "serve" /\ rfds # {}
  /\ IsSocket(fd_served)
  /\ LET c == table[fd_served]
     IN /\ conn[c].inbox # << >>
        /\ conn' = [conn EXCEPT ![c].inbox = Tail(@)]
        /\ Dispatch(c, Head(conn[c].inbox))
  /\ UNCHANGED <<table, backlog, managed, closing>>

\* The answer to a request; all other applications wait meanwhile.
Reply ==
  /\ am_pc = "reply"
  /\ serve_query(fd_served)
  /\ am_pc' = "serve"
  /\ rfds' = rfds \ {fd_served}
  /\ UNCHANGED <<registryVars, scheduled, table, backlog, managed, closing>>

\* read() returns 0 or an error.  After an error the descriptor is closed and
\* everything is done once more, for lack of an else.
ReadEnd ==
  /\ am_pc = "serve" /\ rfds # {}
  /\ IsSocket(fd_served)
  /\ conn[table[fd_served]].inbox = << >>
  /\ conn[table[fd_served]].end = "closed"
  /\ closing' = IF conn[table[fd_served]].reset THEN 2 ELSE 1
  /\ unregister_application(fd_served)
  /\ am_pc' = "drop"
  /\ UNCHANGED <<alive, netVars, managed, rfds>>

DropVictim ==
  /\ am_pc = "drop"
  /\ UnscheduleVictim \/ FreeVictim
  /\ UNCHANGED <<alive, netVars, amVars>>

Dropped ==
  /\ am_pc = "drop" /\ victims = << >>
  /\ am_pc' = IF closing = 0 THEN "serve" ELSE "close"
  /\ rfds' = IF closing = 0 THEN rfds \ {fd_served} ELSE rfds
  /\ UNCHANGED <<registryVars, scheduled, alive, netVars, managed, closing>>

\* A close that keeps the descriptor in the set.
CloseFd_NoClear ==
  /\ am_pc = "close"
  /\ CloseTable(fd_served)
  /\ closing' = closing - 1
  /\ am_pc' = IF closing = 2 THEN "close" ELSE "serve"
  /\ rfds' = IF closing = 2 THEN rfds ELSE rfds \ {fd_served}
  /\ UNCHANGED <<registryVars, scheduled, alive, backlog, managed>>

\* A close that is always repeated.
CloseFd_Forever ==
  /\ am_pc = "close"
  /\ CloseTable(fd_served)
  /\ managed' = managed \ {fd_served}
  /\ closing' = closing - 1
  /\ UNCHANGED <<registryVars, scheduled, alive, backlog, am_pc, rfds>>

\* close() and FD_CLR().  When this was an error, the descriptor is closed a
\* second time, whatever it stands for by then.
CloseFd ==
  /\ am_pc = "close"
  /\ CloseTable(fd_served)
  /\ managed' = managed \ {fd_served}
  /\ closing' = closing - 1
  /\ am_pc' = IF closing = 2 THEN "close" ELSE "serve"
  /\ rfds' = IF closing = 2 THEN rfds ELSE rfds \ {fd_served}
  /\ UNCHANGED <<registryVars, scheduled, alive, backlog>>

ManagerStep ==
  \/ Select \/ Accept \/ AcceptFails \/ Served \/ ReadMessage \/ Reply \/ ReadEnd
  \/ DropVictim \/ Dropped \/ CloseFd

ApplicationManager == alive /\ ManagerStep /\ UNCHANGED ToManager

-----------------------------------------------------------------------------
(* The scheduler thread: serve_scheduler_query() *)

ToScheduler == <<registryVars, table, backlog, amVars>>

\* Some task is due; Scheduler says when.
Begin ==
  /\ sched_pc = "idle"
  /\ \E task \in Tasks : BeginTask(task)
  /\ sched_pc' = "begun"
  /\ UNCHANGED <<alive, conn, out>>

\* The mutex was released: the task may have been freed, and its memory used for
\* another.  What was freed may still be there, or it leads nowhere, or to a
\* descriptor that is not open, and the process dies.
FetchQuery ==
  /\ sched_pc = "begun"
  /\ \/ /\ out' = query[running]
        /\ sched_pc' = "write"
        /\ UNCHANGED alive
     \/ /\ running \notin live
        /\ alive' = FALSE
        /\ UNCHANGED schedVars
  /\ UNCHANGED <<periodicVars, conn>>

SendUpdate ==
  /\ sched_pc = "write"
  /\ serve_query(out.fd)
  /\ EndTask
  /\ sched_pc' = "idle"
  /\ out' = NoQuery

SchedulerThread == alive /\ (Begin \/ FetchQuery \/ SendUpdate) /\ UNCHANGED ToScheduler

-----------------------------------------------------------------------------
Next == Application \/ ApplicationManager \/ SchedulerThread

Spec == Init /\ [][Next]_vars

\* Both threads get their turn; the applications owe nothing.
FairSpec == Spec /\ WF_vars(ApplicationManager) /\ WF_vars(SchedulerThread)

-----------------------------------------------------------------------------
\* A descriptor that is registered stands for the application that registered:
\* no application inherits queries with the number of its descriptor.
QueriesNotInherited ==
  \A fd \in registered : \A task \in ToSet(queries[fd]) :
    table[fd] = query[task].client

\* select() is asked about open sockets only, all the sockets of applications
\* and nothing else.
ManagedIsOpen == managed = {fd \in Fds : IsSocket(fd)}

\* An update is on its way only to the application that registered for it.
UpdatesReachRegistrant ==
  sched_pc = "write" /\ IsSocket(out.fd) => table[out.fd] = out.client

\* The socket of an application that closed its end is closed, its messages
\* served and its queries unregistered, unless the process dies first, or the
\* manager waits for ever in its answer to another application, which is open
\* and does not read.
ClosedIsCleanedUp ==
  \A c \in Clients :
    conn[c].end = "closed" ~> \/ conn[c].end # "closed" \/ ~alive
                              \/ [](am_pc = "reply")

=============================================================================
