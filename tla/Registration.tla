---------------------------- MODULE Registration ----------------------------
(***************************************************************************)
(* The applications and the queries they registered (src/registration.c).  *)
(* A task is a query node together with its handler, the node of the       *)
(* scheduler that points to it; PeriodicTasks is the scheduler.  The lists *)
(* belong to the application manager: registering_mutex is taken by no     *)
(* other thread.  What two threads share is the memory of the tasks, which *)
(* the application manager frees and the scheduler thread reads without a  *)
(* mutex.                                                                  *)
(***************************************************************************)
EXTENDS PeriodicTasks, Integers, SequencesExt

CONSTANTS Fds,       \* file descriptors
          Clients,   \* connections of applications
          ReqIds     \* the request ids applications use

VARIABLES registered,   \* descriptors that have a node in registered_applications
          queries,      \* of each descriptor, its tasks, latest first
          query,        \* memory of the tasks: whom to send which request's data
          live,         \* tasks whose memory was allocated and not freed
          victims       \* tasks that are being unregistered

registryVars == <<registered, queries, query, live, victims>>

\* The connection is not in the C structures: it says whom the descriptor stood
\* for when the query was registered.
Query   == [fd : Fds, client : Clients, req_id : ReqIds]
NoQuery == [fd |-> -1, client |-> "none", req_id |-> "none"]

RegistryTypeOK ==
  /\ scheduled \subseteq Tasks
  /\ running \in Tasks \cup {NoTask}
  /\ registered \subseteq Fds
  /\ queries \in [Fds -> Seq(Tasks)]
  /\ query \in [Tasks -> Query \cup {NoQuery}]
  /\ live \subseteq Tasks
  /\ victims \in Seq(Tasks)

RegistryInit ==
  /\ PeriodicInit
  /\ registered = {}
  /\ queries = [fd \in Fds |-> << >>]
  /\ query = [t \in Tasks |-> NoQuery]
  /\ live = {}
  /\ victims = << >>

-----------------------------------------------------------------------------
\* malloc() fails, and the process exits.
NoMemory == live = Tasks

\* malloc() returns any memory that is not in use.  The node is complete before
\* the scheduler is told of it, so that the whole is one step to others.
register_query(fd, client, req_id) ==
  \E task \in Tasks \ live :
    /\ live' = live \cup {task}
    /\ query' = [query EXCEPT ![task] = [fd |-> fd, client |-> client, req_id |-> req_id]]
    /\ registered' = registered \cup {fd}
    /\ queries' = [queries EXCEPT ![fd] = <<task>> \o @]
    /\ AddTask(task)
    /\ UNCHANGED victims

\* Where unregister_query() finds a task: the latest with that request id.
Found(fd, req_id) ==
  {k \in DOMAIN queries[fd] :
     /\ query[queries[fd][k]].req_id = req_id
     /\ \A j \in 1 .. k - 1 : query[queries[fd][j]].req_id # req_id}

\* An unchaining that loses what comes after the task.
unregister_query_Cut(fd, req_id) ==
  \/ /\ fd \in registered
     /\ \E k \in Found(fd, req_id) :
          /\ victims' = <<queries[fd][k]>>
          /\ queries' = [queries EXCEPT ![fd] = SubSeq(@, 1, k - 1)]
     /\ UNCHANGED <<registered, query, live, scheduled, running>>
  \/ /\ fd \notin registered \/ Found(fd, req_id) = {}
     /\ UNCHANGED <<registryVars, periodicVars>>

\* Unchain the task; the application stays registered, with no queries at all
\* if this was its last.  Nothing happens if there is no such task.
unregister_query(fd, req_id) ==
  \/ /\ fd \in registered
     /\ \E k \in Found(fd, req_id) :
          /\ victims' = <<queries[fd][k]>>
          /\ queries' = [queries EXCEPT ![fd] = RemoveAt(@, k)]
     /\ UNCHANGED <<registered, query, live, scheduled, running>>
  \/ /\ fd \notin registered \/ Found(fd, req_id) = {}
     /\ UNCHANGED <<registryVars, periodicVars>>

\* An unregistration that forgets the queries.
unregister_application_Shallow(fd) ==
  /\ registered' = registered \ {fd}
  /\ UNCHANGED <<queries, query, live, victims, scheduled, running>>

\* Unchain the application; its tasks are dropped one by one.
unregister_application(fd) ==
  /\ registered' = registered \ {fd}
  /\ victims' = queries[fd]
  /\ queries' = [queries EXCEPT ![fd] = << >>]
  /\ UNCHANGED <<query, live, scheduled, running>>

\* unschedule() takes the task off the schedule under the scheduler's mutex ...
UnscheduleVictim ==
  /\ victims # << >> /\ Head(victims) \in scheduled
  /\ RemoveTask(Head(victims))
  /\ UNCHANGED registryVars

\* ... and the handler and the query node are freed after that, whatever the
\* scheduler thread is doing with them.
FreeVictim ==
  /\ victims # << >> /\ Head(victims) \notin scheduled
  /\ live' = live \ {Head(victims)}
  /\ victims' = Tail(victims)
  /\ UNCHANGED <<registered, queries, query, scheduled, running>>

-----------------------------------------------------------------------------
\* The tasks on the list of a registered application.
Registered == UNION {ToSet(queries[fd]) : fd \in registered}

\* The registry, the schedule and the memory agree whenever nothing is being
\* unregistered: every task on the schedule is on the list of the application
\* its query names, and no memory is in use for anything else.
RegistryConsistent ==
  victims = << >> =>
    /\ Registered = scheduled
    /\ Registered = live
    /\ \A fd \in registered : /\ IsInjective(queries[fd])
                              /\ \A task \in ToSet(queries[fd]) : query[task].fd = fd

=============================================================================
