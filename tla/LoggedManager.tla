--------------------------- MODULE LoggedManager ---------------------------
(***************************************************************************)
(* AppManager with one more thread that logs: writeLog() of                *)
(* src/simplog.c opens and closes the log file for every message, so that  *)
(* descriptors come and go between any two steps of the application        *)
(* manager, which after an error closes one twice.                         *)
(***************************************************************************)
EXTENDS AppManager

VARIABLES log,      \* the descriptor the thread opened for its message
          logged    \* the message was written

logVars  == <<log, logged>>
loggedManagerVars == <<vars, logVars>>

Closed == -1   \* no descriptor

LogInit == Init /\ log = Closed /\ logged = FALSE

-----------------------------------------------------------------------------
(* writeLog() *)

OpenLog ==
  /\ log = Closed /\ FreeFds # {}
  /\ log' = Lowest(FreeFds)
  /\ table' = [table EXCEPT ![log'] = Log]
  /\ UNCHANGED <<alive, conn, logged>>

\* The message is written to the number, whatever it stands for by now: the
\* write waits and kills as any other, but nobody looks at the result.
WriteLog ==
  /\ log # Closed /\ ~logged
  /\ \/ table[log] # Free /\ serve_query(log)
     \/ table[log] = Free /\ UNCHANGED <<alive, conn>>
  /\ logged' = TRUE
  /\ UNCHANGED <<table, log>>

\* The number is closed, whatever it stands for by now.
CloseLog ==
  /\ log # Closed /\ logged
  /\ CloseTable(log)
  /\ log' = Closed /\ logged' = FALSE
  /\ UNCHANGED alive

LogThread ==
  /\ OpenLog \/ WriteLog \/ CloseLog
  /\ UNCHANGED <<registryVars, periodicVars, backlog, amVars, schedVars>>

-----------------------------------------------------------------------------
(* What the application manager does with what it takes for its sockets *)

\* A descriptor that is not open makes select() fail.  The sets keep what they
\* were called with, all that is managed, and accept() is called.
SelectFails ==
  /\ am_pc = "select"
  /\ \E fd \in managed : table[fd] = Free
  /\ am_pc' = "refused"
  /\ UNCHANGED <<alive, registryVars, scheduled, netVars, managed, rfds, closing>>

\* With the listening socket in the set of the exceptional ones the process
\* exits after accept().
RefusedExit ==
  /\ am_pc = "refused" /\ backlog # << >>
  /\ alive' = FALSE
  /\ UNCHANGED <<registryVars, scheduled, netVars, amVars>>

\* A log file that is taken for a socket: it was opened for appending, reading
\* starts with the old text, and no letter is a message type.
ReadLog ==
  /\ am_pc = "serve" /\ rfds # {}
  /\ table[fd_served] = Log /\ ~logged
  /\ rfds' = rfds \ {fd_served}
  /\ UNCHANGED <<registryVars, scheduled, alive, netVars, am_pc, managed, closing>>

\* At its end, where every message that is written leaves it, it is taken for
\* the socket of an application that is gone.
ReadLogEnd ==
  /\ am_pc = "serve" /\ rfds # {}
  /\ table[fd_served] = Log
  /\ closing' = 1
  /\ unregister_application(fd_served)
  /\ am_pc' = "drop"
  /\ UNCHANGED <<alive, netVars, managed, rfds>>

\* read() of a descriptor that is not open is an error.
ReadClosed ==
  /\ am_pc = "serve" /\ rfds # {}
  /\ table[fd_served] = Free
  /\ closing' = 2
  /\ unregister_application(fd_served)
  /\ am_pc' = "drop"
  /\ UNCHANGED <<alive, netVars, managed, rfds>>

MistakenSocket ==
  /\ SelectFails \/ RefusedExit \/ ReadLog \/ ReadLogEnd \/ ReadClosed
  /\ UNCHANGED ToManager

-----------------------------------------------------------------------------
LogNext ==
  \/ Next /\ UNCHANGED logVars
  \/ alive /\ MistakenSocket /\ UNCHANGED logVars
  \/ alive /\ LogThread

LogSpec == LogInit /\ [][LogNext]_loggedManagerVars

=============================================================================
