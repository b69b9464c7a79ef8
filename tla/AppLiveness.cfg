\* A closed application is cleaned up, unless the daemon dies first.
CONSTANTS
  Clients = {c1, c2}
  Tasks = {t1}
  NoTask = NoTask
  ReqIds = {r1}
  InboxMax = 1
  SockBuf = 1
  MaxFd = 1
  Fds <- MCFds

SPECIFICATION FairSpec

PROPERTY ClosedIsCleanedUp

CHECK_DEADLOCK FALSE
