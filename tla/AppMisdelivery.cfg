\* An update is sent to the application that was given the descriptor next.
CONSTANTS
  Clients = {c1, c2}
  Tasks = {t1, t2}
  NoTask = NoTask
  ReqIds = {r1}
  InboxMax = 1
  SockBuf = 1
  MaxFd = 1
  Fds <- MCFds

SPECIFICATION Spec

INVARIANT UpdatesReachRegistrant

CHECK_DEADLOCK FALSE
