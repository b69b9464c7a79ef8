\* A descriptor that is closed twice takes the socket of another application along.
CONSTANTS
  Clients = {c1, c2}
  Tasks = {t1, t2}
  NoTask = NoTask
  ReqIds = {r1}
  InboxMax = 1
  SockBuf = 1
  MaxFd = 2
  Fds <- MCFds

SPECIFICATION LogSpec

INVARIANT ManagedIsOpen

CHECK_DEADLOCK FALSE
