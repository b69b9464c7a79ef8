\* The registry, the schedule, the sockets and the managed descriptors agree.
CONSTANTS
  Clients = {c1, c2}
  Tasks = {t1, t2}
  NoTask = NoTask
  ReqIds = {r1}
  InboxMax = 1
  SockBuf = 1
  MaxFd = 1
  Fds <- MCFds

SPECIFICATION Spec

INVARIANTS
  TypeOK
  RegistryConsistent
  QueriesNotInherited
  ManagedIsOpen

SYMMETRY Symmetry

CHECK_DEADLOCK FALSE
