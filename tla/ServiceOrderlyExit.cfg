\* An application that ends in good order may take the daemon with it.
CONSTANTS
  NR_ENGINES = 3
  NoData = 0
  MaxReads = 2
  Capacity = 2
  SockBuf = 1
  Packets <- MixedPackets
  Together <- SubscriberAlone

SPECIFICATION FairSpec

PROPERTY EndedIsUnregistered

CHECK_DEADLOCK FALSE
