\* From the packets of the generator to what the sample applications print.
CONSTANTS
  NR_ENGINES = 3
  NoData = 0
  MaxReads = 2
  Capacity = 2
  SockBuf = 1
  Packets <- AdiruPackets
  Together <- AskerAndSubscriber

SPECIFICATION FairSpec

INVARIANTS
  TypeOK
  PrintsWhatWasSet

PROPERTIES
  NeverShownOlder
  ImplementsStore
  AppsEnd

CHECK_DEADLOCK FALSE
