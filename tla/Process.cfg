SPECIFICATION FairSpec
CONSTANTS
  c1 = c1
  c2 = c2
  c3 = c3
  Connections <- MCConnections
  InterfaceLists <- MCInterfaceLists
  MaxTasks = 2
  Descriptors = 9
INVARIANTS
  TypeOK
  OneServer
  HandlersSeeConfiguration
  DiesOnlyBeforeAnnouncing
  AnnouncedServersListen
  

  
