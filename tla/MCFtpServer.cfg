CONSTANTS
  c1 = c1
  c2 = c2
  s1 = s1
  s2 = s2
  ip1 = ip1
  ip2 = ip2
  NULL = NULL
  Clients <- MCClients
  Servers <- MCServers
  Ips <- MCIps
  Restarters <- MCRestarters
  MaxNumber = 4
  MaxNet = 2
SPECIFICATION FairSpec
INVARIANTS
  TypeOK
  OneCallerAtATime
  ListMatchesThreads
  WalkExact
  QuietAfterFini
  NumberCoversList
PROPERTIES
  ShutdownEnds
  
CHECK_DEADLOCK FALSE
