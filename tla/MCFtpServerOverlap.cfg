CONSTANTS
  c1 = c1
  c2 = c2
  s1 = s1
  s2 = s2
  ip1 = ip1
  ip2 = ip2
  NULL = NULL
  Clients <- MCClients
  Servers <- MCTwoServers
  Ips <- MCIps
  Restarters <- MCIpcRestarts
  MaxNumber = 4
  MaxNet = 2
SPECIFICATION Spec
INVARIANT ServerThreadEnded
CHECK_DEADLOCK FALSE
