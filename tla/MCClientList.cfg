CONSTANTS
  c1 = c1
  c2 = c2
  c3 = c3
  NULL = NULL
  Clients <- MCClients
SPECIFICATION Spec
INVARIANTS
  WellLinked
  AllReachable
PROPERTY ImplementsClientSet
