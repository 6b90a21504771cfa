CONSTANTS
  ip1 = ip1
  ip2 = ip2
  c1 = c1
  c2 = c2
  NULL = NULL
  IPs <- MCIPs
  Conns <- MCConns
  MaxFails = 1
SPECIFICATION Spec
SYMMETRY Symmetry
INVARIANT AnswersInStep
PROPERTY MountIsAsked
