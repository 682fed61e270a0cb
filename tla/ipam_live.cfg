SPECIFICATION FairSpec
CONSTANTS
  n1 = n1
  n2 = n2
  c1 = c1
  c2 = c2
  p1 = p1
  k1 = k1
  k2 = k2
  None = None
  Claims = {c1, c2}
  ClaimName <- SameName
  Nodes = {n1}
  Controllers = {k1}
  Pools = {p1}
  PoolHistory <- ReserveOne
  ConfigPools <- NoConfigPools
  IPs = {1, 2}
  Ones = {24}
  Malformed <- MalformedTwo
  UIDs = {1, 2, 3, 4, 5, 6, 7}
  Requests <- OneStatic
  MaxReqs = 1
  MaxLate = 1
  Faults = {"late"}
  CtlFaults = {"api", "lost"}
PROPERTIES
  Reclaimed
  StatusConverges
