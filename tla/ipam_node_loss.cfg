SPECIFICATION LossySpec
CONSTANTS
  n1 = n1
  n2 = n2
  c1 = c1
  c2 = c2
  p1 = p1
  k1 = k1
  k2 = k2
  None = None
  Claims = {c1, c2}
  ClaimName <- OwnNames
  Nodes = {n1, n2}
  Controllers = {}
  Pools = {p1}
  PoolHistory <- OneAddress
  ConfigPools <- NoConfigPools
  IPs = {1}
  Ones = {24}
  Malformed <- NoMalformed
  UIDs = {1, 2, 3, 4, 5, 6, 7}
  Requests <- BothDynamic
  MaxReqs = 1
  MaxLate = 1
  Faults = {}
  CtlFaults = {}
INVARIANT
  AddressExclusive
CHECK_DEADLOCK FALSE
