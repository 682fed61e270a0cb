SPECIFICATION Spec
CONSTANTS
  n1 = n1
  n2 = n2
  c1 = c1
  c2 = c2
  p1 = p1
  k1 = k1
  k2 = k2
  None = None
  Claims = {c1, c2}
  ClaimName <- OwnNames
  Nodes = {n1, n2}
  Controllers = {}
  Pools = {p1}
  PoolHistory <- EditRanges
  ConfigPools <- FallbackPools
  IPs = {1, 2}
  Ones = {24}
  Malformed <- NoMalformed
  UIDs = {1, 2, 3, 4, 5, 6, 7}
  Requests <- OneStatic
  MaxReqs = 1
  MaxLate = 1
  Faults = {"api", "lost", "late", "crash", "local"}
  CtlFaults = {}
INVARIANTS
  TypeOK
  AddressExclusive
  PreparedSurvivesCrash
PROPERTY
  AddressSettled
CHECK_DEADLOCK FALSE
SYMMETRY NodeSymmetry
