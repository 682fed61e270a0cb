SPECIFICATION Spec
CONSTANTS
  Width = 2
  Subnets <- SomeSubnets
  Allocations <- SomeAllocations
  Reservations <- SomeReservations
  Requests <- SomeRequests
  f1 = f1
  f2 = f2
  f3 = f3
  c1 = c1
  c2 = c2
  n1 = n1
  n2 = n2
  Functions = {f1, f2, f3}
  BehindIOMMU <- FirstTwo
  Vendor <- TwoVendors
  Device <- TwoDevices
  Numbers = {n1, n2}
  Configs <- SomeConfigs
  DpdkClaims = {c1, c2}
  Absent = Absent
  Entries <- SomeEntries
  Parameters <- SomeParameters
  Refused = Refused
INVARIANTS
  ExpansionExact
  AddressFitsPool
  DynamicComplete
  SharedOnlyIfChanged
  UnsafeOnlyIfListed
  PolicyRespected
SYMMETRY Symmetry
CHECK_DEADLOCK FALSE
