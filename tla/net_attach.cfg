SPECIFICATION FairSpec
CONSTANTS
  a = a
  b = b
  None = None
  Pods = {a, b}
  Kind <- Mixed
  MaxSandboxes = 1
  MaxCrashes = 1
  Faults = {"configure", "api", "crash", "timeout"}
INVARIANTS
  TypeOK
  ReadyMeansAttached
PROPERTIES
  ReleasedInTheEnd
CHECK_DEADLOCK FALSE
