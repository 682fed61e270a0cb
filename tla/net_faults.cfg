SPECIFICATION Spec
CONSTANTS
  a = a
  b = b
  None = None
  Pods = {a, b}
  Kind <- BothHostDevice
  MaxSandboxes = 2
  MaxCrashes = 1
  Faults = {"link", "configure", "restore", "persist", "api", "crash", "disconnect", "timeout"}
INVARIANTS
  
  LossOnlyWhenExposed
  PreparedKnown
PROPERTY
  OnlyRemoveTakesNic
CHECK_DEADLOCK FALSE
