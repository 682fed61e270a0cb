SPECIFICATION Spec
CONSTANTS
  a = a
  b = b
  None = None
  Pods = {a}
  Kind <- OneMacvlan
  MaxSandboxes = 2
  MaxCrashes = 0
  Faults = {}
INVARIANT
  ReadyMeansAttached
CHECK_DEADLOCK FALSE
