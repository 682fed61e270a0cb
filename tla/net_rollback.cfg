SPECIFICATION Spec
CONSTANTS
  a = a
  b = b
  None = None
  Pods = {a}
  Kind <- OneHostDevice
  MaxSandboxes = 2
  MaxCrashes = 0
  Faults = {"configure"}
INVARIANT
  HomeWhenFree
CHECK_DEADLOCK FALSE
