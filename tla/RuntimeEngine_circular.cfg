SPECIFICATION Spec
CONSTANTS
  x = x  y = y  z = z
  Keys = {x, y}
  MaxTurns = 3
  Restarters = {}
  MaxSteps = 1
  MaxInbox = 1
  MaxExits = 0
CHECK_DEADLOCK FALSE
INVARIANTS
  CircularIsRefused
