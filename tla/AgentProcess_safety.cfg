SPECIFICATION Spec
CONSTANTS
  e1 = e1  e2 = e2  e3 = e3  k1 = k1  k2 = k2  k3 = k3  x1 = x1
  Events = {e1}
  Requests = {e1}
  Corrs = {k1, k2, k3}
  Strangers = {}
  NoTurn = NoTurn
  MaxSteps = 1
  MaxPending = 1
  MaxInbox = 1
SYMMETRY Symmetry
CHECK_DEADLOCK FALSE
INVARIANTS
  TurnsAreSerial
PROPERTIES
  DrainIsOrderly
  StoredOnceInOrder
  RequestsAreDecidedOnce
