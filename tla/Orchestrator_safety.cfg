SPECIFICATION Spec
CONSTANTS
  a1 = a1  a2 = a2  i1 = i1  i2 = i2  r1 = r1  r2 = r2  w1 = w1  w2 = w2
  c1 = c1  stop = stop  p1 = p1  p2 = p2  p3 = p3
  Agents = {a1, a2}
  Instances = {i1}
  DefaultInstance = i1
  Desired = {a1}
  Connectors = {c1}
  Reconciles = {r1, r2}
  Restarts = {w1}
  Stopper = stop
  Stoppable = {a1}
  CrashThreshold = 1
  InitialBackoff = 2
  MaxBackoff = 3
  MaxExponent = 1
  MaxSlots = 2
  Procs = {p1, p2}
  NoProc = NoProc
SYMMETRY Symmetry
CHECK_DEADLOCK FALSE
INVARIANTS
  TypeOK
  SlotsAgree
  HeldIsLive
  AwaitIsArmed
  WantedIsKept
