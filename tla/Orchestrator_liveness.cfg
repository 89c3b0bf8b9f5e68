SPECIFICATION FairSpec
CONSTANTS
  a1 = a1  a2 = a2  i1 = i1  i2 = i2  r1 = r1  r2 = r2  w1 = w1  w2 = w2
  c1 = c1  stop = stop  p1 = p1  p2 = p2  p3 = p3
  Agents = {a1, a2}
  Instances = {i1}
  DefaultInstance = i1
  Desired = {a1}
  Connectors = {}
  Reconciles = {r1, r2}
  Restarts = {}
  Stopper = stop
  Stoppable = {}
  CrashThreshold = 1
  InitialBackoff = 1
  MaxBackoff = 1
  MaxExponent = 0
  MaxSlots = 2
  Procs = {p1, p2, p3}
  NoProc = NoProc
CHECK_DEADLOCK FALSE
PROPERTIES
  ShutdownReturns
  DesiredIsReached
