SPECIFICATION FairSpec
CONSTANTS
  a1 = a1  a2 = a2  a3 = a3  i1 = i1  i2 = i2  k1 = k1  k2 = k2  e1 = e1  e2 = e2
  Agents = {a1, a2}
  InstanceKeys = {i1, i2}
  Corrs = {k1, k2}
  Events = {e1}
  Nobody = Nobody
CHECK_DEADLOCK FALSE
INVARIANTS
  RequestsCanBeAnswered
PROPERTIES
  CallsAreKept
  EveryTurnEnds
