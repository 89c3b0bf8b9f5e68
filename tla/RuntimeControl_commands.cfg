SPECIFICATION FairSpec
CONSTANTS
  s = s  t = t  k = k  l = l  none = none
  Swarms = {s}
  Keys = {k, l}
  Pids = {1, 2, 3}
  Commands = {11, 12, 13}
  None = none
  FirstKeyOf <- KeyOfEach
  Patient = {12}
  MaxEvents = 1
CHECK_DEADLOCK FALSE
INVARIANTS
  ActiveIsSound
PROPERTIES
  DeletedIsGone
  DeleteSparesOthers
  CommandsReturn
