SPECIFICATION InstallSpec
CONSTANTS
  a = a  b = b  x = x  y = y
  Alpha = 100
  Names = {a, b}
  Versions <- MCVersions
  Bytes = {x, y}
  Kinds = {"file", "worker"}
  Publishes <- MCPublishes
  Declared <- MCDeclared
  Slots = {1, 2}
  MaxRequests = 3
  MaxCommands = 2
  MaxActs = 4
CHECK_DEADLOCK FALSE
INVARIANTS
  LockIsSound
PROPERTIES
  RegistryIsSound
  LockMatchesDisk
  CommandsEnd
