SPECIFICATION FairSpec
CONSTANTS
  x = x  y = y  z = z
  Keys = {x, y}
  MaxTurns = 3
  Restarters = {x}
  MaxSteps = 1
  MaxInbox = 1
  MaxExits = 1
CHECK_DEADLOCK FALSE
INVARIANTS
  ConversationsAreKept
  AnswersAreOwn
PROPERTIES
  EveryTurnEnds
