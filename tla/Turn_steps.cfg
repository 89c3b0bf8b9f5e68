SPECIFICATION Spec
CONSTANTS
  PlanTools = {send}
  SearchTool = search
  Required = {send}
  TurnExtensions <- CoordinatorExtensions
  WindowSize = 4
  CompactMessages = 3
  CompactSize = 5
  RetainLast = 2
  MaxSteps = 2
  MaxRetries = 1
  Sizes = {1, 9}
  Responses <- SomeResponses
  MaxTurns = 2
  MaxAnswers = 1
CHECK_DEADLOCK FALSE
INVARIANTS
  RequestsAreSound
  InputReachesModel
  RequiredToolWasCalled
PROPERTIES
  ReplyIsRemembered
  TurnsEnd
