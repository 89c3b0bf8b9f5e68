SPECIFICATION FairSpec
CONSTANTS
  N = 2
  Pollers = {1}
  MaxEvents = 2
  Ignored = {2}
  MaxRuns = 2
  MaxFaults = 2
CHECK_DEADLOCK FALSE
INVARIANTS
  ExitLeavesNoChild
  EndedIsHandled
  UpdatesAreEmitted
PROPERTIES
  LifecycleGoesOn
