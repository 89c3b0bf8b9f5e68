SPECIFICATION PlanSpec
CONSTANTS
  Bundles <- MCBundles
  None = None
  Loose = Loose
  Unbuilt = Unbuilt
CHECK_DEADLOCK FALSE
INVARIANTS
  LoadIsClosed
  RefsMeanWhatWasChecked
  ToolRunsAsDeclared
  RoutedIsPlanned
