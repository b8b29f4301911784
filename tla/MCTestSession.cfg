SPECIFICATION Spec
CONSTANTS
  Suite <- Names
  suites <- Suites
  Sessions <- SessionsRun
  MaxThrows = 1
  ThrowSteps = {1, 2, 50}
  MaxDelay = 5
INVARIANTS SnapshotsMatchSuites TestsStartAlike OnlyUnawaitedHideEvents CallsAreWired
PROPERTIES SnapshotsReleased
CHECK_DEADLOCK FALSE
