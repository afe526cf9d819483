SPECIFICATION LiveSpec
CONSTANTS
  Paths = {"p", "yard"}
  YardPaths = {"yard"}
  MaxVersions = 2
  MaxOps = 2
  Globs = {{"p", "yard"}}
  MaxKeep = 2
  Executors = {x1, x2}
  MaxFaults = 1
CHECK_DEADLOCK FALSE
INVARIANTS RowsOutliveBytes PlansAreAccounted
PROPERTIES PlansFinish
