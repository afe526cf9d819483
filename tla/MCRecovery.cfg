SPECIFICATION RecoverySpec
SYMMETRY Symmetry
CONSTANTS
  k1 = k1
  k2 = k2
  Keys = {k1, k2}
  Dirs = {d1, d2}
  Operators = {o1, o2}
  Exports <- MCExports
  Asked = {}
  PollLimit = 2
  MaxSchema = 2
  MaxFaults = 1
  MaxCrashes = 1
  MaxServer = 3
  MaxCommands = 2
  Invalid = Invalid
  Absent = Absent
CHECK_DEADLOCK FALSE
INVARIANTS GoingBackIsSafe InstallationsAreWhole ReportIsExact
