SPECIFICATION TransferSpec
CONSTANTS
  Processes = {p1, p2}
  Contents = {small, large, other}
  Large = {large, other}
  Initial = {small, large}
  Pieces = {1, 2}
  BatchSize = 1
  MaxEdits = 1
  MaxDeploys = 1
  MaxMishaps = 2
  Absent = Absent
INVARIANTS TransfersAreWhole
PROPERTIES ReportsHold LargeUploadFinishes
