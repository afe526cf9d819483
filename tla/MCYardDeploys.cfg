SPECIFICATION Spec
CONSTANTS
  MaxYards = 2
  MaxDeploys = 3
  MaxRevisions = 2
  MaxUploads = 4
  MaxTaken = 1
  HistoryDepth = 2
  Handlers = {h1, h2}
SYMMETRY Symmetry
CHECK_DEADLOCK FALSE
INVARIANTS AliasServes HistoryIsKept
PROPERTIES NewestWins
