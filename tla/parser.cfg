SPECIFICATION Spec
CONSTANTS
  Ident <- MCIdent
  Lower <- MCLower
  Columns <- MCColumns
  Functions = {"NOW"}
  Named <- MCNamed
  Targets <- MCTargets
  Aliases = {"o"}
  CTENames = {"orders"}
  Layouts <- MCLayouts
  Entries <- MCEntries
  Filters <- MCFilters
  MaxBuilt = 1
  MaxSteps = 5
  MaxExpr = 4
  MaxClauses = 1
CHECK_DEADLOCK FALSE
INVARIANTS
  ClassIsOutermost BlockedTableRejected FilterEnforced FilterAttributed WalkSound
  VisibleUseRejected
