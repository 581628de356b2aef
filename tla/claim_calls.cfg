SPECIFICATION Spec
CONSTANTS
  Ident <- MCIdent
  Lower <- MCLower
  Columns = {}
  Functions = {"NOW"}
  Named <- OneNamed
  Targets = {}
  Aliases = {}
  CTENames = {}
  Layouts <- PlainLayout
  Entries <- MCEntries
  Filters <- MCFilters
  MaxBuilt = 1
  MaxSteps = 4
  MaxExpr = 4
  MaxClauses = 0
CHECK_DEADLOCK FALSE
INVARIANTS
  CallsComplete
