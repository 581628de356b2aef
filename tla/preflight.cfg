SPECIFICATION FairSpec
CONSTANTS
  MaxInt = 7
  Unit = 2
  MaxCells = 2
  NoCell = NoCell
  Cells <- MCCells
  Pages <- MCPages
  ClientHeaders <- MCClientHeaders
  CostPolicies <- LimitPolicies
CHECK_DEADLOCK FALSE
INVARIANTS
  TypeOK FailsForCause ChainInv VerdictExact
PROPERTIES
  AllOrNothing Ends
