SPECIFICATION FairSpec
CONSTANTS
  r1 = r1
  r2 = r2
  r3 = r3
  Requests = {r1}
  NoStatement = NoStatement
  NoPlan = NoPlan
  MaxConcurrent = 1
  MaxBody = 3
  Ident <- MCIdent
  Lower <- MCLower
  Policies <- FourPolicies
  Dialable <- MCDialable
  Statements <- AllStatements
  Plans <- AllPlans
INVARIANTS
  TypeOK IndInv RejectionJustified AllowJustified RoutedInForce AuditFollowsPolicy
  JudgedAsForwarded RulesEnforced
PROPERTIES
  Responds
