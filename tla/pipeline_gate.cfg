SPECIFICATION FairSpec
CONSTANTS
  r1 = r1
  r2 = r2
  r3 = r3
  Requests = {r1, r2, r3}
  NoStatement = NoStatement
  NoPlan = NoPlan
  MaxConcurrent = 2
  MaxBody = 3
  Ident <- MCIdent
  Lower <- MCLower
  Policies <- OnePolicy
  Dialable <- MCDialable
  Statements <- ReadAndBypass
  Plans <- ThreePlans
INVARIANTS
  GateExact Accounting BlockedBytesExact
PROPERTIES
  Responds
