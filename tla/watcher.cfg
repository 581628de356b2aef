SPECIFICATION FairSpec
CONSTANTS
  Paths <- BothPaths
  Docs <- AllDocs
  Torn <- Partial
  SaveModes = {"inplace", "rename"}
  Dialable <- MCDialable
  Jobs = {1, 2}
  MaxSaves = 3
CHECK_DEADLOCK FALSE
INVARIANTS
  TypeOK SettledInSync SettleInv JobsInv
PROPERTIES
  EventuallyInSync ImplementsHotReload
