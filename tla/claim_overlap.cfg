SPECIFICATION Spec
CONSTANTS
  Paths <- DeployedPath
  Docs <- TwoDocs
  Torn <- Emptied
  SaveModes = {"inplace"}
  Dialable <- MCDialable
  Jobs = {1, 2}
  MaxSaves = 2
CHECK_DEADLOCK FALSE
INVARIANTS
  RebuiltForPolicy
