SPECIFICATION Spec
CONSTANTS
  Paths <- DeployedPath
  Docs <- TwoDocs
  Torn <- Emptied
  SaveModes = {"rename"}
  Dialable <- MCDialable
  Jobs = {1}
  MaxSaves = 1
CHECK_DEADLOCK FALSE
INVARIANTS
  ReloadsOnSwap
