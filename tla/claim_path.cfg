SPECIFICATION Spec
CONSTANTS
  Paths <- BarePath
  Docs <- TwoDocs
  Torn <- Emptied
  SaveModes = {"inplace"}
  Dialable <- MCDialable
  Jobs = {1}
  MaxSaves = 1
CHECK_DEADLOCK FALSE
INVARIANTS
  ReloadsOnEdit
