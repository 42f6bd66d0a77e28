\* A restore may put its marker down while keyctl init derives its key.
SPECIFICATION Spec
CONSTANTS
  Assets = {a1}
  Keys = {k1, k2, k3, k4}
  None = None
  Png = Png
  Offline = TRUE
  Apart = FALSE
  MaxVersion = 0
  Jobs = {j1}
  Backups = {b1}
  MaxKills = 0
  MaxMachines = 1
PROPERTY MarkerBlocks
CHECK_DEADLOCK FALSE
