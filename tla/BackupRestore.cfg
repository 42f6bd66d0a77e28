SPECIFICATION Spec
CONSTANTS
  Assets = {a1}
  Keys = {k1, k2, k3, k4}
  None = None
  Png = Png
  Offline = TRUE
  Apart = TRUE
  MaxVersion = 1
  Jobs = {j1, j2}
  Backups = {b1}
  MaxKills = 1
  MaxMachines = 1
INVARIANTS UsableIsWhole ArchivesOpen ServingIsEncrypted
PROPERTIES NothingLost RestoreFinishes
CHECK_DEADLOCK FALSE
