\* Two key-management processes interleave: a passphrase change and a rotation.
SPECIFICATION InstalledSpec
CONSTANTS
  Keys = {k1, k2}
  Passphrases = {x1, x2}
  Procs = {p1, p2}
  NoKey = NoKey
  Plaintext = Plaintext
  NoPass = NoPass
  Exclusive = FALSE
  MaxRev = 0
PROPERTIES ChangeKeepsKey
