\* One key-management process at a time, three keys: a first installation, an import
\* or a restore, then up to two rotations with a crash between any two steps, and
\* unlocks with each passphrase again and again.
SPECIFICATION FairSpec
CONSTANTS
  Keys = {k1, k2, k3}
  Passphrases = {x1, x2}
  Procs = {p1}
  NoKey = NoKey
  Plaintext = Plaintext
  NoPass = NoPass
  Exclusive = TRUE
  MaxRev = 1
INVARIANTS TypeOK Recoverable OnePassphrase UnlockedKeyOpens
PROPERTIES JournalBeforeReplacement NoCommittedWriteLost RecoveryEnds
