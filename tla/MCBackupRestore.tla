--------------------------- MODULE MCBackupRestore --------------------------
EXTENDS BackupRestore
=============================================================================
