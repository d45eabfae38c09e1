-------------------------- MODULE MCBackupChains ---------------------------
EXTENDS BackupChains, TLC
=============================================================================
