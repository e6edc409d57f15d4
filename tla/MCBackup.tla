------------------------------ MODULE MCBackup ------------------------------
EXTENDS Backup, TLC

CONSTANTS r1, u1
============================================================================
