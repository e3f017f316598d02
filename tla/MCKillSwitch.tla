------------------------------ MODULE MCKillSwitch -----------------------------
EXTENDS KillSwitch
CONSTANTS o1, j1, j2, n1
=============================================================================
