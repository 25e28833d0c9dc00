--------------------------- MODULE MCDaemonEngine ---------------------------
EXTENDS DaemonEngine, TLC
Perms == Permutations(Jobs)
=============================================================================
