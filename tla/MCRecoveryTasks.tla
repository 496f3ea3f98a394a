-------------------------- MODULE MCRecoveryTasks ---------------------------
EXTENDS RecoveryTasks, TLC

CONSTANTS b1, b2, t1, t2

MCBackup == {b1, b2}
MCTask == {t1, t2}

AllFaults == {"read", "save", "restart"}

Symmetry == Permutations(MCBackup) \union Permutations(MCTask)
=============================================================================
