--------------------------- MODULE MCBackupService ---------------------------
EXTENDS BackupService, TLC

CONSTANTS j1, j2, j3, vm1, vm2, c1

MCJob3 == {j1, j2, j3}

\* Three targets, so that a limit of two is reached; or one VM.
MCVM == {vm1, vm2}
MCTarget == {vm1, vm2, c1}
MCVMOne == {vm1}

HostFaults == {"cleanup", "crash"}
CleanupOnly == {"cleanup"}

Symmetry == Permutations(MCJob3)
SymmetryVM == Permutations(MCJob3) \union Permutations(MCVM)
=============================================================================
