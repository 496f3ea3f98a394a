---------------------------- MODULE MCChunkStore -----------------------------
EXTENDS ChunkStore, TLC

CONSTANTS j1, j2, vm1, vm2, a, b

MCJob == {j1, j2}
MCVM == {vm1, vm2}
MCChunk == {a, b}

\* A chunk two exports share, and one an export repeats.
MCStreams == {<<a>>, <<a, b>>, <<b, b>>}

NoFaults == {}
CrashUnlink == {"crash", "unlink"}

Symmetry == Permutations(MCJob) \union Permutations(MCVM)
=============================================================================
