---------------------------- MODULE MCSchedules -----------------------------
EXTENDS Schedules, TLC

CONSTANTS p, v1, v2, t1, t2

MCPolicy == {p}
MCVM == {v1, v2}
MCRequest == {t1, t2}

AllFaults == {"save", "replace"}

Symmetry == Permutations(MCVM) \union Permutations(MCRequest)
=============================================================================
