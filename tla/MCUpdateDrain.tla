---------------------------- MODULE MCUpdateDrain ----------------------------
EXTENDS UpdateDrain, TLC

CONSTANTS j1, j2, vm1, c1, i1

MCJob == {j1, j2}
MCVM == {vm1}
MCTarget == {vm1, c1}
MCInstaller == {i1}

NoFaults == {}
=============================================================================
