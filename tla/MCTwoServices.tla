---------------------------- MODULE MCTwoServices -----------------------------
EXTENDS TwoServices

CONSTANTS j1, j2, vm1, c1

MCJob == {j1, j2}
MCSecond == {j2}
MCVM == {vm1}
MCTarget == {vm1, c1}

AllFaults == FaultKinds
=============================================================================
