CONSTANTS
    j1 = j1
    j2 = j2
    vm1 = vm1
    c1 = c1
    i1 = i1
    NoTarget = NoTarget
    Job <- MCJob
    Target <- MCTarget
    VM <- MCVM
    Installer <- MCInstaller
    Limit = 2
    Faults <- NoFaults
SPECIFICATION DrainFairSpec
INVARIANTS ReadyStaysDrained DoneIsSettled PausedIsHeld
PROPERTIES SlotsFormPool DrainEnds SlotReleased CancelHonoured
CHECK_DEADLOCK FALSE
