CONSTANTS
    j1 = j1
    j2 = j2
    j3 = j3
    vm1 = vm1
    vm2 = vm2
    c1 = c1
    NoTarget = NoTarget
    Job <- MCJob3
    Target <- MCTarget
    VM <- MCVM
    Limit = 2
    Faults <- HostFaults
SYMMETRY SymmetryVM
SPECIFICATION Spec
INVARIANTS TypeOK SlotsMatchHolders ExclusiveUse
CHECK_DEADLOCK FALSE
