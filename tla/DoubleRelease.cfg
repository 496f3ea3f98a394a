CONSTANTS
    j1 = j1
    j2 = j2
    j3 = j3
    vm1 = vm1
    vm2 = vm2
    c1 = c1
    NoTarget = NoTarget
    Job <- MCJob3
    Target <- MCVMOne
    VM <- MCVMOne
    Limit = 1
    Faults <- CleanupOnly
SYMMETRY Symmetry
SPECIFICATION Spec
INVARIANT HoldersWithinLimit
CHECK_DEADLOCK FALSE
