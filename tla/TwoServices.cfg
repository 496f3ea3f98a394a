CONSTANTS
    j1 = j1
    j2 = j2
    vm1 = vm1
    c1 = c1
    NoTarget = NoTarget
    Job <- MCJob
    Second <- MCSecond
    Target <- MCTarget
    VM <- MCVM
    Limit = 1
    Faults <- AllFaults
SPECIFICATION TwoSpec
INVARIANTS  LiveIsCancellable 
PROPERTY VerdictKept
CHECK_DEADLOCK FALSE
