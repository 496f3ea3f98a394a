CONSTANTS
    p = p
    v1 = v1
    v2 = v2
    t1 = t1
    t2 = t2
    Policy <- MCPolicy
    VM <- MCVM
    Request <- MCRequest
    MaxRequests = 3
    MaxRestarts = 1
    Faults <- AllFaults
SPECIFICATION Spec
INVARIANTS TypeOK TimersFollowRows ExclusionsKept ExcludedAreSkipped
SYMMETRY Symmetry
CHECK_DEADLOCK FALSE
