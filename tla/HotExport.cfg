CONSTANTS
    Disks = 3
    Faults <- AllFaults
SPECIFICATION FairSpec
INVARIANTS TypeOK LeavesNothing NothingPulledAway
PROPERTIES CancelEnds
CHECK_DEADLOCK FALSE
