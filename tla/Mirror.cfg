CONSTANTS
    b1 = b1
    Job <- MCJob
    MaxThreads = 2
    MaxEvents = 5
    Faults <- QuietFaults
SPECIFICATION FairSpec
INVARIANTS TypeOK GapHasCause
PROPERTIES Mirrored
CHECK_DEADLOCK FALSE
