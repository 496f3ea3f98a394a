CONSTANTS
    b1 = b1
    Job <- MCJob
    MaxThreads = 1
    MaxEvents = 1
    Faults <- MidSync
SPECIFICATION Spec
INVARIANT MirrorStateKept
CHECK_DEADLOCK FALSE
