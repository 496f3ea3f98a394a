CONSTANTS
    b1 = b1
    b2 = b2
    t1 = t1
    t2 = t2
    Backup <- MCBackup
    Task <- MCTask
    MaxTasks = 4
    MaxPieces = 2
    Faults <- AllFaults
SPECIFICATION Spec
INVARIANTS TypeOK RunningHasTask ServedIsWhole
PROPERTIES DeleteSparesTasks
SYMMETRY Symmetry
CHECK_DEADLOCK FALSE
