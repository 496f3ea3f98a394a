CONSTANTS
    j1 = j1
    j2 = j2
    vm1 = vm1
    vm2 = vm2
    a = a
    b = b
    NoTarget = NoTarget
    NoJob = NoJob
    Job <- MCJob
    Target <- MCVM
    VM <- MCVM
    Chunk <- MCChunk
    Streams <- MCStreams
    Faults <- CrashUnlink
    MaxErrors = 1
SPECIFICATION FairSpec
INVARIANTS TypeOK LossNeedsOverlap TornNeverOffered
PROPERTIES PointsArePromised StoredOnce UploadEnds
CHECK_DEADLOCK FALSE
