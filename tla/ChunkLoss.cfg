CONSTANTS
    j1 = j1
    j2 = j2
    vm1 = vm1
    vm2 = vm2
    a = a
    b = b
    NoTarget = NoTarget
    NoJob = NoJob
    Job <- MCJob
    Target <- MCVM
    VM <- MCVM
    Chunk <- MCChunk
    Streams <- MCStreams
    Faults <- NoFaults
    MaxErrors = 0
SYMMETRY Symmetry
SPECIFICATION Spec
INVARIANT Recoverable
CHECK_DEADLOCK FALSE
