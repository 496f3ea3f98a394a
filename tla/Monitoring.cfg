CONSTANTS
    j1 = j1
    j2 = j2
    r1 = r1
    r2 = r2
    Job <- MCJob
    Request <- MCRequest
    Newest = 1
    MaxTime = 4
    Faults <- AllFaults
    Documents <- MCDocuments
SPECIFICATION FairSpec
INVARIANTS TypeOK NoticesFollowUsers RefreshIsOne LabelFollowsDamage
PROPERTIES RefreshEnds
CHECK_DEADLOCK FALSE
