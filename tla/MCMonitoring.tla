---------------------------- MODULE MCMonitoring -----------------------------
EXTENDS Monitoring

CONSTANTS j1, j2, r1, r2

MCJob == {j1, j2}
MCRequest == {r1, r2}

AllFaults == {"host", "save", "page"}

\* One counter of each kind: absent, slightly worn, at its threshold, far gone, and one
\* whose normalized value the driver does not have.
Counters == {"Pending Sector Reallocation Count", "Reallocated Sector Count",
             "Read Error Count"}
Row(n, raw) == [normalized |-> n, threshold |-> 10, raw |-> raw]
MCRows == {Row(100, 1), Row(10, 0), Row(5, 60), Row(0, 0)}
MCDocuments == [passed : BOOLEAN, wear : {NoWear, 30, 95},
                rows : UNION {[S -> MCRows] : S \in SUBSET Counters}]
=============================================================================
