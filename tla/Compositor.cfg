\* Two handler goroutines, two jobs, room for one; no two starts of one job overlap.
CONSTANTS
    Jobs = {a, b}
    Callers = {c1, c2}
    Procs = {p1, p2}
    NoJob = NoJob
    NoProc = NoProc
    MaxCompositorJobs = 1
    MaxBackoff = 3
    OneStartPerJob = TRUE
SPECIFICATION FairSpec
INVARIANTS
    TypeOK
    NoOrphan
    StatusTruth
PROPERTIES
    DeathNoticed
CHECK_DEADLOCK FALSE
