\* Three jobs and two handlers compete for one place, and starts of one job may overlap.
CONSTANTS
    Jobs = {a, b, c}
    Callers = {c1, c2}
    Procs = {p1, p2}
    NoJob = NoJob
    NoProc = NoProc
    MaxCompositorJobs = 1
    MaxBackoff = 3
    OneStartPerJob = FALSE
SPECIFICATION Spec
SYMMETRY Symmetry
INVARIANTS
    CapBound
CHECK_DEADLOCK FALSE
