\* One job, one caller, one process: the smallest instance in which an encoder crashes.
CONSTANTS
    Jobs = {a}
    Callers = {c1}
    Procs = {p1}
    NoJob = NoJob
    NoProc = NoProc
    MaxCompositorJobs = 1
    MaxBackoff = 3
    OneStartPerJob = TRUE
SPECIFICATION FairSpec
PROPERTIES
    RetryHappens
CHECK_DEADLOCK FALSE
