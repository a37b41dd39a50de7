\* Room for one job, and one composition that is reconfigured while it runs.
CONSTANTS
    Comps = {c}
    Sigs = {s1, s2}
    Unwanted = Unwanted
    Stabilize = 2
    MaxStabilize = 3
    Drain = 2
    MaxJobs = 1
    MaxGap = 1
    MaxGen = 3
    MaxChanges = 2
    MaxFaults = 0
    MaxCrashes = 0
SPECIFICATION Spec
PROPERTIES
    ReconfigurationNeverCapped
CHECK_DEADLOCK FALSE
