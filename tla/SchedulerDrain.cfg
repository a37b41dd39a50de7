\* A Tick may come late by one interval; no call fails and nothing crashes.
CONSTANTS
    Comps = {c}
    Sigs = {s1, s2}
    Unwanted = Unwanted
    Stabilize = 3
    MaxStabilize = 4
    Drain = 3
    MaxJobs = 0
    MaxGap = 2
    MaxGen = 3
    MaxChanges = 5
    MaxFaults = 0
    MaxCrashes = 0
SPECIFICATION Spec
INVARIANTS
    DrainStopsOldOnly
CHECK_DEADLOCK FALSE
