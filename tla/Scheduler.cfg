\* One composition, two configurations, one failed call and one crash at any point; a Tick
\* may come late by a whole drain, which is as long as the stabilize time, as by default.
CONSTANTS
    Comps = {c}
    Sigs = {s1, s2}
    Unwanted = Unwanted
    Stabilize = 3
    MaxStabilize = 4
    Drain = 3
    MaxJobs = 0
    MaxGap = 3
    MaxGen = 3
    MaxChanges = 5
    MaxFaults = 1
    MaxCrashes = 1
SPECIFICATION Spec
INVARIANTS
    TypeOK
    OwnPath
    LeakBound
    EncoderBudget
PROPERTIES
    StartSpacing
    HandoffPromise
CHECK_DEADLOCK FALSE
