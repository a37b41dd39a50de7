\* No call fails and nothing crashes; a generation number for every change,
\* changes enough for a reused number to meet the drain of the old one, and a Tick that may
\* come late by a whole drain.
CONSTANTS
    Comps = {c}
    Sigs = {s1, s2}
    Unwanted = Unwanted
    Stabilize = 3
    MaxStabilize = 5
    Drain = 3
    MaxJobs = 0
    MaxGap = 3
    MaxGen = 7
    MaxChanges = 6
    MaxFaults = 0
    MaxCrashes = 0
SPECIFICATION FairSpec
PROPERTIES
    ConvergesUnlessCut
CHECK_DEADLOCK FALSE
