\* One relay of a composition with two generations, two processes at a time, three changes
\* of its configuration, source or generation, and one failure of ffmpeg.
CONSTANTS
    Relays = {comp}
    Composed = {comp}
    Procs = {p1, p2}
    Gens = {g1, g2}
    NoRelay = NoRelay
    NoProc = NoProc
    NoGen = NoGen
    MaxBackoff = 2
    MaxChanges = 3
    MaxCrashes = 1
SPECIFICATION FairSpec
INVARIANTS
    TypeOK
    OneFeed
    StatusTruth
PROPERTIES
    NoEarlySpawn
    SwitchedOffStops
    FollowsSource
CHECK_DEADLOCK FALSE
