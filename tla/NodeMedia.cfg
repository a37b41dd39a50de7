\* One stream, one destination, two processes and two polls of each supervisor: polls overlap,
\* a replaced process still ends, and one edit and one failure come at any point.
CONSTANTS
    Streams = {s1}
    MaxSession = 2
    ComposedSessions = 1
    MaxFaults = 1
    None = None
    Configs <- SampleConfigs
    Procs = {p1, p2}
    Polls = {k1, k2}
    MaxEdits = 1
    LongWaits = TRUE
    Relays = {r1}
    SourceOf <- OneSource
    Feeds = {f1, f2}
    Ticks = {t1, t2}
    MaxChanges = 2
    Codecs = {c1, c2}
    AudioTicks = {a1, a2}
SPECIFICATION MediaSpec
INVARIANTS MediaTypeOK NoOrphanEncoder StopIsFinal NothingForgotten OneFeedPerDestination NothingLiveWithoutProcess OneTranscodePerSource
PROPERTIES LateProbesAreDropped EverythingFollows
CHECK_DEADLOCK FALSE
