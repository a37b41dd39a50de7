\* One source that comes and goes three times under one poll, with nothing else happening.
CONSTANTS
    Streams = {s1}
    MaxSession = 3
    ComposedSessions = 3
    MaxFaults = 0
    None = None
    Configs <- SampleConfigs
    Procs = {p1, p2}
    Polls = {k1}
    MaxEdits = 0
    LongWaits = TRUE
    Relays = {r1}
    SourceOf <- OneSource
    Feeds = {f1, f2}
    Ticks = {t1}
    MaxChanges = 0
    Codecs = {c1, c2}
    AudioTicks = {a1}
SPECIFICATION MediaSpec
PROPERTIES SettlesBeforeActing
CHECK_DEADLOCK FALSE
