\* Every part that shares no state with the media side, each with the smallest instance in
\* which two requests, two answers or two handlers can cross.
CONSTANTS
    Users = {u1, u2}
    StreamIds = {s1, s2}
    Channels = {c1}
    Dests = {d1}
    Keys = {k1, k2}
    Kinds = {png, jpg}
    Requests = {r1, r2}
    MaxQuota = 1
    MaxOps = 3
    MaxMishaps = 1
    None = None
    Sessions = {w1, w2}
    MaxTroubles = 3
    NoSession = NoSession
    Sources = {a, b}
    Tiles = {1, 2, 3, 4}
    Fetches = {f1, f2}
    MaxEvents = 3
    Nothing = Nothing
    Slugs = {x, y}
    Feeds = {a, b}
    Polls = {f1, f2}
    MaxSteps = 3
    Null = Null
    Tasks = {t1, t2}
    MaxEdits = 2
    MaxFailures = 1
    Canvases <- SampleCanvases
    Stages <- SampleStages
    Layouts <- SampleLayouts
    MaxOnAir = 13
SPECIFICATION SiteSpec
INVARIANTS SiteTypeOK AdminRemains QuotaHolds NothingDangles RetiredPublishersDropped ImagesMatch NothingUnsaved NoForgottenSession ViewersKeepTrack CellsFit ShowsWhatItDid
PROPERTIES ViewersArrive
CHECK_DEADLOCK FALSE
