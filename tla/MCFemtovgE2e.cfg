SPECIFICATION FairSpec
CONSTANTS
    v1 = v1
    v2 = v2
    c1 = c1
    c2 = c2
    Frames = 2
    Passes = 2
    Verts <- MCVerts
    Streams <- MCStreams
    CountOf <- MCCountOf
    MaxFlushes = 2
    MaxPages = 2
INVARIANTS
    HostOutlivesGuest
    GuestNeverOverlapsGpu
    FramesAreWhatTheGuestDrew
    CommandCountMatchesHash
    ReportIsOfTheRun
    ReportCoversMeasuredPass
PROPERTIES
    RunEnds
