CONSTANTS
    c1 = c1
    c2 = c2
    c3 = c3
    p1 = p1
    p2 = p2
    b1 = b1
    b2 = b2
    NoOne = NoOne
    Conns = {c1, c3}
    Projects = {p1, p2}
    ProjectOf <- MCProjectOf
    Broadcasters = {b1, b2}
    AllowStop = TRUE
    AllowCancel = TRUE
    MaxBroadcasts = 3
SPECIFICATION MCSpec
INVARIANTS
    TypeOK
    NoStaleClient
    InOrderOwnProject
    NoClosedSend
PROPERTIES
    RegistryFrozenWhileSending
    FeedSpec
    ShutdownStrands
