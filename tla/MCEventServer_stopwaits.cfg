CONSTANTS
    c1 = c1
    c2 = c2
    c3 = c3
    p1 = p1
    p2 = p2
    b1 = b1
    b2 = b2
    NoOne = NoOne
    Conns = {c1}
    Projects = {p1}
    ProjectOf <- MCProjectOf
    Broadcasters = {b1}
    AllowStop = TRUE
    AllowCancel = FALSE
    MaxBroadcasts = 1
SPECIFICATION FairSpec
PROPERTIES
    StopReturns
CHECK_DEADLOCK FALSE
