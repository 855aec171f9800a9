CONSTANTS
    k1 = k1
    k2 = k2
    errors = errors
    MaxLog = 2
    Stampings <- MCStampings
    MaxDelete = 1
    PerPage = 1
    MaxPage = 2
    Filters = {errors}
    NoFilter = NoFilter
    Matching <- MCMatching
    Links = {k1, k2}
    MaxFetch = 1
    None = None
SYMMETRY MCSymmetry
SPECIFICATION MCSpec
INVARIANTS
    TypeOK
    LiveIsLive
    StreamedOnce
    FetchedMatches
    PageIsWithinTotal
    OnItsPage
    BarIsRight
