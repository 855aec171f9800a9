CONSTANTS
    u1 = u1
    t1 = t1
    t2 = t2
    c1 = c1
    c2 = c2
    c3 = c3
    Users = {u1}
    Tabs = {t1, t2}
    Calls = {c1, c2, c3}
    TabOf <- MCTabOf
    Deletes = {c2}
    AccessTTL = 1
    RefreshTTL = 2
    MaxTime = 2
    None = None
SPECIFICATION MCSpec
INVARIANTS
    TypeOK
    HandedOutOnce
    ExchangedOnce
    NothingWaitsInVain
PROPERTIES
    CallsEnd
    StuckIsDropped
CHECK_DEADLOCK FALSE
