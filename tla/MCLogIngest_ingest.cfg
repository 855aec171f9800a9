CONSTANTS
    u1 = u1
    u2 = u2
    p1 = p1
    p2 = p2
    n1 = n1
    n2 = n2
    k1 = k1
    k2 = k2
    k3 = k3
    r1 = r1
    r2 = r2
    i1 = i1
    i2 = i2
    Ingests = {i1}
    Users = {u1, u2}
    Projects = {p1, p2}
    OwnerOf <- MCOwnerOf
    Names = {n1, n2}
    Keys = {k1, k2}
    Requests = {r1, r2}
    NoRow = NoRow
SPECIFICATION Spec
SYMMETRY Symmetry
INVARIANTS
    TypeOK
    OneActivePerMaker
    FinishedStaysFinished
    RowsHaveParents
    DeadKeysAreRefused
    BroadcastInKeysProject
    AcceptedIsStored
    StoredWasBroadcastOnce
CHECK_DEADLOCK FALSE
