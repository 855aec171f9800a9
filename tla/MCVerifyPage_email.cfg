SPECIFICATION Spec
CONSTANTS
    a = a
    b = b
    r1 = r1
    r2 = r2
    Codes = {a, b}
    Requests = {r1, r2}
    MaxAttempts = 1
    Cooldown = 1
    Lifetime = 0
    MaxTime = 1
    MaxRecords = 2
    MaxFaults = 1
    None = None
SYMMETRY MCSymmetry
INVARIANTS
    TypeOK
    AttemptsLimit
    CountdownCovers
PROPERTIES
    CooldownKept
