SPECIFICATION MCSpec
CONSTANTS
    p1 = p1
    k1 = k1
    k2 = k2
    c1 = c1
    Projects = {p1}
    Keys = {k1, k2}
    OwnerOf <- MCOwnerOf
    Routes = {"projects", "settings"}
    Calls = {c1}
    MaxChanges = 2
    None = None
    StatusKeys <- MCStatusKeys
    FirstDay = 1
    Today = 3
    Back <- MCBack
    Counts = {0, 2, 9999}
    Zones <- MCZones
    Blank = Blank
    NoAnswer = NoAnswer
SYMMETRY MCSymmetry
INVARIANTS
    AcknowledgedIsShown
    DialogKept
    FitsChart
    AnswerIsDrawn
