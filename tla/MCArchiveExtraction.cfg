\* Two Archives and two game paths against two steps of another program.
CONSTANTS
    low = low
    high = high
    p1 = p1
    p2 = p2
    Nothing = Nothing
    Paths = {p1, p2}
    Archives = {low, high}
    Rank <- MCRank
    Fresh = 5
    MaxEdits = 2
SPECIFICATION Spec
SYMMETRY Symmetric
INVARIANTS
    MergeIsReported
PROPERTIES
    KeepsTheTree
CHECK_DEADLOCK FALSE
