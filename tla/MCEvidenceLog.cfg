SPECIFICATION Spec
CONSTANTS
    Processes = {p1, p2}
    MaxSeals = 4
    MaxCrashes = 2
INVARIANTS
    OneTreeUntilOverlap
    NothingForgotten
    NewestCheckpoint
    CheckExact
SYMMETRY Symmetric
CHECK_DEADLOCK FALSE
