SPECIFICATION SearchSpec
CONSTANTS
    p1 = p1  p2 = p2  fix = fix
    Procs <- MCProcs  Fixes <- MCFixes  Queries <- MCQueries
    MaxLessons = 3  MaxTime = 3  Limit = 1
SYMMETRY Symmetry
CONSTRAINT Calm
CHECK_DEADLOCK FALSE
INVARIANTS SearchIsCurrent NothingHidden
PROPERTIES KeepsStore
