SPECIFICATION Spec
CONSTANTS
    Tasks = {t1, t2}
    Repeating = {t1}
    Executors = {e1, e2}
    MaxDelay = 1
    Interval = 1
    None = None
    Stops = TRUE
    Deletes = TRUE
    Spurious = TRUE
    t1 = t1
    t2 = t2
    e1 = e1
    e2 = e2
INVARIANTS
    TypeOK
    
    NeverEarly
PROPERTIES
    EarliestFirst
    HandedOverOnce
    
SYMMETRY ExecutorSymmetry
CHECK_DEADLOCK FALSE
