SPECIFICATION FairSpec
CONSTANTS
    Tasks = {t1, t2}
    Repeating = {t1}
    Executors = {e1}
    MaxDelay = 1
    Interval = 1
    None = None
    Stops = TRUE
    Deletes = FALSE
    Spurious = FALSE
    t1 = t1
    t2 = t2
    e1 = e1
INVARIANTS
    FrontExists
PROPERTIES
    HandOverTaken
    PickLeadsToHand
    QueuedIsServed
    StopReleasesBlocked
CHECK_DEADLOCK FALSE
