SPECIFICATION FairSpec
CONSTANTS
    Pod = {p1, p2, p3}
    Statements = 2
    BackoffLimit = 2
    MaxApplies = 2
CHECK_DEADLOCK FALSE
INVARIANTS
    SeededWhole
    CompleteIsSeeded
    ConflictNeedsLostPod
PROPERTIES
    JobSettles
