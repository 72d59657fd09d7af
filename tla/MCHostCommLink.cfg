CONSTANTS
    NumRobots = 2
    MaxUpdates = 3
    MaxReadies = 3
SPECIFICATION FairSpec
INVARIANTS
    TypeOK
    NoLostWakeup
    NoStaleFrame
PROPERTIES
    LinkSpec
    ReadyAnswered
CHECK_DEADLOCK FALSE
