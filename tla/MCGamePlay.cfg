CONSTANTS
    Keys = {"R", "L", "K"}
    MaxDown = 3
    Garbage = {"any"}
    NumRobots = 1
    NumTeam1 = 1
    ResetTicks = 3
    LegFrames = 2
SPECIFICATION FairSpec
INVARIANTS
    TypeOK
    TimerBelongsToPlay
    DeletedOnce
PROPERTIES
    OneTogglePerPress
    PlayIsReset
CHECK_DEADLOCK FALSE
