CONSTANTS
    Keys = {"R"}
    MaxDown = 1
    Garbage = {"any"}
    NumRobots = 1
    NumTeam1 = 1
    ResetTicks = 1
    LegFrames = 2
SPECIFICATION FairSpec
PROPERTY RobotMoves
CHECK_DEADLOCK FALSE
