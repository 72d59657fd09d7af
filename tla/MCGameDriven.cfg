CONSTANTS
    Keys = {"L", "K", "P", "O", "W", "LEFT", "MOUSE_LEFT"}
    MaxDown = 1
    Garbage = {"1.0"}
    NumRobots = 1
    NumTeam1 = 1
    ResetTicks = 2
    LegFrames = 1
SPECIFICATION Spec
INVARIANT MovingBallIsTimed
CHECK_DEADLOCK FALSE
