CONSTANTS
    NumRobots = 2
    MaxUpdates = 1
    MaxReadies = 1
SPECIFICATION FairSpec
PROPERTY ExitReturns
CHECK_DEADLOCK FALSE
