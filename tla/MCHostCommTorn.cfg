CONSTANTS
    NumRobots = 2
    MaxUpdates = 2
    MaxReadies = 1
SPECIFICATION Spec
INVARIANT WholeDatagram
CHECK_DEADLOCK FALSE
