CONSTANTS
    MaxVel = 24
    Eps = 6
    Round = 1
    Dists <- MCDists
    Vels <- MCVels
SPECIFICATION Spec
INVARIANTS
    TypeOK
    LandsOnTarget
    FewSegments
PROPERTY SpeedLimit
