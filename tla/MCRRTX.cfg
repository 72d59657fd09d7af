CONSTANTS
    Width = 2
    Height = 1
    Points <- Grid
    Dist <- GridDist
    Layouts <- GridLayouts
    Free <- GridFree
    StepSize = 2
    MaxNodes = 4
SPECIFICATION FairSpec
INVARIANTS
    TypeOK
    PathIsFree
    PathFromStart
    PathGetsCloser
PROPERTY PlanReturns
