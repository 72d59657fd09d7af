CONSTANTS
    DIM = 2
    Points <- MCPoints
    Queries <- MCQueries
    Radii <- MCRadii
    DoubleMax = 1000
    MaxBuild = 4
    MaxPoints = 4
SPECIFICATION Spec
INVARIANTS
    IndexedOnce
    AlwaysValid
    NearestIsNearest
    KNearest
    WithinRadius
