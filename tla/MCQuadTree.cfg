SPECIFICATION SearchSpec
CONSTANTS
    Key <- MCKey
    Position <- MCPosition
    NoPosition = NoPosition
    NoBucket = NoBucket
    LatBound = 4
    LonBound = 8
    BucketSize = 2
    MergeBelow = 2
    Accuracy = 2
    InRectQueries <- MCInRectQueries
    Centers <- MCCenters
    Radii = {0, 1, 2}
    Limits = {1, 3}
    Epsilons = {3, 5}
    Patterns <- MCPatterns
    Secant <- MCSecant
    ChunkSlots = 3
INVARIANTS TypeOK WellFormed SlotsPointBack Counted BucketsBounded
    InRectExact ClustersCover NearbyExact KeysByPrefix
