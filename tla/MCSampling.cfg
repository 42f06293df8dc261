SPECIFICATION Spec
CONSTANTS
    S = 6
    Grain = 2
    Points = 2
    IntRange = 16
    LongRange = 256
    Calls <- CallsAtTheLimits
CHECK_DEADLOCK FALSE
INVARIANTS
    RefusedIffUnfit
    ReadsWithinLevels
    ComputesAttention
    GradientsAreSlopes
