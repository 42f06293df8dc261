SPECIFICATION Spec
CONSTANTS
    IntMax = 31
    LongMax = 255
    MaxThreads = 4
    Requests <- CallsAtTheLimits
INVARIANTS
    IndicesFit
    OffsetsFit
    EachBatchOnce
    RefusedUpFront
