\* One block of up to eight threads: every reduction, odd and even sizes.
SPECIFICATION Spec
CONSTANTS
    ChannelChoices = {1, 2, 3, 4, 5, 6, 7, 8}
    MaxThreads = 8
    SerialBelow = 4
    SamplingCount = 1
    Levels = 2
    PointsPerLevel = 1
    PixelCount = 2
    Footprint <- BlockFootprint
INVARIANTS
    SharedRaceFree
    ExactWhenDone
