\* Several blocks and two samplings: one block per sampling, and blocks that
\* straddle two samplings (gm).
SPECIFICATION Spec
CONSTANTS
    ChannelChoices = {1, 2, 3}
    MaxThreads = 2
    SerialBelow = 3
    SamplingCount = 2
    Levels = 1
    PointsPerLevel = 1
    PixelCount = 2
    Footprint <- GridFootprint
INVARIANTS
    PointersTrackSlots
PROPERTIES
    AccumulatesOnlyDue
