\* Blocks of two threads on the GPU, two workers, SIMD groups of two lanes.
SPECIFICATION DevicesFairSpec
CONSTANTS
    ChannelChoices = {1, 2, 3, 4}
    MaxThreads = 2
    SerialBelow = 2
    SamplingCount = 1
    Levels = 2
    PointsPerLevel = 1
    PixelCount = 2
    Footprint <- CudaFootprint
    WorkerCount = 2
    Batches = 2
    Heads = 2
    Queries = 2
    SamplePoints = 2
    SpatialSize = 2
    CpuFootprint <- SharedPixels
    Width = 2
    MpsChannels = 3
    MpsSlots = 3
    Chunk = 2
    MpsPixels = {0, 1}
    MpsFootprint <- Contended
INVARIANTS
    BarrierUniform
    StoreRaceFree
    CpuRaceFree
    MpsExactWhenOver
PROPERTIES
    KernelsAccumulateOnlyDue
    KernelsComplete
