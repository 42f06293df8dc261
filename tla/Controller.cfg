\* Units of thirty seconds: a timeout of seven minutes, below the fifteen of the wait for SSH.
SPECIFICATION ControllerSpec
CONSTANTS
    Timeout = 14
    CapacityWait = 4
    SshWait = 15
    PriceWait = 2
    ApiTime = 1
    PrepareTime = 1
    CreateTime = 2
    Pause = 1
    ConnectTime = 1
    UploadTime = 2
    Margin = 4
    Early = 3
    StartDelay = 1
    KillAfter = 3
    PollTime = 1
    CollectTime = 2
    Results = {report, wheel, odd}
    Unsafe = {odd}
    MaxMembers = 2
    MaxWrites = 3
CHECK_DEADLOCK FALSE
INVARIANTS
    CleanupInTime
    ChecksOnPricedPod
    CutChecksForewarned
    SuccessMeansEvidence
    RecordCoversRun
PROPERTIES
    ImplementsRegister
