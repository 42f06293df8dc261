\* Clock units of forty minutes: a job of 70 minutes, two hours for the reaper.
SPECIFICATION FairSpec
CONSTANTS
    Own = own
    Foreign = {namesake}
    DeleteAttempts = 2
    RecoverAttempts = 2
    JobTimeout = 2
    ReapAge = 3
    MaxClock = 5
INVARIANTS
    ActiveJobKeepsPod
PROPERTIES
    EveryPodDeleted
    ImplementsRental
