SPECIFICATION ContractSpec
CHECK_DEADLOCK FALSE
CONSTANTS
    Calls <- MCCalls
    StepMax = 7
    Built <- MCBuilt
    AutocastDevices <- MCAutocastDevices
INVARIANTS
    TracesWhatRuns
    RefusalsForeseen
    ComputesAsDocumented
