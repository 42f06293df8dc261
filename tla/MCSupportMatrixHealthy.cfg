SPECIFICATION Spec
CONSTANTS
    Images = {1, 3, 4, 5, 11}
    Candidates <- Pairs
    MaxCases = 2
CHECK_DEADLOCK FALSE
INVARIANTS
    HealthyPairSucceeds
