SPECIFICATION Spec
CONSTANTS
    t1 = t1
    t2 = t2
    Threads = {t1, t2}
    MaxCalls = 3
    UserArgs <- Assorted
    IntMax = 3
    Built = {"cpu", "cuda"}
SYMMETRY Interchangeable
CHECK_DEADLOCK FALSE
INVARIANTS
    GuardsBalanced
    BackwardMatchesForward
    NeverSilentlyDetached
