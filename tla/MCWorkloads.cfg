\* Two release runs of one or two revisions; up to two pairs; four revisions of the package.
SPECIFICATION WorkloadsSpec
SYMMETRY Symmetry
CONSTANTS
    ReleaseRuns = {r1, r2}
    Shas = {sha1, sha2}
    Images = {1, 3, 4, 5, 11}
    Candidates <- Pairs
    MaxCases = 2
    Revisions <- FourRevisions
    None = None
CHECK_DEADLOCK FALSE
INVARIANTS
    VerifiedRunCompleted
    RowsBacked
    VerifiedAtRevision
    SuiteOnWholeTree
