\* One Node process, two concurrent requests, one crash.
SPECIFICATION Spec
CONSTANTS
    Callers = {c1, c2}
    Approvers = {founder}
    MaxAttempts = 5
    MaxCrashes = 1
    MaxReplays = 1
    LookupFaults = {"unavailable", "conflict", "unusable"}
    SharedDatabase = FALSE
    None = None
SYMMETRY CallerSymmetry
INVARIANTS
    TypeOK
    RecordsAgree
    EvidenceIsReal
PROPERTIES
    FinishedIsFinal
    KeepsPromise
CHECK_DEADLOCK FALSE
