\* Does a retry follow a reconciliation made after the recorded failure?
SPECIFICATION Spec
CONSTANTS
    Callers = {c1, c2}
    Approvers = {founder}
    MaxAttempts = 4
    MaxCrashes = 0
    MaxReplays = 1
    LookupFaults = {"unavailable"}
    SharedDatabase = FALSE
    None = None
PROPERTIES
    RetryFollowsReconciliation
CHECK_DEADLOCK FALSE
