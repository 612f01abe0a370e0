\* Two processes on one database file: at rest a mission has a way on, and every call returns.
SPECIFICATION FairSpec
CONSTANTS
    Callers = {c1, c2}
    Approvers = {founder}
    MaxAttempts = 3
    MaxCrashes = 1
    MaxReplays = 0
    LookupFaults = {"unavailable"}
    SharedDatabase = TRUE
    None = None
INVARIANTS
    NeverStuck
PROPERTIES
    CallsReturn
CHECK_DEADLOCK FALSE
