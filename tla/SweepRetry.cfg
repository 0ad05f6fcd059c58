\* Two seeds with two attempts each, one worker: a seed waits for the other.
CONSTANTS
    Seeds = {s1, s2}
    Retries = 1
    Concurrency = 1
    MaxRuns = 1
SPECIFICATION Spec
INVARIANTS
    InfraOnlyAfterRetries
    ReportLeavesNone
PROPERTY
    SweepEnds
\* Nobody has to start the sweep again.
CHECK_DEADLOCK FALSE
