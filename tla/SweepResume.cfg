\* Two seeds with one attempt each; the command is run twice over the directory.
CONSTANTS
    Seeds = {s1, s2}
    Retries = 0
    Concurrency = 1
    MaxRuns = 2
SPECIFICATION Spec
INVARIANTS
    ReportIsWhole
PROPERTY
    OutcomesKept
\* Nobody has to start the sweep again.
CHECK_DEADLOCK FALSE
