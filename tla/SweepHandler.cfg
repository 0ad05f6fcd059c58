\* One run, one attempt per seed: the handler races with the start of an episode.
CONSTANTS
    Seeds = {s1, s2}
    Retries = 0
    Concurrency = 1
    MaxRuns = 1
SPECIFICATION Spec
PROPERTY
    HandlerLeavesNone
\* Nobody has to start the sweep again.
CHECK_DEADLOCK FALSE
