CONSTANTS
    Procs = {p1, p2}
    NoProc = NoProc
    StartLimit = 2
    MaxProbes = 1
    MaxSteps = 2
    MaxCalls = 2
    Slack = 1
    KeepWorld = FALSE
SPECIFICATION Spec
INVARIANTS
    OneService
    NothingLeaks
    ActsAreJudged
PROPERTIES
    StartedIsOwn
    IsASession
    RolloutEnds
CHECK_DEADLOCK FALSE
