\* Three calls spread over turns of at most two; a turn costs a token or
\* nothing, and two are over the budget.  One resend, and a provider may refuse
\* none, one or both of an adapter's options.
CONSTANTS
    MaxSteps = 3
    MaxCalls = 2
    TokenBudget = 1
    MaxTurnTokens = 1
    KeepWorld = FALSE
    MaxRetries = 1
    Options = {o1, o2}
SPECIFICATION ConvSpec
INVARIANTS
    CallsAnswered
    BlameIsFair
    OutcomeHasTrajectory
    NothingOutlives
    WorldOutlivesVerdict
PROPERTIES
    Terminates
    IsAnEpisode
    IsASession
CHECK_DEADLOCK FALSE
