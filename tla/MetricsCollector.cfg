\* Two counters, up to two increments each; three distinct start times, any
\* number of restarts within one.
CONSTANTS
    Keys = {requests, errors}
    MaxServed = 2
    MaxStarts = 3
SPECIFICATION Spec
INVARIANTS
    NeverOvercounts
    EveryIncrementAccounted
