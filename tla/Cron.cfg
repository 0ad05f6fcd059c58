\* The times of the code in half seconds.  The episode starts on a full
\* minute, or late enough in one for its first run to reach into the next.
\* The job sleeps 6 ms for each of all orders: a run takes 11 s with the fewest
\* the injector makes, and 33 to 89 s with those of the simulated history, the
\* shortest and the longest of which are here and one of just under a minute.
CONSTANTS
    Starts = {0, 80, 101}
    MaxWork = 365
    Holds = {22, 66, 119, 178}
    StartUp = 2
    Minute = 120
    FirstSecond = 2
    Poll = 1
    LockWait = 120
    Look = 1
    Pause = 2
    Window = 130
    Interval = 10
    Busy = 10
SPECIFICATION Spec
INVARIANTS
    UnfixedIsSeen
    FixedIsNotBlamed
    VerdictInTime
