-------------------------------- MODULE Cron --------------------------------
(***************************************************************************)
(* The cron_write_lock incident: the crontab runner (runtime/cron.py)      *)
(* starts archive_orders.py every minute, which holds the database's write *)
(* lock for a while, and the verifier's probe window (check_probe_window,  *)
(* verifier/verify.py) has to tell a world where that was fixed from one   *)
(* where it was not.  Time is discrete, in half seconds, the polling       *)
(* period of the runner; everything that is due happens before time goes   *)
(* on.                                                                     *)
(*                                                                         *)
(* Left out: the daily reschedule that also counts as a fix (it acts like  *)
(* a removed entry unless its minute falls into the window), entries of    *)
(* other scripts, writers whose transactions take no time, orders that     *)
(* come in during the two or three runs modelled (less than half a second  *)
(* of hold a minute), and runs of 110 s, which the runner kills (of 18 000 *)
(* orders; a default world has 5 500 to 15 000).                           *)
(***************************************************************************)
EXTENDS Integers

CONSTANTS
    Starts,      \* times of the episode's start, Minute being a full minute
    MaxWork,     \* bound: the latest time the agent resolves the incident
    Holds,       \* how long the runs of a world may hold the lock
    StartUp,     \* the longest time from its thread to its BEGIN IMMEDIATE
    Minute, FirstSecond, Poll,              \* cron.py: run
    LockWait, Look, Pause,                  \* the verifier's lock wait
    Window, Interval,                       \* and its probes
    Busy                                    \* SQLite's busy timeout in the service

ASSUME TimesAssumption ==
    /\ Starts \subseteq Nat /\ Holds \subseteq Nat
    /\ {MaxWork, StartUp, FirstSecond, Poll, Look, Pause} \subseteq Nat
    /\ {Minute, LockWait, Window, Interval, Busy} \subseteq Nat \ {0}

\* No run is shorter than a probe's interval and its wait for the lock: the
\* fewest orders of a world, 1800, take 10.8 s.  There is no upper bound.
ASSUME HoldsAssumption == \A h \in Holds : Interval + Busy < h

\* The window is a minute and a probe's interval; a run starts soon after it
\* is due.
ASSUME PeriodsAssumption ==
    /\ Minute + Interval <= Window
    /\ FirstSecond + Poll + StartUp < Minute
    /\ Poll + StartUp <= Interval

VARIABLES
    now,         \* the time
    entry,       \* the archive job's line of the crontab: "minutely", "gone"
    script,      \* archive_orders.py: "deployed", "edited"
    lastMinute,  \* CronRunner.run: last_minute
    skipped,     \* the latest due run was skipped for the one before it
    job,         \* the script: "idle", "starting", "holding" the write lock
    jobAt,       \* since when it is
    hold,        \* how long it holds it: 6 ms for each row of orders
    phase,       \* the agent at work, then check_probe_window
    began,       \* when the check began
    started,     \* when its window opened
    nextAt,      \* when it acts next
    opened,      \* history: what the job was up to when the window opened,
    lapped,      \* and that its run then outlasted the minute by a moment
    logged       \* "database is locked" was logged inside the window

cronVars  == <<lastMinute, skipped, job, jobAt>>
probeVars == <<phase, began, started, nextAt, opened, lapped, logged>>
fixVars   == <<entry, script, hold>>
vars == <<now, cronVars, probeVars, fixVars>>

Verifying == {"lockwait", "waiting", "probing"}
None == -1

TypeOK ==
    /\ now \in Nat
    /\ entry \in {"minutely", "gone"} /\ script \in {"deployed", "edited"}
    /\ lastMinute \in Nat \cup {None} /\ lastMinute * Minute <= now
    /\ skipped \in BOOLEAN
    /\ job \in {"idle", "starting", "holding"}
    /\ jobAt \in Nat /\ jobAt <= now
    /\ hold \in Holds
    /\ phase \in Verifying \cup {"working", "passed", "failed"}
    /\ began \in Nat /\ started \in Nat /\ nextAt \in Nat
    /\ opened \in {"not", "clear", "starting", "held"}
    /\ lapped \in BOOLEAN /\ logged \in BOOLEAN

Init ==
    /\ now \in Starts
    /\ entry = "minutely" /\ script = "deployed"
    /\ lastMinute = None /\ skipped = FALSE
    /\ job = "idle" /\ jobAt = 0 /\ hold \in Holds
    /\ phase = "working" /\ began = 0 /\ started = 0 /\ nextAt = 0
    /\ opened = "not" /\ lapped = FALSE /\ logged = FALSE

LockFree == job # "holding"
Unfixed == entry = "minutely" /\ script = "deployed"
-----------------------------------------------------------------------------
(* The runner and the job.                                                 *)

ThisMinute == now \div Minute
Full(minute) == minute * Minute

\* A minute that was not acted on yet, from its first second on.
Due == now % Minute >= FirstSecond /\ ThisMinute # lastMinute

\* The window opened during the run that is now in the way of the next.
OpenedDuring == opened = "held" /\ job = "holding" /\ jobAt < started

\* _run_job: only the deployed script is run, and never twice at a time.
RunJob ==
    IF job = "idle"
    THEN job' = "starting" /\ jobAt' = now /\ skipped' = FALSE /\ UNCHANGED lapped
    ELSE skipped' = TRUE /\ lapped' = (lapped \/ OpenedDuring) /\ UNCHANGED <<job, jobAt>>

\* run and _tick
CronTick ==
    /\ Due
    /\ lastMinute' = ThisMinute
    /\ \/ Unfixed /\ RunJob
       \/ ~Unfixed /\ UNCHANGED <<skipped, job, jobAt, lapped>>
    /\ UNCHANGED <<now, phase, began, started, nextAt, opened, logged, fixVars>>

\* archive_orders.py: BEGIN IMMEDIATE
JobLocks ==
    /\ job = "starting"
    /\ job' = "holding" /\ jobAt' = now
    /\ UNCHANGED <<now, lastMinute, skipped, probeVars, fixVars>>

\* archive_orders.py: commit
JobEnds ==
    /\ job = "holding" /\ now = jobAt + hold
    /\ job' = "idle"
    /\ UNCHANGED <<now, lastMinute, skipped, jobAt, probeVars, fixVars>>
-----------------------------------------------------------------------------
(* The agent.                                                              *)

\* It removes the entry, or edits the script, which the runner then refuses.
AgentActs ==
    /\ phase = "working"
    /\ \/ entry' = "gone" /\ UNCHANGED script
       \/ script' = "edited" /\ UNCHANGED entry
    /\ UNCHANGED <<now, cronVars, probeVars, hold>>

\* It resolves the incident, and the verifier calls check_probe_window.
Resolve ==
    /\ phase = "working"
    /\ phase' = "lockwait"
    /\ began' = now /\ nextAt' = now
    /\ UNCHANGED <<now, cronVars, started, opened, lapped, logged, fixVars>>
-----------------------------------------------------------------------------
(* check_probe_window.                                                     *)

OpensAtOnce == TRUE                         \* mutation: no lock wait
\* The lock was free, or the wait for it is over.
MayOpen == ~LockFree => now = nextAt /\ now >= began + LockWait

\* The minute's run was skipped a moment ago, and the next is a minute away.
JustSkipped == skipped /\ now <= Full(lastMinute) + FirstSecond + Poll + StartUp

OpenWindow ==
    /\ phase = "lockwait" /\ nextAt <= now
    /\ MayOpen
    /\ phase' = "waiting"
    /\ started' = now /\ nextAt' = now
    /\ opened' = CASE job = "starting" -> "starting"
                   [] job = "holding"  -> "held"
                   [] job = "idle"     -> "clear"
    /\ lapped' = JustSkipped
    /\ UNCHANGED <<now, cronVars, began, logged, fixVars>>

\* BEGIN IMMEDIATE timed out; sleep, and try again.
LookAgain ==
    /\ phase = "lockwait" /\ now = nextAt + Look /\ ~LockFree
    /\ nextAt < began + LockWait
    /\ nextAt' = now + Pause
    /\ UNCHANGED <<now, cronVars, phase, began, started, opened, lapped, logged, fixVars>>

InWindowHalf == 2 * (now - started) < Window    \* mutation: half the window
InWindow == now - started < Window

Probe ==
    /\ phase = "waiting" /\ now = nextAt
    /\ InWindow
    /\ phase' = "probing"
    /\ UNCHANGED <<now, cronVars, began, started, nextAt, opened, lapped, logged, fixVars>>

RestartsWindow == phase' = "waiting" /\ started' = now /\ nextAt' = now + Interval  \* mutation
NextProbe == phase' = "waiting" /\ nextAt' = now + Interval /\ UNCHANGED started

\* The checkout got the lock in time: 201.
ProbeSucceeds ==
    /\ phase = "probing" /\ LockFree
    /\ NextProbe
    /\ UNCHANGED <<now, cronVars, began, opened, lapped, logged, fixVars>>

\* It waited for the lock as long as the service does: 500.
ProbeFails ==
    /\ phase = "probing" /\ ~LockFree /\ now = nextAt + Busy
    /\ phase' = "failed"
    /\ UNCHANGED <<now, cronVars, began, started, nextAt, opened, lapped, logged, fixVars>>

\* So did a checkout of the background traffic.
TrafficFails ==
    /\ phase \in {"waiting", "probing"} /\ ~LockFree /\ now >= jobAt + Busy
    /\ logged' = TRUE
    /\ UNCHANGED <<now, cronVars, phase, began, started, nextAt, opened, lapped, fixVars>>

WindowEnds ==
    /\ phase = "waiting" /\ now = nextAt
    /\ ~InWindow
    /\ phase' = IF logged THEN "failed" ELSE "passed"
    /\ UNCHANGED <<now, cronVars, began, started, nextAt, opened, lapped, logged, fixVars>>
-----------------------------------------------------------------------------
(* Time.                                                                   *)

\* What has to happen before time goes on.
Overdue ==
    \/ Due /\ now % Minute >= FirstSecond + Poll
    \/ job = "starting" /\ now >= jobAt + StartUp
    \/ job = "holding" /\ now >= jobAt + hold
    \/ phase = "working" /\ now >= MaxWork
    \/ phase = "lockwait" /\ now >= nextAt /\ (LockFree \/ now >= nextAt + Look)
    \/ phase = "lockwait" /\ now = nextAt /\ now >= began + LockWait
    \/ phase = "waiting" /\ now >= nextAt
    \/ phase = "probing" /\ (LockFree \/ now >= nextAt + Busy)

Pass ==
    /\ phase \notin {"passed", "failed"}
    /\ ~Overdue
    /\ now' = now + 1
    /\ UNCHANGED <<cronVars, probeVars, fixVars>>

\* After the verdict the runner is stopped (LiveWorld.stop).
Done == phase \in {"passed", "failed"} /\ UNCHANGED vars

Next ==
    \/ CronTick \/ JobLocks \/ JobEnds \/ AgentActs \/ Resolve
    \/ OpenWindow \/ LookAgain \/ Probe \/ ProbeSucceeds \/ ProbeFails
    \/ TrafficFails \/ WindowEnds \/ Pass \/ Done

Spec == Init /\ [][Next]_vars
-----------------------------------------------------------------------------
(* Properties.                                                             *)

\* A world that still has its job does not get through the probe window,
\* whenever the agent resolved, wherever the minute was and however long the
\* job's runs are (docstring: "an unfixed world re-enters the failing state
\* within the window"); except when a run outlasted the minute by no more than
\* a moment: the window opened just before its end or just after, the next run
\* was skipped for it, and the one after that is a minute away.
UnfixedIsSeen ==
    phase = "passed" /\ Unfixed => lapped

\* A fixed world fails only for a job that was already started: one that did
\* not yet hold the lock when the lock wait looked at it, or one that holds it
\* for longer than the whole lock wait.
FixedIsNotBlamed ==
    phase = "failed" /\ ~Unfixed =>
        \/ opened = "starting"
        \/ opened = "held" /\ StartUp + hold >= LockWait

\* The check has given its verdict by the time its waits add up to, whatever
\* the job does; time itself never gets stuck (there is no deadlock).
VerdictInTime ==
    phase \in Verifying =>
        now - began <= LockWait + Look + Pause + Window + Interval + Busy
=============================================================================
