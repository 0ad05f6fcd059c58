-------------------------------- MODULE Sweep ---------------------------------
(***************************************************************************)
(* harness/sweep.py: a pool of worker threads runs one episode per seed,   *)
(* each in a child process with a deadline, retries infrastructure errors  *)
(* and saves one result file per seed; the sweep may be signalled or       *)
(* killed at any point and started again over the same directory.  The     *)
(* signal handler runs in the main thread while the workers go on.         *)
(***************************************************************************)
EXTENDS Integers, FiniteSets

CONSTANTS
    Seeds,
    Retries,           \* SweepConfig.retries
    Concurrency,       \* SweepConfig.concurrency
    MaxRuns            \* bound: runs of the sweep command

ASSUME SweepAssumption ==
    Retries \in Nat /\ Concurrency \in Nat \ {0} /\ MaxRuns \in Nat
ASSUME SeedsAssumption == IsFiniteSet(Seeds)

VARIABLES
    mode,              \* of the sweep process
    run,               \* which run of the command this is
    rerun,             \* --rerun was given
    w,                 \* where the worker of each seed is
    attempt,           \* and in which attempt
    last,              \* what it will save
    active,            \* _active_procs
    snapshot,          \* procs of the signal handler
    phase,             \* of each episode process
    result,            \* result.json in the run directory of a seed's attempt
    record             \* results/seed-<n>.json

vars == <<mode, run, rerun, w, attempt, last, active, snapshot, phase, result, record>>
sweep == <<mode, run, rerun>>
disk == <<result, record>>

Attempts == 1 .. Retries + 1
Procs == (1 .. MaxRuns) \X Seeds \X Attempts
Alive == {p \in Procs : phase[p] \in {"running", "writing", "wrote"}}

\* A file by an episode of run "by": absent, cut off in the middle of its
\* write, or a whole result that is or is not an infrastructure error.
Kinds == {"none", "torn", "model", "infra"}
Outcomes == [by : 0 .. MaxRuns, kind : Kinds, attempt : 0 .. Retries + 1]
Absent == [by |-> 0, kind |-> "none", attempt |-> 0]
Outcome(k, kind, a) == [by |-> k, kind |-> kind, attempt |-> a]
Whole(f) == f.kind \in {"model", "infra"}

Working == {"clearing", "spawned", "waiting", "terminating", "pausing", "saving", "writing"}

TypeOK ==
    /\ mode \in {"off", "running", "stopping", "reported"}
    /\ run \in 0 .. MaxRuns /\ rerun \in BOOLEAN
    /\ w \in [Seeds -> Working \cup {"idle", "queued", "saved"}]
    /\ attempt \in [Seeds -> 0 .. Retries + 1]
    /\ last \in [Seeds -> Outcomes]
    /\ active \subseteq Procs /\ snapshot \subseteq Procs
    /\ phase \in [Procs -> {"off", "running", "writing", "wrote"}]
    /\ result \in [Seeds \X Attempts -> Outcomes]
    /\ record \in [Seeds -> Outcomes]

Idle == [s \in Seeds |-> "idle"]
NoAttempt == [s \in Seeds |-> 0]
NoOutcome == [s \in Seeds |-> Absent]

Init ==
    /\ mode = "off" /\ run = 0 /\ rerun = FALSE
    /\ w = Idle
    /\ attempt = NoAttempt /\ last = NoOutcome
    /\ active = {} /\ snapshot = {}
    /\ phase = [p \in Procs |-> "off"]
    /\ result = [d \in Seeds \X Attempts |-> Absent]
    /\ record = NoOutcome
-----------------------------------------------------------------------------
(* run_sweep in the main thread.                                           *)

\* Mutation: a file that is there counts as done, without being parsed.
TodoUnparsed(again) ==
    IF again THEN Seeds ELSE {s \in Seeds : record[s].kind \in {"none", "infra"}}

\* Mutation: results of earlier runs are not looked at.
TodoAll(again) == Seeds

\* _load_existing skips what it cannot parse; infra errors are run again.
Todo(again) == IF again THEN Seeds ELSE {s \in Seeds : record[s].kind # "model"}

Begin ==
    /\ mode \in {"off", "reported"} /\ run < MaxRuns
    /\ mode' = "running" /\ run' = run + 1
    /\ \E again \in BOOLEAN :
         /\ rerun' = again
         /\ w' = [s \in Seeds |-> IF s \in Todo(again) THEN "queued" ELSE "saved"]
    /\ UNCHANGED <<attempt, last, active, snapshot, phase, disk>>

\* All futures are done: build_report.
Report ==
    /\ mode = "running"
    /\ \A s \in Seeds : w[s] = "saved"
    /\ mode' = "reported"
    /\ UNCHANGED <<run, rerun, w, attempt, last, active, snapshot, phase, disk>>

\* The sweep process is gone, and its threads with it; episodes are not.
Gone ==
    /\ mode' = "off"
    /\ w' = Idle
    /\ attempt' = NoAttempt /\ last' = NoOutcome
    /\ active' = {} /\ snapshot' = {}
    /\ UNCHANGED <<run, rerun, phase, disk>>

\* SIGKILL, power loss.
Killed == mode \in {"running", "stopping"} /\ Gone

\* _terminate_children_and_exit: SIGTERM to the episodes registered now ...
Signal ==
    /\ mode = "running"
    /\ mode' = "stopping"
    /\ snapshot' = active
    /\ UNCHANGED <<run, rerun, w, attempt, last, active, phase, disk>>

\* ... SIGKILL to those that outlast the 15 seconds ...
HandlerKills(p) ==
    /\ mode = "stopping" /\ p \in snapshot \cap Alive
    /\ phase' = [phase EXCEPT ![p] = "off"]
    /\ UNCHANGED <<sweep, w, attempt, last, active, snapshot, disk>>

\* ... and os._exit.
HandlerExits ==
    /\ mode = "stopping" /\ snapshot \cap Alive = {}
    /\ Gone
-----------------------------------------------------------------------------
(* work and _run_one in a thread of the pool.                              *)

Up == mode \in {"running", "stopping"}
Proc(s) == <<run, s, attempt[s]>>
Busy == {s \in Seeds : w[s] \in Working}
Go(s, where) == w' = [w EXCEPT ![s] = where]

Take(s) ==
    /\ Up /\ w[s] = "queued" /\ Cardinality(Busy) < Concurrency
    /\ Go(s, "clearing")
    /\ attempt' = [attempt EXCEPT ![s] = 1]
    /\ UNCHANGED <<sweep, last, active, snapshot, phase, disk>>

\* Mutation: one attempt too few.
MayRetryShort(s) == attempt[s] < Retries
MayRetry(s) == attempt[s] <= Retries

\* What one attempt came to: a model outcome ends the loop, an infra error is
\* retried or, after the last attempt, kept.
Ended(s, outcome) ==
    IF outcome.kind = "infra" /\ MayRetry(s)
      THEN Go(s, "pausing") /\ UNCHANGED last
      ELSE Go(s, "saving") /\ last' = [last EXCEPT ![s] = outcome]

Infra(s) == Outcome(run, "infra", attempt[s])

\* rmtree of the run directory, then Popen.
Spawn(s) ==
    /\ Up /\ w[s] = "clearing"
    /\ result' = [result EXCEPT ![<<s, attempt[s]>>] = Absent]
    /\ phase' = [phase EXCEPT ![Proc(s)] = "running"]
    /\ Go(s, "spawned")
    /\ UNCHANGED <<sweep, attempt, last, active, snapshot, record>>

\* rmtree or Popen raised.
SpawnFails(s) ==
    /\ Up /\ w[s] = "clearing"
    /\ Ended(s, Infra(s))
    /\ UNCHANGED <<sweep, attempt, active, snapshot, phase, disk>>

Register(s) ==
    /\ Up /\ w[s] = "spawned"
    /\ active' = active \cup {Proc(s)}
    /\ Go(s, "waiting")
    /\ UNCHANGED <<sweep, attempt, last, snapshot, phase, disk>>

\* Mutation: an episode that outlasts SIGTERM is waited for.
OutlivesTermNever(s) == FALSE
OutlivesTerm(s) == w[s] = "terminating" /\ Proc(s) \in Alive

\* episode_timeout_s: SIGTERM ...
Deadline(s) ==
    /\ Up /\ w[s] = "waiting" /\ Proc(s) \in Alive
    /\ Go(s, "terminating")
    /\ UNCHANGED <<sweep, attempt, last, active, snapshot, phase, disk>>

\* ... and 20 seconds later SIGKILL.
Kill(s) ==
    /\ Up /\ OutlivesTerm(s)
    /\ phase' = [phase EXCEPT ![Proc(s)] = "off"]
    /\ UNCHANGED <<sweep, w, attempt, last, active, snapshot, disk>>

\* Mutation: leave the episode that missed its deadline behind.
EndedProcAnyway(s) == Proc(s) \notin Alive \/ w[s] = "terminating"
EndedProc(s) == Proc(s) \notin Alive

\* The outcome is that of result.json, an infra error when there is none or
\* reading it raises.
Found(s) ==
    LET f == result[<<s, attempt[s]>>] IN
    IF Whole(f) THEN Outcome(f.by, f.kind, attempt[s]) ELSE Infra(s)

Collect(s) ==
    /\ Up /\ w[s] \in {"waiting", "terminating"} /\ EndedProc(s)
    /\ active' = active \ {Proc(s)}
    /\ Ended(s, Found(s))
    /\ UNCHANGED <<sweep, attempt, snapshot, phase, disk>>

\* The pause is over.
Again(s) ==
    /\ Up /\ w[s] = "pausing"
    /\ attempt' = [attempt EXCEPT ![s] = @ + 1]
    /\ Go(s, "clearing")
    /\ UNCHANGED <<sweep, last, active, snapshot, phase, disk>>

\* write_json is not atomic: the file is truncated, then written.
Truncate(s) ==
    /\ Up /\ w[s] = "saving"
    /\ record' = [record EXCEPT ![s] = Outcome(run, "torn", 0)]
    /\ Go(s, "writing")
    /\ UNCHANGED <<sweep, attempt, last, active, snapshot, phase, result>>

Save(s) ==
    /\ Up /\ w[s] = "writing"
    /\ record' = [record EXCEPT ![s] = last[s]]
    /\ Go(s, "saved")
    /\ last' = [last EXCEPT ![s] = Absent] /\ attempt' = [attempt EXCEPT ![s] = 0]
    /\ UNCHANGED <<sweep, active, snapshot, phase, result>>

Work(s) ==
    \/ Take(s) \/ Spawn(s) \/ SpawnFails(s) \/ Register(s)
    \/ Deadline(s) \/ Kill(s) \/ Collect(s)
    \/ Again(s) \/ Truncate(s) \/ Save(s)
-----------------------------------------------------------------------------
(* An episode process (module Episode), as its parent sees it.             *)

EpisodeWrites(p) ==
    /\ phase[p] = "running"
    /\ phase' = [phase EXCEPT ![p] = "writing"]
    /\ result' = [result EXCEPT ![<<p[2], p[3]>>] = Outcome(p[1], "torn", 0)]
    /\ UNCHANGED <<sweep, w, attempt, last, active, snapshot, record>>

EpisodeWrote(p) ==
    /\ phase[p] = "writing"
    /\ phase' = [phase EXCEPT ![p] = "wrote"]
    /\ \E kind \in {"model", "infra"} :
         result' = [result EXCEPT ![<<p[2], p[3]>>] = Outcome(p[1], kind, p[3])]
    /\ UNCHANGED <<sweep, w, attempt, last, active, snapshot, record>>

\* It exits, crashes, or honours a SIGTERM, wherever it is.
EpisodeEnds(p) ==
    /\ p \in Alive
    /\ phase' = [phase EXCEPT ![p] = "off"]
    /\ UNCHANGED <<sweep, w, attempt, last, active, snapshot, disk>>

Next ==
    \/ Begin \/ Report \/ Killed \/ Signal \/ HandlerExits
    \/ \E s \in Seeds : Work(s)
    \/ \E p \in Procs : HandlerKills(p) \/ EpisodeWrites(p) \/ EpisodeWrote(p) \/ EpisodeEnds(p)

\* The main thread, the handler and the threads of the pool run on; an episode
\* is not trusted to end.
Spec ==
    /\ Init /\ [][Next]_vars
    /\ WF_vars(Report) /\ WF_vars(HandlerExits)
    /\ \A p \in Procs : WF_vars(HandlerKills(p))
    /\ \A s \in Seeds : WF_vars(Work(s))
-----------------------------------------------------------------------------
(* Properties.                                                             *)

\* Resuming never gives up a model outcome that is on disk: only --rerun
\* replaces it (docstring: "skips seeds that already have a non-infra result").
KeepsOutcomes ==
    \A s \in Seeds : record[s].kind = "model" /\ ~rerun => record'[s] = record[s]
OutcomesKept == [][KeepsOutcomes]_vars

\* An infrastructure error is recorded for a seed only when all of its attempts
\* ended in one, also while a signal is ending the episodes.
InfraOnlyAfterRetries ==
    \A s \in Seeds : record[s].kind = "infra" => record[s].attempt = Retries + 1

\* When the report is built every seed has a whole result, whatever earlier
\* runs were killed in the middle of: build_report parses them all and would
\* raise on a torn one.
ReportIsWhole ==
    mode = "reported" => \A s \in Seeds : Whole(record[s])

\* A sweep that reports leaves no episode of its own running, even when one
\* ignored its deadline.
ReportLeavesNone ==
    mode = "reported" => \A p \in Alive : p[1] # run

\* A sweep ends, however its episodes hang and fail.
SweepEnds == [](Up => <>~Up)

\* The handler's docstring: it terminates the episode subprocesses, so that
\* none writes "into files a resumed sweep is using".
HandlerLeavesNone ==
    [][mode = "stopping" /\ HandlerExits => {p \in Alive : p[1] = run} = {}]_vars
=============================================================================
