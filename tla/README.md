# SREGym in TLA+

SREGym generates a small production stack (a checkout service, its databases,
logs, metrics, git history, cron), breaks it in a known way, lets an agent work
on it through tools, and judges the result with deterministic checks. This
directory models the parts of it that have behaviour: processes, threads,
timeouts, files that outlive crashes. The modules are read next to the code;
`PROJECT.json` gives for each definition the lines it stands for.

## 1. The system

| part | state it keeps | operations | talks to |
|---|---|---|---|
| episode (`harness/episode.py`) | loop counters, stop reason, the live runtime, steps | `run_episode`: prepare, start, turns and calls, verify, stop, write, destroy | adapter, tools, verifier, live world, run directory |
| sweep (`harness/sweep.py`) | pool of workers, `_active_procs`, one file per seed | `run_sweep`, `_run_one`, the signal handler, `build_report`, `rescore` | episode processes (spawn, terminate, kill), files |
| environment (`environments/sregym_env`) | tool server, rollout state, temporary world | `setup_task`, the tools, `_cleanup`, `finalize` | the same world, tools and verifier |
| live world (`runtime/`) | service process, traffic, metrics and cron threads | start, stop, restart, scrape, tick | the world's directory, HTTP |
| checkout service (`generator/templates/...`) | core and ledger databases, counters, rate windows | requests, webhook, start from `.env` | SQLite files, gateway |
| host scripts (`.../scripts`) | nothing between runs | reconcile, archive, migrate, expire, deploy | the databases |
| service manager (`runtime/services.py`) | the pid file, the port | `start`, `stop`, `restart`, exit hook | service process, episode, tool server, restart tool |
| verifier (`verifier/verify.py`) | the manifest taken at injection | checks of symptom, root cause, collateral damage; verdict | HTTP, databases, git, steps |
| tools (`tools/`) | the files the agent created | logs, metrics, files, shell, restart, resolve | world, service manager |
| faults, generator | the world being built | build, inject, specify the checks | files only |
| agents and adapters (`harness/agents`) | the conversation | start, next turn, observe, nudge | remote APIs |

How they interact: one episode owns one world. It calls the adapter for a turn
and the tools for each call, in one thread. Meanwhile the service serves
traffic, the collector scrapes it, cron runs jobs against the same databases,
and the agent restarts things. A sweep owns many episode processes, from worker
threads, and is itself killed and resumed. The interaction is through calls in
the episode, through SQLite locks and files in the world, and through process
signals and result files in the sweep.

What is hard: two databases that cannot commit together while requests, batch
jobs and restarts interleave; a script that reads them one after the other;
counters that restart; a verdict that must have seen every call whatever broke;
files cut short by a signal, and read again by the next run; waits nested in
waits; a tool server and a task that each believe they own the end of an incident;
a process that is only known by a pid in a file and a port anyone can bind. `PROJECT.json` lists these under `hazards`, each at its line.

What makes each part correct:

* episode: the budget holds, the verdict covers the calls, records agree with
  the verdict, nothing is left running behind it, a world is destroyed only after its verdict;
* conversation: no request leaves with an unanswered call, retries end, and what the
  episode blames is what was at fault;
* environment: one verdict over every call, a world deleted exactly when nobody can
  ask for one any more, and nothing left running;
* service manager: at most one service, "started" only of a process of one's own;
* sweep: outcomes are never given up on resume, an infrastructure error is
  final only after its retries, the report is whole, no episode is left behind;
* service: a confirmed order has its payment, ids are unique, what a client was
  told is durable, locks are released;
* reconcile: nothing is reported or copied wrongly although checkouts go on;
* archive and migrate: no order is lost, the schema is a prefix of what the files say,
  and exit code 0 means done;
* metrics: the store never shows more than happened and loses nothing silently;
* cron and probe window: an unfixed schedule is seen and a fixed one is not blamed, but
  for the moments at which the code cannot tell them apart;
* verdict: a repair is rewarded whatever its order, a mask never; composed faults
  do not veto each other's repair; what the process loaded counts as well as what
  is on disk.

## 2. Modules

| module | models | composed of |
|---|---|---|
| `Incident` | what one incident promises, abstractly | |
| `Episode` | `run_episode`, `LiveWorld`, exit paths | implements `Incident` |
| `Conversation` | the adapters of both APIs behind `next_turn`, and how their errors reach the episode | extends `Episode`, implements it |
| `EpisodeProofs` | the invariants of both, the refinement, and that the composition takes only an episode's steps | `Conversation` |
| `ServiceManager` | `ServiceManager`, `serve.py`, the pid file and the port | |
| `OnCall` | the tool server, the task, `finalize` | extends `ServiceManager`, implements `Incident` |
| `OnCallProofs` | the invariants of both, the refinement, progress | `OnCall` |
| `Checkout` | `POST /checkout`, the webhook, both databases, restarts, batch jobs | |
| `Reconcile`, `MCReconcile` | `reconcile_ledger.py` beside the live service | extends `Checkout` |
| `CheckoutProofs` | the invariants of both, progress of requests | `Reconcile` |
| `Scripts` | `archive_orders.py`, `migrate.py` and checkouts against each other | |
| `ScriptsProofs` | its invariants | `Scripts` |
| `MetricsCollector` | `scrape_once` and the counters it scrapes | |
| `MetricsProofs` | its invariants | `MetricsCollector` |
| `Sweep` | `run_sweep`, workers, handler, episode processes, resume | episodes as their outcomes |
| `SweepProofs` | its invariants, the bound of the pool, progress of workers | `Sweep` |
| `Cron` | `CronRunner`, `archive_orders.py` as a lock holder, `check_probe_window` | |
| `CronProofs` | types, the time bound, what a fixed world may be blamed for, that an unfixed one is seen | `Cron` |
| `Verdict`, `MCVerdict` | the ten fault templates, composition, the verifier's checks and reward, the responder's tool calls | |
| `VerdictProofs` | types and the four properties of the run | `Verdict` |

### Episode

`pc` is the place in `run_episode`: prepare, start, agent (bind and start),
turn, nudge, call, observe, verify, stop (the `finally`), end (`write_end`),
result (`result.json`), destroy. `stepNo`, `steps` and `traj` are the three
places a call is counted in (the loop's counter, the list given to the verifier,
the trajectory file); they differ exactly when something raised between them
(`CallUnrecorded`, `CallUnwritten`). `Raised` is the `except` clause.
`Interrupt`, `Terminate` and `Kill` are Ctrl-C, SIGTERM turned into
`SystemExit`, and SIGKILL, at every place; `CutShort` is `write_json` stopped
after it truncated the file. `svc` is the service process, which a tool may
stop or start. An agent is any sequence of turns. `LiveWorld.stop` waits for the
service and only tells its threads to stop (`LiveStopped`): `threads` is then "told",
and each of them ends by itself, or with the process.

`Incident` keeps four things: calls made, calls judged, whether the harness broke
down, and the world. The mapping takes `stepNo`, `judged`, `sessionFailed` and
`sessionWorld`; `IsASession` is the refinement. The world is "live" as long
as its runtime is up, hence the case distinction in `sessionLive`: a start that
failed has no runtime and is judged all the same.

### Conversation

Adds to `Episode` what happens inside `adapter.next_turn`. `net` is where the
exchange with the API is, `retries` and `sends` count within one turn, `refuses`
is the set of request options this API does not take, `open` the tool calls of the
transcript that have no result yet, `cause` what the exception the episode caught
really came from. A provider is chosen at the start: the Anthropic adapter leaves
retries to the SDK, whose exception classes `_looks_like_infra_error` knows, and
survives one refused option per call; the OpenAI-compatible one retries by itself,
drops options as long as it is refused, and raises `RuntimeError` in the end.
`Elsewhere` is any step of the episode outside `next_turn`, and `LoopRaises` one that
raises there. `IsAnEpisode` is the refinement of `Episode` by its own module: the
variables it shares are not mapped at all, and `Spec` carries its fairness, so that
the property also says that the exchange with the API comes to an end.

### ServiceManager and OnCall

`ServiceManager` has one start or stop under way (`op`), as the code's callers are
all in one thread: spawn, poll (has it exited at once?), probe (does the port
answer?), attempts up to `StartLimit`, the wait for a stopped process. Processes are
numbered and have a life of their own: they write the pid file, bind, crash, or
ignore SIGTERM for a while; a stranger may bind the port between `free_port` and the
start. `Abandoned` is the death of the program that runs the manager: the call is lost,
the service, in a session of its own, is not.

`OnCall` is the composition of two programs. The tool server goes through `stage`:
setup, live (the service being started), serving, call, verify, reply, closing,
cleanup, gone, or killed. The task goes through `task`: running, ended, scored or
errored, and knows of the server only what was pushed with the last call that
returned (`seen`). Turns may hold several calls, sent one after the other, also after
the verdict. `Cleanup`, `ExitHook` and `Finalize` are the three places that stop or
delete things. `acts` counts the calls that reached the world and `steps` those that
were recorded, which differ only inside a call, or for ever when the server is killed
there. `offline` is the verdict `finalize` makes when there was none.

`Incident` is the specification both hosts implement. It lets a closed world be
judged only if `Offline`, which is FALSE for the native episode and TRUE here.

### Checkout and Reconcile

One request goes new, waiting (for the write lock), inserted, paid (ledger
committed), confirmed (core committed), done. `writer` is the holder of the core
lock; a `Batch` job may take it and never give it back, which is what the busy
timeout is for. `payments[f][r]` counts rows in ledger file `f`, because the
service writes to the file named by the `.env` it was started with, and the
divergence fault makes that a snapshot. Ids are those of a table without
AUTOINCREMENT: an id of a rolled-back insert is handed out again, and the two
databases then disagree about whose it is. `Reconcile` adds the script with one
step per read and one for the copies, which commit together, and may be cut short
anywhere. `created` is the second a handler started in, which the order and its
payment both carry (`Stamp`; requests may wait for the lock, so ids need not follow
it). The script's `--since` leaves out older orders of core and older payments of the
target (`Since`), and no payment of the source.

### Scripts

Both scripts write the core database beside the service, and both commit more than
once. `core` and `archive` are sets of orders; an order carries a row number of the
model so that two orders with the same id are told apart, as ids are handed out again
once the highest are deleted. `schema` is the set of statements of the migration
files that took effect; the last of each file records its version. `run[r]` is the
script of a runner (cron, the agent's shell): its place, the cutoff read before the
lock, the old orders read under it, the files found pending one by one before any is
applied. `Fails` is every `sqlite3.Error` (a lock that was not free in time among
them: an archive run of a generated world holds it for half a minute and more,
`migrate.py` waits 5) and every kill. An order placed today is never old: `--retention-days 0`
is left out, and the mutant of `NoOrderLost` shows why that matters.

### MetricsCollector

`total` is the truth, `cur` the counters of the running process, `got` a response
being processed, `prev` the scrape before it, `recorded` the store. A row set is
written key by key, so a failing store leaves part of it (`RecordFails`). Start
times are whole seconds, so two processes may share one (`blurred`); `missed`
collects what is lost for a reason the code accepts.

### Sweep

`w[s]` is where the worker of seed `s` is; an episode is a process of its own
with phases running, writing, wrote, which may hang. Workers start, register, wait
with a deadline, terminate, kill, collect, retry, save; the handler runs
beside them on the copy of `_active_procs` it took; SIGKILL may come at any time.
Results and records may be torn. `MaxRuns` runs follow each other on one
directory, each with or without `--rerun`; episodes of a killed run live on.

### Cron

Time is explicit, in half seconds (the runner polls twice a second), and
everything due happens before it goes on (`Overdue`). The runner fires once per
minute from its first second on, skips a job that still runs and a script
that was edited; the job takes the lock up to `StartUp` later and keeps it for
`hold`, 6 ms for each row of `orders`: those of `data.py` and every simulated checkout
of the history that is generated after the injection, some 33 to 89 s in all, so that
runs often reach into the next minute. `opened` and `lapped` remember what the job was
up to when the window opened, and whether its run then outlasted the minute by a
moment. The agent may fix the crontab or edit the script and resolves at any
time; then the lock wait, the window and its probes run as in the code, against
the same job. A probe takes no time unless it waits for the lock.

### Verdict

`host` is what is on disk (each key of `.env`, `main.py`, the pin and the
installed library, the schema, read-only paths, crontab, script, and whether
orders were paid into the snapshot), `proc` what the service loaded when it was
last started. Each entry of `Faults` is an `inject` function in two halves: the
damage (`keys`, `value`, `ro`, `needs`) and the specification it hands over
(`symptom` probes, `root` checks, `allow`ed files). `Prefixed` is the merge of
`composed.py`. `Failing` says which probes fail, `Changed` which files differ
from the manifest, `Passes` what each kind of root-cause check asks. An action is
one tool call, and `Resolve` is `Verifier.run`. Customers go on paying after it.
A run of cron's job starts while it is scheduled (`JobStarts`), and takes and gives back
the lock whatever is done to the schedule meanwhile (`JobLocks`, `JobEnds`).

Abstracted: values are right ("prod"), faulty, defaulted or "other", which stands
for any value a mask would use and no check accepts. `main.py` is as
shipped, patched around the symptom (it then answers whatever the environment and
schema are, without its log line) or migrated. The library, the migrated code and
the crontab are changed only in the incident they belong to, and a migration is
written only where one is missing. Which checkouts meet the lock is chosen in `Resolve`
(`hits`): any of the window's and of the other probes' may meet a run that is under
way, and the window those of a job that is still scheduled; when it does not is
the subject of `Cron`. Left out are checks that no call here can fail: paths that
must exist, row counts (generated orders are 90 days old at
most, and by default 365 days are kept), the
history of commits, the shape of logs. So are calls that only read.

## 3. Runs

| run | question | bounds |
|---|---|---|
| `episode` | every exit path, with the adapter: records, leftovers, blame, termination, both refinements | 3 steps, turns of up to 2 calls, 3 tokens: a turn can straddle the end of either budget; 1 retry, 2 options that may be refused |
| `oncall` | the rollout: one service, one verdict, no leftovers, its end, refinement | 2 processes at a time, 2 attempts of a start, 2 steps, turns of up to 2 calls and one turn of slack: the budget can end inside a turn, and a call can follow the verdict |
| `checkout` | the two transactions under concurrency, failure and restart | 3 requests (one half done, one that reuses its id, one more), 2 ledger files |
| `reconcile` | the script beside the service, run twice | 2 requests, 2 files, 2 seconds, 2 runs: an id used twice, in one second or in two, and a copy made twice are all possible |
| `reconcile_exit` | violation: exit code 0 with a payment missing | 3 requests, 3 files, 1 second, 1 run |
| `metrics` | accounting under restarts and failures | 2 counters of up to 2, 3 start times |
| `sweep_resume` | killed and resumed: what is kept, what is run again | 2 seeds, 1 worker, 1 attempt, 2 runs |
| `sweep_retry` | retries, deadlines, the end of a sweep | 2 seeds, 1 worker, 2 attempts, 1 run |
| `sweep_handler` | violation: an episode left by the handler | as `sweep_resume`, 1 run |
| `cron` | the probe window against the job | the code's own times; the episode starts on a minute or so late in one that its first run is still going when the next is due; the agent takes up to three minutes; runs of 11 s (the fewest orders of `data.py` and no history), 33, 59.5 and 89 s |
| `verdict` | repairs rewarded, masks not, for each fault on its own and the vetted pairs, all variants | 5 calls: the longest repair of one fault is three (restore, restart, backfill), so two may go astray before, between or after; of a pair it is four (write, chmod, migrate, restart) |
| `scripts` | archive and migrate, cut short and run again, by two runners | 3 generated orders (2 old) and 2 checkouts, 2 files of 2 columns, any number of runs |

Small bounds are enough where the actors are interchangeable and meet in pairs
(requests at one lock, a worker and its episode, a run and the run before it); the
third request and the third ledger file are there for the cases that need a
bystander. The proofs below lift most invariants to all sizes.

Properties of the runs are invariants, action properties, liveness and refinements;
each has a mutant in `PROJECT.json`, a plausible slip in the code which breaks it.

Fairness. `Episode`: the process keeps running, since each adapter call, tool and
check has a timeout of its own; `Conversation` keeps that for the whole of the
adapter, whose requests have timeouts too. `OnCall`: the server's steps and
the task's, since every tool and probe has a timeout and the model answers each turn;
nothing is owed by the service, strangers or signals, and the model never has to quit:
the turn backstop ends it. `Checkout`: each request's thread runs on, and
only those: nobody promises that a batch job ends or that the process is started
again. `MetricsCollector`: the scrape loop. `Sweep`: workers, handler and report;
episodes are not trusted to end, which is why `SweepEnds` shows that the deadline
works. Signals, restarts and failures are never owed. `Cron` has a clock in
place of fairness; that it has no deadlock means that time never gets stuck.
`CHECK_DEADLOCK FALSE` is set where the system may really stop: an episode that
has ended, a rollout that has been scored, a sweep nobody starts again, an incident
that has been judged. `Verdict` has
safety properties only and assumes no fairness, and so has `Scripts`.

## 4. What was found

* `reconcile_ledger.py` decides its exit code by counting the rows it copied
  against the ids it missed. Where an order id was used twice the counts agree
  although a payment is still missing (`ExitZeroIsConsistent`). The theorem
  `ExitZeroIsHonest` says that this is the only way to deceive the script.
* The sweep's signal handler ends the episodes it found registered and exits;
  one that a worker starts meanwhile, or had not registered yet, is left running
  (`HandlerLeavesNone`).

Seen while modelling, without a run of its own:

* `truncated_env.py:21-22` names the whole file as the fix, and its checks (line 137)
  ask for all lost keys but `SESSION_SECRET`, which may stay at its development default.
* The fix-forward end of `bad_dependency_pin.py:131` looks for an import that the
  unmigrated `main.py` has too, and for the rest asks the running process; code put
  back after the restart is a success, although lines 109-110 say that incoherent
  mixtures fail.
* After an outage the OpenAI-compatible adapter raises a plain `RuntimeError`
  (`openai_adapter.py:131`, `:148`), which `_looks_like_infra_error` does not know: the
  episode counts as a model outcome, although `sweep.py:11-12` says that API errors
  never do. `BlameIsFair` therefore asks for the infra flag of an outage only where
  the Anthropic SDK raised it. The OpenAI adapter also makes up an id for a tool call
  that has none and echoes the message without it; the Anthropic one survives only
  one refused option per call.
* `archive_orders.py:4-5` says the two databases cannot diverge; a run that ends between
  the two commits leaves the orders in both, and only the next run puts it right
  (`SuccessMeansDone`). The items of an archived order are deleted and not archived.
* `migrate.py` cannot finish a file it applied half: every later run fails with
  "duplicate column name" at its first statement. `SchemaIsAPrefix` shows that it does
  no further harm.
* `setup_task` ignores what `live.start` says, so a rollout may begin with a service
  that never came up; a set-up that raises before its cleanup is registered leaves the
  world's directory (`SetupRaises` keeps it, and `NothingLeaks` speaks of scored
  rollouts only), as does a server killed before its first push of state; of every
  rollout the parent that `mkdtemp` made stays behind, as only `base/"world"` is removed.
* A port given out by `free_port` may be taken before the service binds it; `start` then
  reports "listening" of the stranger while its own process still runs, although
  `taskset.py:12-14` promises an isolated world on its own port.
* A resumed sweep reuses the run directory of an episode that may have outlived the
  killed run, and may record that episode's result (`Found` with an older `by`),
  although `sweep.py:240` says leftovers must never mix with a fresh run.
* `cron_write_lock.py:1` and `:36` speak of about 30 s; a run sleeps 6 ms for each
  of all orders (`archive_orders.py:44-48`), and the history generated after the injection
  adds its checkouts to them (`scenario.py:42-44`, `logs.py:715-722`): 33 to 89 s.
* `verify.py:147-149` says that "a fix applied seconds before verification is not
  penalised for a job that was already running". It is when that run holds the lock for
  longer than the 60 s of `lock_wait_s`, as those of about half of the default worlds
  can, and when it was started and had not locked yet, since a free lock is
  taken for the absence of a job: the two exceptions of `FixedIsNotBlamed`.
* The same docstring says that "an unfixed world re-enters the failing state within the
  window". When a run outlasts its minute by a moment, the next is skipped; a window
  that opens just then finds the lock free for almost a minute and can close between two
  probes: the exception of `UnfixedIsSeen`, for runs of about 57 to 66 s.
* `verify.py:10` says that doing nothing scores 0. In a `cron_write_lock`
  world whose window misses the job it is 0.3: the exception of `NothingForNothing`. And
  a repair made while a run was under way may get 0.7: the exception of
  `RepairIsRewarded`. In `composed:migration+cron` the migration's checkout
  probe is sent before the window waits for the lock, and can meet the same run.
* `reconcile_ledger.py:72` filters the target's payments by `--since`, and lines 87-90 do
  not filter the source's. An orphan's payment older than `--since`, under an id that
  went to a later order, is not seen in the target, and each run with `--apply` copies
  it again, although line 11 speaks of missing payments: the exception of
  `NoPaymentTwice`, which no payment of a confirmed order shares.
* `LiveWorld.stop` (`episode.py:92-97`) joins no thread, so a scrape, a request or a cron
  job may still be under way while the world is destroyed.
* `metrics.py:73` says that the first scrape after an outage writes no deltas;
  the code keeps the previous counters and writes them.

`UnfixedNeverPasses` says that an unfixed world is seen without exception where each
run ends before the next is due. `RepairIsRewarded` promises 70 for a repair not yet
restarted only where the code is as shipped: a migration forward that was not
restarted gets nothing, since its root-cause check probes the process.

## 5. What is proved

All for every value of the constants, under the named assumptions of each module:
budgets and bounds are numbers, the seeds of a sweep are finitely many, `Ledger` is
one of the files, the free marker of a lock is no request and no runner, periods are
positive, zero is among the times of a request, and the job's runs and periods are
such as `HoldsAssumption` and `PeriodsAssumption` say (below). 34 of the 40 properties of the
passing runs are theorems; the other six are liveness.

Safety:

* `EpisodeProofs`: the invariant says that inside the try block nothing is decided
  and the three counts agree (`LoopInv`), where the runtime is up
  (`RuntimeInv`), that the counts differ only after an error (`RecordInv`), when
  the verdict is given (`VerdictInv`) and what a whole result holds (`ResultInv`).
  `StepBudget` alone is not inductive: `AfterCall` compares at a call, so the
  budget must be unspent at each turn. From it: types, budget, coverage,
  replayable outcomes, clean exit, finality of the stop reason, and the
  refinement of `Incident`. Then `Conversation` on top: the calls without result
  are those the loop still has to answer (`ConvInv`), so none is left when a
  request goes out; every step of the composition is a step of the episode or
  leaves it alone, so that all that is proved of an episode carries over.
* `CheckoutProofs`: a handler between its insert and its commit holds the lock
  (`LockInv`), so ids are compared against a frozen set of orders (`IdInv`),
  and payment precedes order (`RowInv`). From it all four safety properties. Then
  `Reconcile` on top: a step of the service captures at most one payment, under an id
  above every confirmed one (`ServiceStep`), so what the script read of the target
  stays true of the orders it found missing and of all payments that `--since` does not
  hide (`TargetRead`), and what it read of the source is there still (`SourceRead`),
  although both are out of date when they are used. A row copied on top of another is
  then hidden by `--since`, hence older than the order that has its id (`AppliedOnce`).
  From it the three properties of the run, and that `ConfirmedHasPayment`
  survives the copying. Its exit code counts: if no two of the rows copied bear the
  same id, sending each row to its order is an injection of the rows into the missing
  orders, and equal counts make it onto (`RowsCover`); so exit code 0 is honest
  but for the reuse of an id (`ExitZeroIsHonest`).
* `ScriptsProofs`: an order is named by its id in the core database and among all
  orders old enough to be archived, though not among the others (`KeyInv`); what a run
  read under the lock stays true while it holds the lock (`ArchiveInv`), so the
  delete takes nothing that was not copied; and a file that was not pending is
  applied, of the first pending one all statements so far (`MigrateInv`), which stays
  true whoever else migrates, since statements only come to take effect. `NextId` and
  `NextFile` take the greatest and the least of a set; that those exist is taken
  from the well-foundedness of the numbers (`HasLeast`, `HasGreatest`). From it the
  three properties of the run.
* `MetricsProofs`: recorded, plus what the scrape under way adds, plus what the
  next would add, stays at or below the truth (`CountInv`), which telescopes
  over scrapes; equality needs scrapes of one process to be ordered (`OrderInv`).
* `SweepProofs`: a live episode of this run is the one its worker waits for
  (`AliveInv`), what is about to be saved is whole and final (`SaveInv`). As each
  worker waits for one episode, sending episodes to their seeds is an injection into
  the busy workers, of which there are at most `Concurrency` (`PoolInv`): so the
  option bounds the processes as well as the threads (`ConcurrencyIsBounded`).
* `OnCallProofs`: the manager's invariant says that `self.proc` is the only process
  that may live and where a call is when it has one (`SMInv`). The rollout's says
  when the runtime is up (`RuntimeInv`), that the task knows a part of what the server
  did (`StateInv`), that no verdict means budget is left (`BudgetInv`), where the task
  may be (`TaskInv`) and who still has to delete the directory (`DirInv`). The
  properties are not inductive without them: what `finalize` may do depends on what
  was pushed, not on what happened. From it the same refinement of `Incident` as
  for the native episode.
* `VerdictProofs`: of each template, that it has a root-cause check for all it breaks
  (`FaultsGuarded`) and watches `main.py` unless the schedule is its only concern
  (`CodeWatched`), and that the merge loses no such check; hence a host with
  a fault left fails the root cause (`BrokenIsSeen`), and 30 is the most a verdict
  can then give. `MoneyIsRecovered` needs what a success says of the process: as
  it runs with the repaired `.env` and no call follows, no customer diverts a
  payment afterwards (`Recovered`). In the other direction, each template's damage
  fails one of its own probes (`DamageShows`, `OtherFaults`), the job's alone
  excepted, so any other untouched host is worth nothing; and no template asks for more than its damage (`FaultsAsk`) or is
  vetoed by what its sibling's fix must change (`RepairIsRooted`, `RepairChanges`), so
  a repair is worth everything. That needs one more invariant: the crontab and the
  migrations directory are touched only in the incidents they belong to (`Orderly`).
* `CronProofs`: where the check is between its waits (`CheckInv`) bounds the time
  of its verdict, however long a run is; the minute arithmetic needs one lemma on
  division. A fixed world's last run was started before the check began (`FixedInv`), so
  one that held the lock all through the lock wait is as long as the wait. An
  unfixed world starts a run in every minute in which none is under way (`ClockInv`,
  `RunInv`), the window has room for the next one (`WindowInv`), and the probes are closer
  together than a run is long (`SeenInv`), so one of them meets the lock, unless a run
  lapped the minute. `PeriodsAssumption` names what this takes of the periods: the runner
  acts and its script starts within the minute and within a probe's interval, and the
  window is a minute and an interval; `HoldsAssumption` only that a run is longer than an
  interval and a probe's wait for the lock (the fewest orders take 10.8 s), with no
  upper bound. The code's values satisfy both (TLC evaluates them in the run `cron`).
  `UnfixedNeverPasses` removes the exception of `UnfixedIsSeen` for runs that end
  before the next is due (`RunsFit`: less than 58.5 s with the code's periods).

Progress. The prover knows neither ENABLED nor fairness, so that something must
happen stays with TLC. What can be proved is the other half of each liveness property:
that steps use something up which nothing gives back, for all sizes.

* `EveryStepAdvances` (`EpisodeProofs`, for `Terminates`): a step of an episode with its
  adapter spends a call of the budget, the one nudge, a piece of the way to the end, an
  option, a resend, or the moment before a request is sent, in this order of importance.
* `RequestsAdvance` and `LockIsNeverAbandoned` (`CheckoutProofs`, for `RequestsEnd` and
  `LockIsReleased`): a handler has at most five steps, and a request holds the lock only
  while a handler of a running process is between its insert and its commit.
* `WorkersAdvance` (`SweepProofs`, for `SweepEnds`): what is ahead of a worker (`Ahead`)
  is at most `7 * (Retries + 1) + 3` and falls with each of its steps; an episode that
  hangs costs it the step `Kill` and no more.
* `ManagerCallsAdvance` and `RolloutAdvances` (`OnCallProofs`, for `RolloutEnds`): a start
  has `StartLimit` attempts of `MaxProbes` polls whatever crashes, and each step of server
  and task spends a call of the budget, a turn of the backstop, a call of the turn, a
  piece of the way, or a step of the manager's call, in this order.

Only model-checked: `Terminates`, `RequestsEnd`, `LockIsReleased`, `SweepEnds`,
`RolloutEnds`, and the fairness in `IsAnEpisode` (`ConversationIsAnEpisode` proves its
safety part). The two properties that the code violates are of course not theorems.

The type invariants are theorems of all eight proof modules and are not repeated in the
runs, nor are the budget, the coverage of the verdict and the finality of the stop
reason, which `IsASession` has in one.

## 6. Not modelled, and next

Not modelled for good: generated text and rows (`logs.py`, most of `data.py`, naming,
herrings), prompts, the scripted agents, formatting, the remote APIs themselves,
argument parsing, the statistics of the report.

Left out of what is modelled: signals inside `Popen` between fork and the assignment of
its result; the 5 seconds `stop` waits after SIGKILL; a verifier that raises in the tool
server (the call then fails with the verdict still due); state pushes that are lost
although the server lives; a cron job that outlives `live.stop`, and what else a
thread does between being told to stop and its end; the runner's kill of a job after
110 s, which takes 18,000 orders, and the orders that come in while a job's few runs go
on (less than half a second of hold a minute).

What could come next:

1. `RateLimiter`: `main.py:299` reads the clock outside the lock, so a request that waits
   over the end of a minute is counted in a window that was just dropped.
2. `rescore` and `build_report` over directories of other sweeps: `sweep.py:380` parses
   every `seed-*.json` without the guard of `_load_existing`, and raises on a torn one.
3. The check-then-run of a cron script (`cron.py:127`), with an edit in between.
4. Proofs: liveness itself, should the prover learn ENABLED and fairness; the measures
   of section 5 are the ranking functions it takes.
