------------------------------- MODULE OnCall -------------------------------
(***************************************************************************)
(* One rollout of the verifiers environment: the tool server that owns the *)
(* live world (environments/.../servers/oncall.py) and the task that       *)
(* scores it (taskset.py), two processes.  The server verifies on          *)
(* resolve_incident or when the step budget is spent; the task learns of   *)
(* it from the rollout state pushed after each call, ends the rollout,     *)
(* and judges offline what the server never judged.  Every use of the      *)
(* service goes through ServiceManager; the server may be SIGKILLed.       *)
(***************************************************************************)
EXTENDS ServiceManager

CONSTANTS
    MaxSteps,          \* max_steps of the task
    MaxCalls,          \* bound: tool calls in one assistant turn
    Slack,             \* the 10 turns turn_backstop allows beyond 2 * budget
    KeepWorld          \* tools.keep_world

ASSUME RolloutAssumption ==
    /\ MaxSteps \in Nat \ {0} /\ MaxCalls \in Nat /\ Slack \in Nat
    /\ KeepWorld \in BOOLEAN

VARIABLES
    stage,             \* where the tool server is
    threads,           \* of the collector, cron and traffic: "none", "running", or "told"
                       \* to stop, after which each ends by itself or with the process
    worldDir,          \* world.base: "absent", "present", "destroyed"
    acts,              \* calls the registry has executed
    steps,             \* len(_steps)
    verdict,           \* _verdict: steps it judged, or Unjudged
    seen,              \* the rollout state as the task last got it
    task,              \* "running", "ended", "scored", "errored"
    turns,             \* trace.num_turns
    calls,             \* calls of the current turn still to be made
    offline            \* the verdict of finalize, or Unjudged

serverVars == <<stage, threads, worldDir, acts, steps, verdict>>
taskVars   == <<seen, task, turns, calls, offline>>
vars == <<smVars, serverVars, taskVars>>

Unjudged == -1
Unseen == [steps |-> 0, verdict |-> Unjudged, base |-> FALSE]
Gone == {"gone", "killed"}
Backstop == 2 * MaxSteps + Slack

TypeOK ==
    /\ SMTypeOK
    /\ stage \in {"setup", "live", "failing", "serving", "call", "verify", "reply",
                  "closing", "cleanup"} \cup Gone
    /\ threads \in {"none", "running", "told"}
    /\ worldDir \in {"absent", "present", "destroyed"}
    /\ acts \in Nat /\ steps \in Nat /\ verdict \in Nat \cup {Unjudged}
    /\ seen \in [steps : Nat, verdict : Nat \cup {Unjudged}, base : BOOLEAN]
    /\ task \in {"running", "ended", "scored", "errored"}
    /\ turns \in Nat /\ calls \in Nat
    /\ offline \in Nat \cup {Unjudged}

Init ==
    /\ SMInit
    /\ stage = "setup" /\ threads = "none" /\ worldDir = "absent"
    /\ acts = 0 /\ steps = 0 /\ verdict = Unjudged
    /\ seen = Unseen /\ task = "running" /\ turns = 0 /\ calls = 0
    /\ offline = Unjudged
-----------------------------------------------------------------------------
(* setup_task.                                                             *)

\* prepare_world, then LiveWorld.start, which starts the service unless the
\* incident has killed it; the generation may fail half way.
Prepare ==
    /\ stage = "setup"
    /\ worldDir' = "present"
    /\ \/ stage' = "live" /\ (BeginStart \/ UNCHANGED smVars)
       \/ stage' = "failing" /\ UNCHANGED smVars
    /\ UNCHANGED <<threads, acts, steps, verdict, taskVars>>

\* The message of live.start is not looked at; the cleanup hooks are
\* registered last.
Ready ==
    /\ stage = "live" /\ op = "idle" /\ reply # "raised"
    /\ stage' = "serving" /\ threads' = "running"
    /\ UNCHANGED <<smVars, worldDir, acts, steps, verdict, taskVars>>

\* An exception leaves setup_task: only the service manager's own exit hook
\* is registered, and the rollout is an error.
SetupRaises ==
    /\ \/ stage = "live" /\ op = "idle" /\ reply = "raised"
       \/ stage = "failing"
    /\ stage' = "cleanup" /\ task' = "errored"
    /\ BeginStop(FALSE)
    /\ UNCHANGED <<threads, worldDir, acts, steps, verdict, seen, turns, calls, offline>>
-----------------------------------------------------------------------------
(* _call; the server executes one call at a time.                          *)

\* Mutation: a verdict does not end the session.
TakesWhileServing == stage = "serving" /\ calls > 0
Takes == stage = "serving" /\ calls > 0 /\ verdict = Unjudged

\* restart_service starts, stops or restarts in the manager's steps; its
\* action=status and the other tools leave the manager alone.
ToolRuns == BeginStart \/ (\E thenStart \in BOOLEAN : BeginStop(thenStart)) \/ UNCHANGED smVars

\* A tool of the server, all of which end in _call; no failure of a tool
\* leaves registry.call.
Call ==
    /\ Takes
    /\ stage' = "call"
    /\ acts' = acts + 1
    /\ ToolRuns
    /\ UNCHANGED <<threads, worldDir, steps, verdict, taskVars>>

\* The step is appended and the verdict is due: the terminal tool or the
\* budget.
Record ==
    /\ stage = "call" /\ op = "idle"
    /\ steps' = steps + 1
    /\ \E terminal \in BOOLEAN :
         stage' = IF terminal \/ steps' >= MaxSteps THEN "verify" ELSE "reply"
    /\ UNCHANGED <<smVars, threads, worldDir, acts, verdict, taskVars>>

\* _finish(_verify_now())
Verify ==
    /\ stage = "verify"
    /\ verdict' = steps
    /\ stage' = "reply"
    /\ UNCHANGED <<smVars, threads, worldDir, acts, steps, taskVars>>

\* The call returns, and the rollout state reaches the task with it.
Reply ==
    /\ stage = "reply"
    /\ seen' = [steps |-> steps, verdict |-> verdict, base |-> TRUE]
    /\ calls' = calls - 1
    /\ stage' = "serving"
    /\ UNCHANGED <<smVars, threads, worldDir, acts, steps, verdict, task, turns, offline>>

\* "the incident session has ended", or nobody answers any more.
Refused ==
    /\ task = "running" /\ calls > 0
    /\ (stage = "serving" /\ verdict # Unjudged) \/ stage \in Gone
    /\ calls' = calls - 1
    /\ UNCHANGED <<smVars, serverVars, seen, task, turns, offline>>
-----------------------------------------------------------------------------
(* The rollout, and the stop conditions between its turns.                 *)

BetweenTurns == task = "running" /\ calls = 0 /\ stage \in {"serving"} \cup Gone

BackstopMissing == FALSE                   \* mutation: no turn_backstop
BackstopReached == turns >= Backstop

\* A chatty turn makes no call.
Turn ==
    /\ BetweenTurns /\ seen.verdict = Unjudged /\ ~BackstopReached
    /\ turns' = IF turns < Backstop THEN turns + 1 ELSE turns
    /\ calls' \in 0 .. MaxCalls
    /\ UNCHANGED <<smVars, serverVars, seen, task, offline>>

\* incident_closed, turn_backstop, or the model has quit.
EndOfTurns ==
    /\ BetweenTurns
    /\ task' = "ended"
    /\ UNCHANGED <<smVars, serverVars, seen, turns, calls, offline>>
Stop == (seen.verdict # Unjudged \/ BackstopReached) /\ EndOfTurns
Quit == EndOfTurns
-----------------------------------------------------------------------------
(* The end of the server: _cleanup, once, from the exit stack or atexit.   *)

\* live.stop: the threads are told to stop, and not waited for, then the service.
Close ==
    /\ stage = "serving" /\ task = "ended"
    /\ stage' = "closing" /\ threads' = "told"
    /\ BeginStop(FALSE)
    /\ UNCHANGED <<worldDir, acts, steps, verdict, taskVars>>

DestroysOnVerdict == ~KeepWorld /\ verdict # Unjudged      \* mutation: untouched worlds stay
Destroys == ~KeepWorld /\ (verdict # Unjudged \/ steps = 0)

\* An unjudged world the agent acted on is left for finalize.
Cleanup ==
    /\ stage = "closing" /\ op = "idle"
    /\ worldDir' = IF Destroys THEN "destroyed" ELSE worldDir
    /\ stage' = "gone"
    /\ UNCHANGED <<smVars, threads, acts, steps, verdict, taskVars>>

\* After a failed set-up only the service is stopped.
ExitHook ==
    /\ stage = "cleanup" /\ op = "idle"
    /\ stage' = "gone"
    /\ UNCHANGED <<smVars, threads, worldDir, acts, steps, verdict, taskVars>>

\* SIGKILL: the service survives; what the server was doing is lost.
Kill ==
    /\ stage \notin Gone
    /\ stage' = "killed" /\ threads' = "none"
    /\ Abandoned
    /\ task' = IF stage \in {"setup", "live", "failing", "cleanup"} THEN "errored" ELSE task
    /\ UNCHANGED <<worldDir, acts, steps, verdict, seen, turns, calls, offline>>
-----------------------------------------------------------------------------
\* finalize, once the server is gone: judge what was abandoned, from the
\* steps the task has seen, then delete the world the task knows of.
FinalizesNever == FALSE                     \* mutation: no offline fallback
Finalizes == seen.base /\ seen.verdict = Unjudged

Finalize ==
    /\ task = "ended" /\ stage \in Gone /\ offline = Unjudged /\ Finalizes
    /\ offline' = seen.steps
    /\ UNCHANGED <<smVars, serverVars, seen, task, turns, calls>>

Score ==
    /\ task = "ended" /\ stage \in Gone
    /\ Finalizes => offline # Unjudged
    /\ worldDir' = IF seen.base /\ ~KeepWorld THEN "destroyed" ELSE worldDir
    /\ task' = "scored"
    /\ UNCHANGED <<smVars, stage, threads, acts, steps, verdict, seen, turns, calls, offline>>
-----------------------------------------------------------------------------
ServerSteps ==
    \/ (stage \notin Gone /\ Proceed /\ UNCHANGED <<serverVars, taskVars>>)
    \/ Prepare \/ Ready \/ SetupRaises \/ Call \/ Record \/ Verify \/ Reply
    \/ Close \/ Cleanup \/ ExitHook

TaskSteps == Refused \/ Turn \/ Stop \/ Finalize \/ Score

Next ==
    \/ ServerSteps \/ TaskSteps \/ Quit \/ Kill
    \/ (Service \/ Stranger) /\ UNCHANGED <<serverVars, taskVars>>

\* Server and task are scheduled, every tool and probe has a timeout, and the
\* model answers every turn; nothing is owed by the service, by strangers or
\* by signals, and the model never has to quit.
Spec == Init /\ [][Next]_vars /\ WF_vars(ServerSteps) /\ WF_vars(TaskSteps)
-----------------------------------------------------------------------------
(* Properties.                                                             *)

\* The server was killed during a call, which the task knows nothing of.
callLost == stage = "killed" /\ acts # seen.steps

\* The verdict a rollout is rewarded by.
scored == IF seen.verdict # Unjudged THEN seen.verdict ELSE offline

\* A rollout is the same session as a native episode, Incident: one verdict
\* over every call (short of a killed server's last one), and a world that
\* outlives it; except that an abandoned world is judged offline.
sessionWorld ==
    IF worldDir = "destroyed" THEN "destroyed"
    ELSE IF stage \in {"closing", "cleanup"} \cup Gone THEN "closed" ELSE "live"

Session == INSTANCE Incident WITH
    Offline <- TRUE, judged <- scored, failed <- callLost, world <- sessionWorld

IsASession == Session!Spec

\* Once a rollout is scored, unless its server was killed, no service process
\* is left, nor a thread that was not told to stop, and the world directory is
\* left exactly when it was to be kept: destroyed by the server or by finalize,
\* whichever comes last (oncall.py: "the task's finalize runs the offline
\* fallback verification against it (then deletes it)").
NothingLeaks ==
    task = "scored" /\ stage = "gone" =>
        /\ \A p \in Procs : ~Alive(p)
        /\ threads # "running"
        /\ worldDir = IF KeepWorld THEN "present" ELSE "destroyed"

\* Every call the agent made on a server that was not killed counts: the
\* rollout is never scored without a verdict when the agent acted.
ActsAreJudged ==
    task = "scored" /\ stage = "gone" /\ acts > 0 => scored = acts

\* Every rollout comes to its score, whatever the agent, the service and the
\* signals do (a chatty model is cut off by the turn backstop).
RolloutEnds == <>(task \in {"scored", "errored"})
=============================================================================
