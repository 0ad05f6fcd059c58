------------------------------- MODULE Episode -------------------------------
(***************************************************************************)
(* One native episode, src/sregym/harness/episode.py: prepare the world,   *)
(* start the live runtime, run the agent loop, verify against the live     *)
(* world, stop everything, write the trajectory's end and result.json,     *)
(* destroy the world.  Ctrl-C, SIGTERM (sys.exit in cli.main) and SIGKILL  *)
(* may arrive at any step.  Text, prompts and payloads are abstracted to   *)
(* how many calls a turn makes and how many tokens it costs.               *)
(***************************************************************************)
EXTENDS Integers

CONSTANTS
    MaxSteps,          \* config.max_steps
    MaxCalls,          \* bound: tool calls in one assistant turn
    TokenBudget,       \* config.token_budget
    MaxTurnTokens,     \* bound: tokens one turn may cost
    KeepWorld          \* config.keep_world

ASSUME StepBudgetAssumption == MaxSteps \in Nat \ {0}
ASSUME BoundsAssumption ==
    /\ MaxCalls \in Nat /\ TokenBudget \in Nat /\ MaxTurnTokens \in Nat
    /\ KeepWorld \in BOOLEAN

VARIABLES
    pc,                \* where run_episode is
    serviceDead,       \* the incident took the service down before the page
    stepNo,            \* step_no: calls handed to the registry
    steps,             \* len(steps): calls recorded in memory
    traj,              \* step records written to trajectory.jsonl
    trajEnd,           \* stop reason of its end record, or "none"
    calls,             \* calls of the current turn still to execute
    nudged,            \* the agent has been reminded to call a tool
    tokens,            \* usage_total
    stopReason,        \* stop_reason
    infra,             \* infra_error is not None
    svc,               \* the service process: "none", "up"
    threads,           \* of the collector, cron and traffic: "none", "running", or "told"
                       \* to stop, after which each ends by itself or with the process
    judged,            \* calls the verdict looked at
    result,            \* result.json: NoResult, Torn or a record
    worldDir           \* "absent", "present", "destroyed"

vars == <<pc, serviceDead, stepNo, steps, traj, trajEnd, calls, nudged, tokens,
          stopReason, infra, svc, threads, judged, result, worldDir>>

loopVars    == <<stepNo, steps, traj, calls, nudged, tokens>>
runtimeVars == <<svc, threads>>
outputVars  == <<trajEnd, judged, result, worldDir>>

Unjudged == -1
NoResult == [stop |-> "none", infra |-> FALSE, steps |-> 0]
Torn     == [stop |-> "torn", infra |-> FALSE, steps |-> 0]

InTry  == {"start", "agent", "turn", "nudge", "call", "observe"}   \* the try block
Final  == {"done", "interrupted", "terminated", "killed", "crashed"}
StopReasons == {"unknown", "resolved", "max_steps", "agent_stopped",
                "token_budget", "infra_error", "agent_error"}
Results == [stop : StopReasons, infra : BOOLEAN, steps : Nat]

TypeOK ==
    /\ pc \in InTry \cup Final \cup
             {"prepare", "verify", "stop", "end", "result", "destroy"}
    /\ serviceDead \in BOOLEAN
    /\ stepNo \in Nat /\ steps \in Nat /\ traj \in Nat
    /\ trajEnd \in StopReasons \cup {"none", "interrupted"}
    /\ calls \in Nat /\ nudged \in BOOLEAN /\ tokens \in Nat
    /\ stopReason \in StopReasons
    /\ infra \in BOOLEAN
    /\ svc \in {"none", "up"} /\ threads \in {"none", "running", "told"}
    /\ judged \in Nat \cup {Unjudged}
    /\ result \in Results \cup {NoResult, Torn}
    /\ worldDir \in {"absent", "present", "destroyed"}

Init ==
    /\ pc = "prepare"
    /\ serviceDead = FALSE
    /\ stepNo = 0 /\ steps = 0 /\ traj = 0 /\ trajEnd = "none"
    /\ calls = 0 /\ nudged = FALSE /\ tokens = 0
    /\ stopReason = "unknown" /\ infra = FALSE
    /\ svc = "none" /\ threads = "none"
    /\ judged = Unjudged /\ result = NoResult
    /\ worldDir = "absent"
-----------------------------------------------------------------------------
(* Preparation and start of the live runtime.                              *)

\* prepare_world and write_meta; a failure here leaves run_episode at once,
\* with whatever part of the world had been generated.
Prepare ==
    /\ pc = "prepare"
    /\ pc' \in {"start", "crashed"}
    /\ serviceDead' \in BOOLEAN
    /\ worldDir' = "present"
    /\ UNCHANGED <<loopVars, runtimeVars, stopReason, infra,
                   trajEnd, judged, result>>

\* LiveWorld.start: the service first (unless the incident killed it), then
\* the three threads.  A start message without "listening" is an environment
\* problem, raised after the threads were started.
StartListening ==
    /\ pc = "start"
    /\ svc' = IF serviceDead THEN "none" ELSE "up"
    /\ threads' = "running"
    /\ pc' = "agent"
    /\ UNCHANGED <<serviceDead, loopVars, stopReason, infra, outputVars>>

StartFails ==
    /\ pc = "start" /\ ~serviceDead
    /\ svc' \in {"none", "up"}      \* crash-looped, or running without its port
    /\ threads' = "running"
    /\ stopReason' = "infra_error" /\ infra' = TRUE
    /\ pc' = "verify"
    /\ UNCHANGED <<serviceDead, loopVars, outputVars>>

\* agent.bind_world and agent.start
AgentStart ==
    /\ pc = "agent"
    /\ pc' = "turn"
    /\ UNCHANGED <<serviceDead, loopVars, runtimeVars, stopReason, infra, outputVars>>

\* Mutation: the except clause records the error and the loop goes on.
RaisedGoesOn(why) ==
    /\ infra' = why
    /\ pc' = "turn"
    /\ UNCHANGED stopReason

\* The except clause: any other exception of the try block ends the loop; it
\* is an infra error when it looks like one (API, network, OS).
Raised(why) ==
    /\ stopReason' = "agent_error"
    /\ infra' = why
    /\ pc' = "verify"

\* live.start, the adapter or the network raises between two tool calls.
HarnessRaises ==
    /\ pc \in {"start", "agent", "turn", "nudge", "observe"}
    /\ \E why \in BOOLEAN : Raised(why)
    /\ UNCHANGED <<serviceDead, loopVars, runtimeVars, outputVars>>
-----------------------------------------------------------------------------
(* The agent loop.                                                         *)

StopLoop(reason) ==
    /\ stopReason' = reason
    /\ pc' = "verify"

\* usage_total; totals past the budget are not told apart.
Spend(used) ==
    tokens' = IF tokens + used > TokenBudget THEN TokenBudget + 1 ELSE tokens + used

\* agent.next_turn returned no tool call: stop, or nudge once per episode.
GivesUpOnlyIfSaid(says) == says             \* mutation: nudge without end
GivesUp(says) == says \/ nudged

EmptyTurn ==
    /\ pc = "turn"
    /\ \E used \in 0 .. MaxTurnTokens, says \in BOOLEAN :
         /\ Spend(used)
         /\ \/ GivesUp(says) /\ StopLoop("agent_stopped") /\ UNCHANGED nudged
            \/ ~GivesUp(says) /\ nudged' = TRUE /\ pc' = "nudge" /\ UNCHANGED stopReason
    /\ UNCHANGED <<serviceDead, stepNo, steps, traj, calls, infra,
                   runtimeVars, outputVars>>

\* agent.nudge, and back to next_turn
Nudge ==
    /\ pc = "nudge"
    /\ pc' = "turn"
    /\ UNCHANGED <<serviceDead, loopVars, stopReason, infra, runtimeVars, outputVars>>

TurnCallsMaybeNone == 0 .. MaxCalls     \* mutation: empty turns are not told apart
TurnCalls == 1 .. MaxCalls

ToolTurn ==
    /\ pc = "turn"
    /\ \E used \in 0 .. MaxTurnTokens : Spend(used)
    /\ calls' \in TurnCalls
    /\ pc' = "call"
    /\ UNCHANGED <<serviceDead, stepNo, steps, traj, nudged, stopReason, infra,
                   runtimeVars, outputVars>>

OutOfStepsLate(n) == n > MaxSteps           \* mutation: off by one
OutOfSteps(n) == n >= MaxSteps

GoOnEarly == pc' = "observe"             \* mutation: the other calls are skipped
GoOn == pc' = IF calls = 1 THEN "observe" ELSE "call"

\* Where the loop goes after a recorded call: a terminal call wins over the
\* step budget, and both cut the rest of the turn's calls.
AfterCall(terminal) ==
    \/ /\ terminal
       /\ StopLoop("resolved")
    \/ /\ ~terminal /\ OutOfSteps(stepNo')
       /\ StopLoop("max_steps")
    \/ /\ ~terminal /\ ~OutOfSteps(stepNo')
       /\ GoOn
       /\ UNCHANGED stopReason

\* registry.call (which turns every tool failure into an error result),
\* state_hash, steps.append, write_step.  restart_service may leave the
\* service up or down; run_shell and edit_file may make it exit.
Call ==
    /\ pc = "call"
    /\ stepNo' = stepNo + 1
    /\ steps' = steps + 1
    /\ traj' = traj + 1
    /\ calls' = calls - 1
    /\ svc' \in {"none", "up"}
    /\ \E terminal \in BOOLEAN : AfterCall(terminal)
    /\ UNCHANGED <<serviceDead, nudged, tokens, infra, threads, outputVars>>

\* The tool ran but state_hash raised (a file vanished under it, a database
\* was locked): the call is in no record.
CallUnrecorded ==
    /\ pc = "call"
    /\ stepNo' = stepNo + 1
    /\ svc' \in {"none", "up"}
    /\ \E why \in BOOLEAN : Raised(why)
    /\ UNCHANGED <<serviceDead, steps, traj, calls, nudged, tokens, threads, outputVars>>

\* The call is recorded in memory but the trajectory line could not be
\* written (OSError, hence an infra error).
UnwrittenIsAgentError == FALSE       \* mutation: OSError is not an infra error
UnwrittenIsInfra == TRUE
CallUnwritten ==
    /\ pc = "call"
    /\ stepNo' = stepNo + 1
    /\ steps' = steps + 1
    /\ svc' \in {"none", "up"}
    /\ Raised(UnwrittenIsInfra)
    /\ UNCHANGED <<serviceDead, traj, calls, nudged, tokens, threads, outputVars>>

\* agent.observe, then the token budget.
Observe ==
    /\ pc = "observe"
    /\ \/ tokens > TokenBudget /\ StopLoop("token_budget")
       \/ tokens <= TokenBudget /\ pc' = "turn" /\ UNCHANGED stopReason
    /\ UNCHANGED <<serviceDead, loopVars, infra, runtimeVars, outputVars>>
-----------------------------------------------------------------------------
(* Verdict, shutdown, records.                                             *)

\* verify(world, spec, manifest, steps); a crash of the verifier gives an
\* all-false verdict, so a verdict is given either way.
Verify ==
    /\ pc = "verify"
    /\ judged' = steps
    /\ pc' = "stop"
    /\ UNCHANGED <<serviceDead, loopVars, stopReason, infra, runtimeVars,
                   trajEnd, result, worldDir>>

\* LiveWorld.stop waits for the service only: the threads have their stop
\* events set and are not joined.
LiveStopped ==
    /\ svc' = "none"
    /\ threads' = IF threads = "running" THEN "told" ELSE threads

\* Mutation: the world is destroyed together with its runtime.
StopLiveAndDestroy ==
    /\ pc = "stop"
    /\ LiveStopped
    /\ worldDir' = "destroyed"
    /\ pc' = "end"
    /\ UNCHANGED <<serviceDead, loopVars, stopReason, infra, trajEnd, judged, result>>

\* the finally clause: live.stop
StopLive ==
    /\ pc = "stop"
    /\ LiveStopped
    /\ pc' = "end"
    /\ UNCHANGED <<serviceDead, loopVars, stopReason, infra, outputVars>>

\* writer.write_end, or its OSError, which leaves run_episode.
WriteEnd ==
    /\ pc = "end"
    /\ \/ trajEnd' = stopReason /\ pc' = "result"
       \/ pc' = "crashed" /\ UNCHANGED trajEnd
    /\ UNCHANGED <<serviceDead, loopVars, stopReason, infra, runtimeVars,
                   judged, result, worldDir>>

\* A write_json cut short, by a signal or by a full disk, leaves a truncated
\* result.json.
CutShort == result' \in IF pc = "result" THEN {result, Torn} ELSE {result}

\* util.write_json(result.json), or its OSError, which leaves run_episode.
WriteResult ==
    /\ pc = "result"
    /\ \/ /\ result' = [stop |-> stopReason, infra |-> infra, steps |-> steps]
          /\ pc' = "destroy"
       \/ CutShort /\ pc' = "crashed"
    /\ UNCHANGED <<serviceDead, loopVars, stopReason, infra, runtimeVars,
                   trajEnd, judged, worldDir>>

DestroyWorld ==
    /\ pc = "destroy"
    /\ worldDir' = IF KeepWorld THEN worldDir ELSE "destroyed"
    /\ pc' = "done"
    /\ UNCHANGED <<serviceDead, loopVars, stopReason, infra, runtimeVars,
                   trajEnd, judged, result>>
-----------------------------------------------------------------------------
(* Signals.                                                                *)

\* Mutation: the handler does not re-raise, so the episode goes on to verify.
InterruptFallsThrough ==
    /\ pc \in InTry
    /\ trajEnd' = "interrupted"
    /\ LiveStopped
    /\ pc' = "verify"
    /\ UNCHANGED <<serviceDead, loopVars, stopReason, infra, judged, result, worldDir>>

\* Ctrl-C: inside the try block the runtime is stopped and an "interrupted"
\* end is written; during the verification the finally clause stops it;
\* elsewhere the exception just leaves (atexit finds nothing running).
Interrupt ==
    /\ pc \notin Final
    /\ trajEnd' = IF pc \in InTry THEN "interrupted" ELSE trajEnd
    /\ LiveStopped
    /\ CutShort
    /\ pc' = "interrupted"
    /\ UNCHANGED <<serviceDead, loopVars, stopReason, infra, judged, worldDir>>

\* SIGTERM: sys.exit(143) is no Exception, so nothing is recorded; the
\* atexit hook of services.py stops the service, daemon threads die.
AtExitForgotten == threads' = "none" /\ UNCHANGED svc    \* mutation: no atexit hook
AtExitStops == threads' = "none" /\ svc' = "none"

Terminate ==
    /\ pc \notin Final
    /\ AtExitStops
    /\ CutShort
    /\ pc' = "terminated"
    /\ UNCHANGED <<serviceDead, loopVars, stopReason, infra, trajEnd, judged, worldDir>>

\* SIGKILL: the service runs in a session of its own and survives.
Kill ==
    /\ pc \notin Final
    /\ threads' = "none"
    /\ CutShort
    /\ pc' = "killed"
    /\ UNCHANGED <<serviceDead, loopVars, stopReason, infra, svc, trajEnd,
                   judged, worldDir>>
-----------------------------------------------------------------------------
Run ==
    \/ Prepare \/ StartListening \/ StartFails \/ AgentStart \/ HarnessRaises
    \/ EmptyTurn \/ Nudge \/ ToolTurn \/ Call \/ CallUnrecorded \/ CallUnwritten \/ Observe
    \/ Verify \/ StopLive \/ WriteEnd \/ WriteResult \/ DestroyWorld

Signal == Interrupt \/ Terminate \/ Kill

Next == Run \/ Signal

\* The process keeps running: every adapter call, tool and check of the loop
\* has a timeout of its own.  Signals are never owed.
Spec == Init /\ [][Next]_vars /\ WF_vars(Run)
-----------------------------------------------------------------------------
(* Properties.                                                             *)

\* The agent never gets more calls than it was promised, however its calls
\* are spread over turns (prompts.py tells the model the budget).
StepBudget == stepNo <= MaxSteps

\* The verdict, which judges forbidden actions from the recorded steps, has
\* seen every call that reached the world; the one exception is a call whose
\* bookkeeping broke, and then the episode did not end as a normal one.
VerdictCoversCalls ==
    judged # Unjudged =>
        \/ judged = stepNo
        \/ judged = stepNo - 1 /\ stopReason = "agent_error"

\* A result that counts as a model outcome (no infra error) has a trajectory
\* with every judged step and an end record that agrees with it: "sregym
\* rescore" re-judges the saved trajectory in place of the live steps.
Whole(r) == r.stop \notin {"none", "torn"}
OutcomeHasTrajectory ==
    Whole(result) /\ ~result.infra =>
        /\ traj = result.steps /\ judged = result.steps
        /\ trajEnd = result.stop

\* However the episode ends short of SIGKILL, no service process outlives it
\* (the atexit hook of services.py), nor any background thread that was not
\* told to stop.
NothingOutlives ==
    pc \in Final \ {"killed"} => svc = "none" /\ threads # "running"

\* The world is deleted only once its verdict is on disk, and never when it
\* is to be kept; an episode cut short keeps its world for inspection.
WorldOutlivesVerdict ==
    worldDir = "destroyed" => Whole(result) /\ ~KeepWorld

\* An episode is blamed on the environment at start-up only if the agent
\* never acted, and once a stop reason is given it is never revised.
StopReasonFinal ==
    [][stopReason # "unknown" =>
         stopReason' = stopReason /\ infra' = infra /\ stepNo' = stepNo]_vars

\* The loop ends whatever the agent does: turns without calls, turns that
\* never resolve, calls that fail (the nudge is given once, each other turn
\* costs a step).
Terminates == <>(pc \in Final)

\* The episode is a session as Incident describes it.  A session is live
\* while its runtime is, which a start that raised never brought up.
sessionFailed == stopReason \in {"infra_error", "agent_error"}

sessionLive ==
    \/ pc \in {"prepare", "start"}
    \/ threads = "running"
    \/ sessionFailed /\ pc \in {"verify", "stop"}

sessionWorld ==
    IF worldDir = "destroyed" THEN "destroyed"
    ELSE IF sessionLive THEN "live" ELSE "closed"

Session == INSTANCE Incident WITH
    Offline <- FALSE, acts <- stepNo, failed <- sessionFailed, world <- sessionWorld

IsASession == Session!Spec
=============================================================================
