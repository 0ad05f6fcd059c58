--------------------------- MODULE ServiceManager ---------------------------
(***************************************************************************)
(* The process supervisor of a world, src/sregym/runtime/services.py, and  *)
(* the service process it supervises (serve.py of the template).  start,   *)
(* stop and restart are called one at a time, by the tool restart_service, *)
(* by LiveWorld and by the exit hooks; each takes several steps, between   *)
(* which the service boots, binds its port, crashes or is slow to leave,   *)
(* and a stranger may take the port: free_port releases it long before the *)
(* service binds it.                                                       *)
(***************************************************************************)
EXTENDS Integers

CONSTANTS
    Procs,             \* process slots; a dead one may be used again
    NoProc,            \* None
    StartLimit,        \* START_LIMIT
    MaxProbes          \* polls that fit into the start timeout

ASSUME ManagerAssumption ==
    /\ NoProc \notin Procs
    /\ StartLimit \in Nat \ {0} /\ MaxProbes \in Nat \ {0}

VARIABLES
    op,                \* "idle", "spawn", "poll", "probe" (start), "wait" (stop)
    restarting,        \* the stop in progress is the first half of restart
    attempt,           \* attempt of the start in progress
    probes,            \* polls left before its deadline
    reply,             \* what the last call returned; "none" during a call
    proc,              \* self.proc; the process may have died since
    phase,             \* of every process: "off", "booting", "booted", "up"
    pidFile,           \* the process run/<service>.pid names, or NoProc
    foreign            \* another program listens on the world's port

callerVars  == <<op, restarting, attempt, probes, reply>>
serviceVars == <<proc, phase, pidFile, foreign>>
smVars      == <<callerVars, serviceVars>>

SMTypeOK ==
    /\ op \in {"idle", "spawn", "poll", "probe", "wait"}
    /\ restarting \in BOOLEAN
    /\ attempt \in 1 .. StartLimit /\ probes \in 0 .. MaxProbes
    /\ reply \in {"none", "running", "listening", "deaf", "limit", "raised", "stopped"}
    /\ proc \in Procs \cup {NoProc}
    /\ phase \in [Procs -> {"off", "booting", "booted", "up"}]
    /\ pidFile \in Procs \cup {NoProc}
    /\ foreign \in BOOLEAN

SMInit ==
    /\ op = "idle" /\ restarting = FALSE
    /\ attempt = 1 /\ probes = MaxProbes /\ reply = "none"
    /\ proc = NoProc /\ phase = [p \in Procs |-> "off"]
    /\ pidFile = NoProc /\ foreign = FALSE

Alive(p) == p # NoProc /\ phase[p] # "off"
Running == Alive(proc)                       \* is_running: proc.poll() is None
Listening(p) == phase[p] = "up"
PortOpen == foreign \/ \E p \in Procs : Listening(p)

Return(r) == op' = "idle" /\ restarting' = FALSE /\ reply' = r
-----------------------------------------------------------------------------
(* start: at most StartLimit attempts, each polled until the process dies, *)
(* somebody accepts connections on the port, or the timeout is over.       *)

\* Mutation: start does not ask whether the service is running.
BeginStartAnyway ==
    /\ op = "idle"
    /\ op' = "spawn" /\ attempt' = 1 /\ probes' = MaxProbes /\ reply' = "none"
    /\ UNCHANGED <<restarting, serviceVars>>

BeginStart ==
    /\ op = "idle"
    /\ \/ Running /\ Return("running") /\ UNCHANGED <<attempt, probes>>
       \/ /\ ~Running
          /\ op' = "spawn" /\ attempt' = 1 /\ probes' = MaxProbes /\ reply' = "none"
          /\ UNCHANGED restarting
    /\ UNCHANGED serviceVars

\* Popen in a session of its own; the previous process, if any, is dead.
Spawn ==
    /\ op = "spawn"
    /\ \E p \in Procs \ {proc} :
         /\ ~Alive(p)
         /\ proc' = p
         /\ phase' = [phase EXCEPT ![p] = "booting"]
    /\ op' = "poll"
    /\ UNCHANGED <<restarting, attempt, probes, reply, pidFile, foreign>>

\* open(app_log) or Popen raises OSError (a full disk, a missing python).
SpawnRaises ==
    /\ op = "spawn"
    /\ Return("raised")
    /\ UNCHANGED <<attempt, probes, serviceVars>>

MoreAttempts == attempt < StartLimit

\* "exited immediately": start over, with a fresh timeout, or give up.
Poll ==
    /\ op = "poll"
    /\ \/ Running /\ op' = "probe" /\ UNCHANGED <<restarting, attempt, probes, reply>>
       \/ /\ ~Running /\ MoreAttempts
          /\ op' = "spawn" /\ attempt' = attempt + 1 /\ probes' = MaxProbes
          /\ UNCHANGED <<restarting, reply>>
       \/ ~Running /\ ~MoreAttempts /\ Return("limit") /\ UNCHANGED <<attempt, probes>>
    /\ UNCHANGED serviceVars

\* util.port_open accepts any listener; the deadline may pass at any poll.
Probe ==
    /\ op = "probe"
    /\ \/ PortOpen /\ Return("listening") /\ UNCHANGED probes
       \/ ~PortOpen /\ probes > 1 /\ probes' = probes - 1
          /\ op' = "poll" /\ UNCHANGED <<restarting, reply>>
       \/ ~PortOpen /\ Return("deaf") /\ UNCHANGED probes
    /\ UNCHANGED <<attempt, serviceVars>>
-----------------------------------------------------------------------------
(* stop, alone or as the first half of restart.                            *)

\* What follows a finished stop; restart calls start, which finds nothing
\* running, since stop has set self.proc to None.
StopReturns(thenStart) ==
    \/ thenStart /\ op' = "spawn" /\ attempt' = 1 /\ probes' = MaxProbes
       /\ restarting' = FALSE /\ reply' = "none"
    \/ ~thenStart /\ Return("stopped") /\ UNCHANGED <<attempt, probes>>

\* A process that was not started, or died by itself, is only forgotten (its
\* pid file stays); a live one gets SIGTERM and is waited for.
BeginStop(thenStart) ==
    /\ op = "idle"
    /\ \/ /\ ~Running
          /\ proc' = NoProc
          /\ StopReturns(thenStart)
       \/ /\ Running
          /\ op' = "wait" /\ restarting' = thenStart /\ reply' = "none"
          /\ UNCHANGED <<attempt, probes, proc>>
    /\ UNCHANGED <<phase, pidFile, foreign>>

\* Mutation: stop does not wait for the process to exit.
StopsUnwaited ==
    /\ op = "wait"
    /\ proc' = NoProc /\ pidFile' = NoProc
    /\ StopReturns(restarting)
    /\ UNCHANGED <<phase, foreign>>

\* The process is gone, or the timeout of the wait is over and SIGKILL to its
\* process group makes it go.
Stopped ==
    /\ op = "wait"
    /\ phase' = [phase EXCEPT ![proc] = "off"]
    /\ proc' = NoProc /\ pidFile' = NoProc
    /\ StopReturns(restarting)
    /\ UNCHANGED foreign
\* The program that runs the manager is killed: the call in progress is lost,
\* the service, in a session of its own, is not.
Abandoned ==
    /\ op' = "idle" /\ restarting' = FALSE /\ reply' = "none"
    /\ UNCHANGED <<attempt, probes, serviceVars>>
-----------------------------------------------------------------------------
(* The service process, serve.main: import the application, write the pid  *)
(* file, bind.  With another listener on the port uvicorn exits; with      *)
(* another APP_PORT in .env it binds elsewhere and stays "booted" here.    *)

WritesPid(p) ==
    /\ phase[p] = "booting"
    /\ phase' = [phase EXCEPT ![p] = "booted"]
    /\ pidFile' = p
    /\ UNCHANGED <<callerVars, proc, foreign>>

Binds(p) ==
    /\ phase[p] = "booted"
    /\ phase' = [phase EXCEPT ![p] = IF PortOpen THEN "off" ELSE "up"]
    /\ UNCHANGED <<callerVars, proc, pidFile, foreign>>

\* It crashes: at import, under a fault, or later.
Exits(p) ==
    /\ Alive(p)
    /\ phase' = [phase EXCEPT ![p] = "off"]
    /\ UNCHANGED <<callerVars, proc, pidFile, foreign>>

\* Another program takes the released port, or gives it back.
Stranger ==
    /\ foreign \/ ~PortOpen
    /\ foreign' = ~foreign
    /\ UNCHANGED <<callerVars, proc, phase, pidFile>>
-----------------------------------------------------------------------------
\* The steps of the call in progress.
Proceed == Spawn \/ SpawnRaises \/ Poll \/ Probe \/ Stopped

Service == \E p \in Procs : WritesPid(p) \/ Binds(p) \/ Exits(p)
-----------------------------------------------------------------------------
\* At most one service process of the world lives, it is the one the manager
\* will stop, and run/<service>.pid names it once it has booted: a crash loop,
\* a slow stop or a restart must not leave two, for both would write the same
\* databases and answer for each other.
OneService ==
    \A p \in Procs :
        /\ Alive(p) => p = proc
        /\ phase[p] \in {"booted", "up"} => pidFile = p

\* start says "listening" of its own process, unless a stranger has the port
\* (episode.py takes the word for a healthy world).
StartedIsOwn ==
    [][reply' = "listening" /\ op = "probe" => foreign \/ Listening(proc)]_smVars
=============================================================================
