---------------------------- MODULE OnCallProofs ----------------------------
(***************************************************************************)
(* The safety of the service manager and of a rollout, and that a rollout  *)
(* is the abstract session of Incident, for every number of process slots, *)
(* start limit, step budget and turn size; then what each step uses up, so *)
(* that no call of the manager and no rollout can go on for ever.          *)
(***************************************************************************)
EXTENDS OnCall, TLAPS

\* What a manager's call in progress knows of self.proc.
CallerInv ==
    /\ op \in {"poll", "probe", "wait"} => proc \in Procs
    /\ op = "spawn" => ~Running
    /\ op # "idle" => reply = "none"

SMInv == SMTypeOK /\ OneService /\ CallerInv

\* What may happen to the manager and its service in one step of a program.
SMStep ==
    \/ BeginStart \/ (\E thenStart \in BOOLEAN : BeginStop(thenStart))
    \/ Proceed \/ Abandoned \/ Service \/ Stranger \/ UNCHANGED smVars
-----------------------------------------------------------------------------
LEMMA SMInitInv == SMInit => SMInv
  <1> SUFFICES ASSUME SMInit PROVE SMInv
    OBVIOUS
  <1> USE ManagerAssumption DEF SMInit
  <1>1. SMTypeOK
    <2>1. restarting \in BOOLEAN /\ foreign \in BOOLEAN
      OBVIOUS
    <2> QED
      BY <2>1 DEF SMTypeOK
  <1>2. OneService /\ CallerInv
    BY DEF OneService, CallerInv, Alive
  <1> QED
    BY <1>1, <1>2 DEF SMInv

LEMMA SMFlags == SMInv /\ SMStep => restarting' \in BOOLEAN /\ foreign' \in BOOLEAN
  <1> SUFFICES ASSUME SMInv, SMStep PROVE restarting' \in BOOLEAN /\ foreign' \in BOOLEAN
    OBVIOUS
  <1> USE DEF SMInv, SMTypeOK, SMStep, Proceed, Return, callerVars, serviceVars, smVars,
          BeginStart, BeginStop, StopReturns, Spawn, SpawnRaises, Poll, Probe, Stopped,
          Abandoned, Service, WritesPid, Binds, Exits, Stranger
  <1>1. restarting' \in BOOLEAN
    BY Zenon
  <1>2. foreign' \in BOOLEAN
    BY Zenon
  <1> QED
    BY <1>1, <1>2

\* The rest of SMTypeOK, whose two flags have a lemma of their own.
SMRest ==
    /\ op \in {"idle", "spawn", "poll", "probe", "wait"}
    /\ attempt \in 1 .. StartLimit /\ probes \in 0 .. MaxProbes
    /\ reply \in {"none", "running", "listening", "deaf", "limit", "raised", "stopped"}
    /\ proc \in Procs \cup {NoProc}
    /\ phase \in [Procs -> {"off", "booting", "booted", "up"}]
    /\ pidFile \in Procs \cup {NoProc}

LEMMA SMTypes == SMInv /\ SMStep => SMTypeOK'
  <1> SUFFICES ASSUME SMInv, SMStep PROVE SMRest'
    BY SMFlags DEF SMTypeOK, SMRest
  <1>0. SMRest /\ CallerInv
    BY DEF SMInv, SMTypeOK, SMRest
  <1> USE <1>0, ManagerAssumption
      DEF SMRest, CallerInv, Return, callerVars, serviceVars, smVars, MoreAttempts
  <1>1. CASE BeginStart
    BY <1>1 DEF BeginStart
  <1>2. ASSUME NEW t \in BOOLEAN, BeginStop(t) PROVE SMRest'
    BY <1>2 DEF BeginStop, StopReturns
  <1>3. CASE Spawn
    BY <1>3 DEF Spawn
  <1>4. CASE SpawnRaises
    BY <1>4 DEF SpawnRaises
  <1>5. CASE Poll
    BY <1>5 DEF Poll
  <1>6. CASE Probe
    BY <1>6 DEF Probe
  <1>7. CASE Stopped
    BY <1>7 DEF Stopped, StopReturns
  <1>8. CASE Abandoned
    BY <1>8 DEF Abandoned
  <1>9. CASE Service
    BY <1>9 DEF Service, WritesPid, Binds, Exits
  <1>10. CASE Stranger
    BY <1>10 DEF Stranger
  <1>11. CASE UNCHANGED smVars
    BY <1>11
  <1> QED
    BY <1>1, <1>2, <1>3, <1>4, <1>5, <1>6, <1>7, <1>8, <1>9, <1>10, <1>11 DEF SMStep, Proceed

\* A process is started only when the previous one is dead, and forgotten only
\* when it has been waited for.
LEMMA SMSafe == SMInv /\ SMStep => (OneService /\ CallerInv)'
  <1> SUFFICES ASSUME SMInv, SMStep PROVE (OneService /\ CallerInv)'
    OBVIOUS
  <1> USE ManagerAssumption
      DEF SMInv, SMTypeOK, OneService, CallerInv, Running, Alive, Return,
          callerVars, serviceVars, smVars
  <1>1. CASE BeginStart
    BY <1>1 DEF BeginStart
  <1>2. ASSUME NEW t \in BOOLEAN, BeginStop(t) PROVE (OneService /\ CallerInv)'
    BY <1>2 DEF BeginStop, StopReturns
  <1>3. CASE Spawn
    BY <1>3 DEF Spawn
  <1>4. CASE SpawnRaises
    BY <1>4 DEF SpawnRaises
  <1>5. CASE Poll
    BY <1>5 DEF Poll
  <1>6. CASE Probe
    BY <1>6 DEF Probe
  <1>7. CASE Stopped
    BY <1>7 DEF Stopped, StopReturns
  <1>8. CASE Abandoned
    BY <1>8 DEF Abandoned
  <1>9. ASSUME NEW p \in Procs, WritesPid(p) \/ Binds(p) \/ Exits(p)
        PROVE  (OneService /\ CallerInv)'
    BY <1>9 DEF WritesPid, Binds, Exits
  <1>10. CASE Stranger
    BY <1>10 DEF Stranger
  <1>11. CASE UNCHANGED smVars
    BY <1>11
  <1> QED
    BY <1>1, <1>2, <1>3, <1>4, <1>5, <1>6, <1>7, <1>8, <1>9, <1>10, <1>11
    DEF SMStep, Proceed, Service

LEMMA SMPreserved == SMInv /\ SMStep => SMInv'
  BY SMTypes, SMSafe DEF SMInv
-----------------------------------------------------------------------------
(* The rollout.                                                            *)

\* When the manager is between two calls, and what it then leaves running.
RuntimeInv ==
    /\ stage \in {"setup", "failing", "serving", "verify", "reply"} \cup Gone => op = "idle"
    /\ stage \in {"setup", "failing", "gone"} => proc = NoProc
    /\ stage \in {"closing", "cleanup"} =>
          /\ op \in {"idle", "wait"} /\ ~restarting
          /\ op = "idle" => proc = NoProc
    /\ threads = "running" => stage \in {"serving", "call", "verify", "reply"}

\* How far the task's copy of the rollout state lags behind the server.
StateInv ==
    /\ seen.verdict \in {Unjudged, seen.steps}
    /\ seen.base <=> seen.steps > 0
    /\ stage \in {"setup", "live", "failing", "cleanup"} => acts = 0 /\ calls = 0
    /\ stage \in {"setup", "live", "failing", "cleanup", "serving", "closing", "gone"} =>
          acts = steps /\ seen.steps = steps /\ seen.verdict = verdict
    /\ stage = "call" =>
          acts = steps + 1 /\ seen.steps = steps /\ verdict = Unjudged
    /\ stage \in {"verify", "reply"} => acts = steps /\ seen.steps = steps - 1
    /\ stage = "verify" => verdict = Unjudged
    /\ stage = "reply" => verdict \in {Unjudged, steps}
    /\ stage \in {"call", "verify", "reply"} =>
          calls > 0 /\ seen.verdict = Unjudged
    /\ stage = "killed" =>
          \/ acts = seen.steps
          \/ acts = seen.steps + 1 /\ seen.verdict = Unjudged

BudgetInv ==
    /\ acts <= MaxSteps
    /\ stage \in {"serving", "reply"} /\ verdict = Unjudged => acts < MaxSteps
    /\ stage \in {"setup", "live", "failing"} => verdict = Unjudged

TaskInv ==
    /\ calls > 0 => task = "running"
    /\ stage \in {"setup", "live", "failing", "call", "verify", "reply"} => task = "running"
    /\ stage = "serving" => task \in {"running", "ended"}
    /\ stage = "cleanup" => task = "errored"
    /\ stage = "closing" => task = "ended"
    /\ stage = "gone" => task # "running"
    /\ offline # Unjudged =>
          stage \in Gone /\ task # "running" /\ Finalizes /\ offline = seen.steps
    /\ task = "scored" => stage \in Gone /\ (Finalizes => offline # Unjudged)

DirInv ==
    /\ stage = "setup" => worldDir = "absent"
    /\ stage \notin {"setup"} \cup Gone => worldDir = "present"
    /\ stage = "killed" /\ task # "scored" => worldDir # "destroyed"
    /\ stage = "gone" /\ task = "ended" =>
          worldDir = IF Destroys THEN "destroyed" ELSE "present"
    /\ stage = "gone" /\ task = "scored" =>
          worldDir = IF KeepWorld THEN "present" ELSE "destroyed"

RolloutInv == StateInv /\ BudgetInv /\ TaskInv /\ DirInv /\ RuntimeInv

IInv == TypeOK /\ OneService /\ CallerInv /\ RolloutInv

\* The part of TypeOK that RolloutInv does not imply.
RolloutTypes ==
    /\ stage \in {"setup", "live", "failing", "serving", "call", "verify", "reply",
                  "closing", "cleanup"} \cup Gone
    /\ worldDir \in {"absent", "present", "destroyed"}
    /\ acts \in Nat /\ steps \in Nat /\ verdict \in Nat \cup {Unjudged}
    /\ task \in {"running", "ended", "scored", "errored"}
    /\ turns \in Nat /\ calls \in Nat
    /\ offline \in Nat \cup {Unjudged}

SeenType == seen \in [steps : Nat, verdict : Nat \cup {Unjudged}, base : BOOLEAN]
-----------------------------------------------------------------------------
LEMMA InitInv == Init => IInv
  <1> SUFFICES ASSUME Init PROVE IInv
    OBVIOUS
  <1> USE RolloutAssumption DEF Init, Unjudged, Unseen, Gone
  <1>1. SMInv
    BY SMInitInv
  <1>2. SeenType
    BY DEF SeenType
  <1>3. TypeOK
    BY <1>1, <1>2 DEF SMInv, TypeOK, SeenType
  <1>4. RolloutInv
    BY DEF SMInit, RolloutInv, RuntimeInv, StateInv, BudgetInv, TaskInv, DirInv, Finalizes
  <1> QED
    BY <1>1, <1>3, <1>4 DEF IInv, SMInv

\* Whatever the rollout does to the manager is one of its steps.
LEMMA StepIsSMStep == [Next]_vars => SMStep
  BY DEF Next, ServerSteps, TaskSteps, SMStep, vars, smVars, callerVars, serviceVars,
     Prepare, Ready, SetupRaises, ToolRuns, Call, Record, Verify, Reply, Refused, Turn,
     Stop, Quit, EndOfTurns, Close, Cleanup, ExitHook, Kill, Finalize, Score, Proceed

LEMMA SMStays == IInv /\ [Next]_vars => SMInv'
  BY SMPreserved, StepIsSMStep DEF IInv, TypeOK, SMInv

\* The counters count upwards, except the calls a turn has left.
LEMMA TypesStay == IInv /\ [Next]_vars => RolloutTypes'
  <1> SUFFICES ASSUME IInv, [Next]_vars PROVE RolloutTypes'
    OBVIOUS
  <1> USE RolloutAssumption
      DEF IInv, RolloutInv, TypeOK, StateInv, RolloutTypes,
          Gone, Unjudged, serverVars, taskVars
  <1>1. CASE Prepare
    BY <1>1 DEF Prepare
  <1>2. CASE Ready
    BY <1>2 DEF Ready
  <1>3. CASE SetupRaises
    BY <1>3 DEF SetupRaises
  <1>4. CASE Call
    BY <1>4 DEF Call, Takes, ToolRuns
  <1>5. CASE Record
    BY <1>5 DEF Record
  <1>6. CASE Verify
    BY <1>6 DEF Verify
  <1>7. CASE Reply
    BY <1>7 DEF Reply
  <1>8. CASE Close
    BY <1>8 DEF Close
  <1>9. CASE Cleanup
    BY <1>9 DEF Cleanup, Destroys
  <1>10. CASE ExitHook
    BY <1>10 DEF ExitHook
  <1>11. CASE Refused
    BY <1>11 DEF Refused
  <1>12. CASE Turn
    BY <1>12 DEF Turn, BetweenTurns
  <1>13. CASE Stop
    BY <1>13 DEF Stop, EndOfTurns, BetweenTurns
  <1>14. CASE Quit
    BY <1>14 DEF Quit, EndOfTurns, BetweenTurns
  <1>15. CASE Finalize
    BY <1>15 DEF Finalize
  <1>16. CASE Score
    BY <1>16 DEF Score
  <1>17. CASE Kill
    BY <1>17 DEF Kill
  <1>18. CASE stage \notin Gone /\ Proceed /\ UNCHANGED <<serverVars, taskVars>>
    BY <1>18
  <1>19. CASE (Service \/ Stranger) /\ UNCHANGED <<serverVars, taskVars>>
    BY <1>19
  <1>20. CASE UNCHANGED vars
    BY <1>20 DEF vars
  <1> QED
    BY <1>1, <1>2, <1>3, <1>4, <1>5, <1>6, <1>7, <1>8, <1>9, <1>10,
       <1>11, <1>12, <1>13, <1>14, <1>15, <1>16, <1>17, <1>18, <1>19, <1>20
    DEF Next, ServerSteps, TaskSteps

LEMMA FlagsStay == IInv /\ [Next]_vars => (threads \in {"none", "running", "told"} /\ SeenType)'
  <1> SUFFICES ASSUME IInv, [Next]_vars PROVE (threads \in {"none", "running", "told"} /\ SeenType)'
    OBVIOUS
  <1> USE RolloutAssumption
      DEF IInv, RolloutInv, TypeOK, SeenType, StateInv,
          Gone, Unjudged, serverVars, taskVars
  <1>1. CASE Prepare
    BY <1>1 DEF Prepare
  <1>2. CASE Ready
    BY <1>2 DEF Ready
  <1>3. CASE SetupRaises
    BY <1>3 DEF SetupRaises
  <1>4. CASE Call
    BY <1>4 DEF Call, Takes, ToolRuns
  <1>5. CASE Record
    BY <1>5 DEF Record
  <1>6. CASE Verify
    BY <1>6 DEF Verify
  <1>7. CASE Reply
    BY <1>7 DEF Reply
  <1>8. CASE Close
    BY <1>8 DEF Close
  <1>9. CASE Cleanup
    BY <1>9 DEF Cleanup, Destroys
  <1>10. CASE ExitHook
    BY <1>10 DEF ExitHook
  <1>11. CASE Refused
    BY <1>11 DEF Refused
  <1>12. CASE Turn
    BY <1>12 DEF Turn, BetweenTurns
  <1>13. CASE Stop
    BY <1>13 DEF Stop, EndOfTurns, BetweenTurns
  <1>14. CASE Quit
    BY <1>14 DEF Quit, EndOfTurns, BetweenTurns
  <1>15. CASE Finalize
    BY <1>15 DEF Finalize
  <1>16. CASE Score
    BY <1>16 DEF Score
  <1>17. CASE Kill
    BY <1>17 DEF Kill
  <1>18. CASE stage \notin Gone /\ Proceed /\ UNCHANGED <<serverVars, taskVars>>
    BY <1>18
  <1>19. CASE (Service \/ Stranger) /\ UNCHANGED <<serverVars, taskVars>>
    BY <1>19
  <1>20. CASE UNCHANGED vars
    BY <1>20 DEF vars
  <1> QED
    BY <1>1, <1>2, <1>3, <1>4, <1>5, <1>6, <1>7, <1>8, <1>9, <1>10,
       <1>11, <1>12, <1>13, <1>14, <1>15, <1>16, <1>17, <1>18, <1>19, <1>20
    DEF Next, ServerSteps, TaskSteps

\* The task's copy lags behind by at most the call in progress.
LEMMA StateStays == IInv /\ [Next]_vars => StateInv'
  <1> SUFFICES ASSUME IInv, [Next]_vars PROVE StateInv'
    OBVIOUS
  <1> USE RolloutAssumption
      DEF IInv, RolloutInv, TypeOK, StateInv, BudgetInv, TaskInv, Unseen,
          Gone, Unjudged, serverVars, taskVars
  <1>1. CASE Prepare
    BY <1>1 DEF Prepare
  <1>2. CASE Ready
    BY <1>2 DEF Ready
  <1>3. CASE SetupRaises
    BY <1>3 DEF SetupRaises
  <1>4. CASE Call
    BY <1>4 DEF Call, Takes, ToolRuns
  <1>5. CASE Record
    BY <1>5 DEF Record
  <1>6. CASE Verify
    BY <1>6 DEF Verify
  <1>7. CASE Reply
    BY <1>7 DEF Reply
  <1>8. CASE Close
    BY <1>8 DEF Close
  <1>9. CASE Cleanup
    BY <1>9 DEF Cleanup, Destroys
  <1>10. CASE ExitHook
    BY <1>10 DEF ExitHook
  <1>11. CASE Refused
    BY <1>11 DEF Refused
  <1>12. CASE Turn
    BY <1>12 DEF Turn, BetweenTurns
  <1>13. CASE Stop
    BY <1>13 DEF Stop, EndOfTurns, BetweenTurns
  <1>14. CASE Quit
    BY <1>14 DEF Quit, EndOfTurns, BetweenTurns
  <1>15. CASE Finalize
    BY <1>15 DEF Finalize
  <1>16. CASE Score
    BY <1>16 DEF Score
  <1>17. CASE Kill
    BY <1>17 DEF Kill
  <1>18. CASE stage \notin Gone /\ Proceed /\ UNCHANGED <<serverVars, taskVars>>
    BY <1>18
  <1>19. CASE (Service \/ Stranger) /\ UNCHANGED <<serverVars, taskVars>>
    BY <1>19
  <1>20. CASE UNCHANGED vars
    BY <1>20 DEF vars
  <1> QED
    BY <1>1, <1>2, <1>3, <1>4, <1>5, <1>6, <1>7, <1>8, <1>9, <1>10,
       <1>11, <1>12, <1>13, <1>14, <1>15, <1>16, <1>17, <1>18, <1>19, <1>20
    DEF Next, ServerSteps, TaskSteps

\* A server that still takes calls has one left.
LEMMA BudgetStays == IInv /\ [Next]_vars => BudgetInv'
  <1> SUFFICES ASSUME IInv, [Next]_vars PROVE BudgetInv'
    OBVIOUS
  <1> USE RolloutAssumption
      DEF IInv, RolloutInv, TypeOK, StateInv, BudgetInv,
          Gone, Unjudged, serverVars, taskVars
  <1>1. CASE Prepare
    BY <1>1 DEF Prepare
  <1>2. CASE Ready
    BY <1>2 DEF Ready
  <1>3. CASE SetupRaises
    BY <1>3 DEF SetupRaises
  <1>4. CASE Call
    BY <1>4 DEF Call, Takes, ToolRuns
  <1>5. CASE Record
    BY <1>5 DEF Record
  <1>6. CASE Verify
    BY <1>6 DEF Verify
  <1>7. CASE Reply
    BY <1>7 DEF Reply
  <1>8. CASE Close
    BY <1>8 DEF Close
  <1>9. CASE Cleanup
    BY <1>9 DEF Cleanup, Destroys
  <1>10. CASE ExitHook
    BY <1>10 DEF ExitHook
  <1>11. CASE Refused
    BY <1>11 DEF Refused
  <1>12. CASE Turn
    BY <1>12 DEF Turn, BetweenTurns
  <1>13. CASE Stop
    BY <1>13 DEF Stop, EndOfTurns, BetweenTurns
  <1>14. CASE Quit
    BY <1>14 DEF Quit, EndOfTurns, BetweenTurns
  <1>15. CASE Finalize
    BY <1>15 DEF Finalize
  <1>16. CASE Score
    BY <1>16 DEF Score
  <1>17. CASE Kill
    BY <1>17 DEF Kill
  <1>18. CASE stage \notin Gone /\ Proceed /\ UNCHANGED <<serverVars, taskVars>>
    BY <1>18
  <1>19. CASE (Service \/ Stranger) /\ UNCHANGED <<serverVars, taskVars>>
    BY <1>19
  <1>20. CASE UNCHANGED vars
    BY <1>20 DEF vars
  <1> QED
    BY <1>1, <1>2, <1>3, <1>4, <1>5, <1>6, <1>7, <1>8, <1>9, <1>10,
       <1>11, <1>12, <1>13, <1>14, <1>15, <1>16, <1>17, <1>18, <1>19, <1>20
    DEF Next, ServerSteps, TaskSteps

\* The rollout ends before the server, and is scored after it.
LEMMA TaskStays == IInv /\ [Next]_vars => TaskInv'
  <1> SUFFICES ASSUME IInv, [Next]_vars PROVE TaskInv'
    OBVIOUS
  <1> USE RolloutAssumption
      DEF IInv, RolloutInv, TypeOK, StateInv, TaskInv, Finalizes,
          Gone, Unjudged, serverVars, taskVars
  <1>1. CASE Prepare
    BY <1>1 DEF Prepare
  <1>2. CASE Ready
    BY <1>2 DEF Ready
  <1>3. CASE SetupRaises
    BY <1>3 DEF SetupRaises
  <1>4. CASE Call
    BY <1>4 DEF Call, Takes, ToolRuns
  <1>5. CASE Record
    BY <1>5 DEF Record
  <1>6. CASE Verify
    BY <1>6 DEF Verify
  <1>7. CASE Reply
    BY <1>7 DEF Reply
  <1>8. CASE Close
    BY <1>8 DEF Close
  <1>9. CASE Cleanup
    BY <1>9 DEF Cleanup, Destroys
  <1>10. CASE ExitHook
    BY <1>10 DEF ExitHook
  <1>11. CASE Refused
    BY <1>11 DEF Refused
  <1>12. CASE Turn
    BY <1>12 DEF Turn, BetweenTurns
  <1>13. CASE Stop
    BY <1>13 DEF Stop, EndOfTurns, BetweenTurns
  <1>14. CASE Quit
    BY <1>14 DEF Quit, EndOfTurns, BetweenTurns
  <1>15. CASE Finalize
    BY <1>15 DEF Finalize
  <1>16. CASE Score
    BY <1>16 DEF Score
  <1>17. CASE Kill
    BY <1>17 DEF Kill
  <1>18. CASE stage \notin Gone /\ Proceed /\ UNCHANGED <<serverVars, taskVars>>
    BY <1>18
  <1>19. CASE (Service \/ Stranger) /\ UNCHANGED <<serverVars, taskVars>>
    BY <1>19
  <1>20. CASE UNCHANGED vars
    BY <1>20 DEF vars
  <1> QED
    BY <1>1, <1>2, <1>3, <1>4, <1>5, <1>6, <1>7, <1>8, <1>9, <1>10,
       <1>11, <1>12, <1>13, <1>14, <1>15, <1>16, <1>17, <1>18, <1>19, <1>20
    DEF Next, ServerSteps, TaskSteps

\* Whoever is last deletes the world.
LEMMA DirStays == IInv /\ [Next]_vars => DirInv'
  <1> SUFFICES ASSUME IInv, [Next]_vars PROVE DirInv'
    OBVIOUS
  <1> USE RolloutAssumption
      DEF IInv, RolloutInv, TypeOK, StateInv, TaskInv, DirInv, Finalizes, Destroys,
          Gone, Unjudged, serverVars, taskVars
  <1>1. CASE Prepare
    BY <1>1 DEF Prepare
  <1>2. CASE Ready
    BY <1>2 DEF Ready
  <1>3. CASE SetupRaises
    BY <1>3 DEF SetupRaises
  <1>4. CASE Call
    BY <1>4 DEF Call, Takes, ToolRuns
  <1>5. CASE Record
    BY <1>5 DEF Record
  <1>6. CASE Verify
    BY <1>6 DEF Verify
  <1>7. CASE Reply
    BY <1>7 DEF Reply
  <1>8. CASE Close
    BY <1>8 DEF Close
  <1>9. CASE Cleanup
    BY <1>9 DEF Cleanup, Destroys
  <1>10. CASE ExitHook
    BY <1>10 DEF ExitHook
  <1>11. CASE Refused
    BY <1>11 DEF Refused
  <1>12. CASE Turn
    BY <1>12 DEF Turn, BetweenTurns
  <1>13. CASE Stop
    BY <1>13 DEF Stop, EndOfTurns, BetweenTurns
  <1>14. CASE Quit
    BY <1>14 DEF Quit, EndOfTurns, BetweenTurns
  <1>15. CASE Finalize
    BY <1>15 DEF Finalize
  <1>16. CASE Score
    BY <1>16 DEF Score
  <1>17. CASE Kill
    BY <1>17 DEF Kill
  <1>18. CASE stage \notin Gone /\ Proceed /\ UNCHANGED <<serverVars, taskVars>>
    BY <1>18
  <1>19. CASE (Service \/ Stranger) /\ UNCHANGED <<serverVars, taskVars>>
    BY <1>19
  <1>20. CASE UNCHANGED vars
    BY <1>20 DEF vars
  <1> QED
    BY <1>1, <1>2, <1>3, <1>4, <1>5, <1>6, <1>7, <1>8, <1>9, <1>10,
       <1>11, <1>12, <1>13, <1>14, <1>15, <1>16, <1>17, <1>18, <1>19, <1>20
    DEF Next, ServerSteps, TaskSteps

\* A server that is gone has stopped what it started.
LEMMA RuntimeStays == IInv /\ [Next]_vars => RuntimeInv'
  <1> SUFFICES ASSUME IInv, [Next]_vars PROVE RuntimeInv'
    OBVIOUS
  <1> USE ManagerAssumption
      DEF IInv, RolloutInv, TypeOK, SMTypeOK, RuntimeInv, CallerInv, Running, Alive,
          callerVars, serviceVars, smVars, Gone, Unjudged, serverVars, taskVars
  <1>1. CASE Prepare
    BY <1>1 DEF Prepare, BeginStart, Return
  <1>2. CASE Ready
    BY <1>2 DEF Ready
  <1>3. CASE SetupRaises
    <2> USE <1>3 DEF SetupRaises, BeginStop, StopReturns, Return
    <2>1. threads # "running"
      OBVIOUS
    <2>2. ~restarting'
      OBVIOUS
    <2> QED
      BY <2>1, <2>2
  <1>4. CASE Call
    BY <1>4 DEF Call, Takes
  <1>5. CASE Record
    BY <1>5 DEF Record
  <1>6. CASE Verify
    BY <1>6 DEF Verify
  <1>7. CASE Reply
    BY <1>7 DEF Reply
  <1>8. CASE Close
    BY <1>8 DEF Close, BeginStop, StopReturns, Return
  <1>9. CASE Cleanup
    BY <1>9 DEF Cleanup, Destroys
  <1>10. CASE ExitHook
    BY <1>10 DEF ExitHook
  <1>11. CASE Refused
    BY <1>11 DEF Refused
  <1>12. CASE Turn
    BY <1>12 DEF Turn, BetweenTurns
  <1>13. CASE Stop
    BY <1>13 DEF Stop, EndOfTurns, BetweenTurns
  <1>14. CASE Quit
    BY <1>14 DEF Quit, EndOfTurns, BetweenTurns
  <1>15. CASE Finalize
    BY <1>15 DEF Finalize
  <1>16. CASE Score
    BY <1>16 DEF Score
  <1>17. CASE Kill
    BY <1>17 DEF Kill, Abandoned
  <1>18. CASE stage \notin Gone /\ Proceed /\ UNCHANGED <<serverVars, taskVars>>
    BY <1>18 DEF Proceed, Spawn, SpawnRaises, Poll, Probe, Stopped, StopReturns, Return
  <1>19. CASE (Service \/ Stranger) /\ UNCHANGED <<serverVars, taskVars>>
    BY <1>19 DEF Service, WritesPid, Binds, Exits, Stranger
  <1>20. CASE UNCHANGED vars
    BY <1>20 DEF vars
  <1> QED
    BY <1>1, <1>2, <1>3, <1>4, <1>5, <1>6, <1>7, <1>8, <1>9, <1>10,
       <1>11, <1>12, <1>13, <1>14, <1>15, <1>16, <1>17, <1>18, <1>19, <1>20
    DEF Next, ServerSteps, TaskSteps

LEMMA StepInv == IInv /\ [Next]_vars => IInv'
  BY SMStays, TypesStay, FlagsStay, StateStays, BudgetStays, TaskStays, DirStays, RuntimeStays
  DEF IInv, TypeOK, SMInv, RolloutInv, RolloutTypes, SeenType

LEMMA Invariance == Spec => []IInv
  BY InitInv, StepInv, PTL DEF Spec
-----------------------------------------------------------------------------
\* Every variable of the manager and of the rollout keeps its type; the crash
\* loop never goes past the start limit.
THEOREM TypeCorrect == Spec => []TypeOK
  <1>1. IInv => TypeOK
    BY DEF IInv
  <1> QED
    BY <1>1, Invariance, PTL

\* However start, stop and restart are mixed with crashes, crash loops and
\* slow exits of the service, and whenever their program is killed, at most
\* one service process lives and it is self.proc.
THEOREM OneServiceAlways == Spec => []OneService
  <1>1. IInv => OneService
    BY DEF IInv
  <1> QED
    BY <1>1, Invariance, PTL

\* A scored rollout leaves nothing behind.
THEOREM NothingIsLeaked == Spec => []NothingLeaks
  <1>1. IInv => NothingLeaks
    BY DEF IInv, TypeOK, SMTypeOK, RolloutInv, RuntimeInv, DirInv, OneService, NothingLeaks, Alive
  <1> QED
    BY <1>1, Invariance, PTL

\* The calls of an agent whose server was not killed are all judged.
THEOREM EveryActIsJudged == Spec => []ActsAreJudged
  <1>1. IInv => ActsAreJudged
    BY DEF IInv, TypeOK, RolloutInv, StateInv, TaskInv, ActsAreJudged, Finalizes, scored, Gone
  <1> QED
    BY <1>1, Invariance, PTL

\* "listening" is said of the process the manager owns, or of a stranger's.
THEOREM StartedIsOwnAlways == Spec => StartedIsOwn
  <1>1. IInv /\ [Next]_vars =>
          [reply' = "listening" /\ op = "probe" => foreign \/ Listening(proc)]_smVars
    <2> SUFFICES ASSUME IInv, SMStep, reply' = "listening", op = "probe"
                 PROVE  foreign \/ Listening(proc) \/ UNCHANGED smVars
      BY StepIsSMStep
    <2>1. CASE Probe
      BY <2>1, ManagerAssumption
      DEF Probe, PortOpen, Listening, Return, IInv, CallerInv, OneService, Alive
    <2>2. reply = "none"
      BY DEF IInv, CallerInv
    <2>3. CASE ~Probe
      BY <2>2, <2>3 DEF SMStep, Proceed, BeginStart, BeginStop, Spawn, SpawnRaises, Poll, Stopped,
         Abandoned, Service, WritesPid, Binds, Exits, Stranger, callerVars, smVars
    <2> QED
      BY <2>1, <2>3
  <1> QED
    BY <1>1, Invariance, PTL DEF Spec, StartedIsOwn
-----------------------------------------------------------------------------
\* The refinement mapping sends the initial states to Incident's.
LEMMA SessionInit == Init => Session!Init
  BY DEF Init, Session!Init, callLost, scored, sessionWorld, Unseen, Unjudged,
         Session!Unjudged, Gone

\* Every step of a rollout is a step of the session or leaves it alone.
LEMMA SessionStep == IInv /\ IInv' /\ [Next]_vars => [Session!Next]_(Session!vars)
  <1> SUFFICES ASSUME IInv, IInv', [Next]_vars
               PROVE  Session!Next \/ UNCHANGED Session!vars
    BY DEF Session!vars
  <1> USE RolloutAssumption
      DEF IInv, TypeOK, RolloutInv, StateInv, BudgetInv, TaskInv, DirInv,
          Finalizes, Destroys, Gone, Unjudged, serverVars, taskVars,
          callLost, scored, sessionWorld, Session!Unjudged, Session!vars,
          Session!Next, Session!Act, Session!Break, Session!Judge, Session!Close,
          Session!Destroy
  <1>1. CASE Prepare
    BY <1>1 DEF Prepare
  <1>2. CASE Ready
    BY <1>2 DEF Ready
  <1>3. CASE SetupRaises
    BY <1>3 DEF SetupRaises
  <1>4. CASE Call
    BY <1>4 DEF Call, Takes
  <1>5. CASE Record
    BY <1>5 DEF Record
  <1>6. CASE Verify
    BY <1>6 DEF Verify
  <1>7. CASE Reply
    BY <1>7 DEF Reply
  <1>8. CASE Close
    BY <1>8 DEF Close
  <1>9. CASE Cleanup
    BY <1>9 DEF Cleanup, Destroys
  <1>10. CASE ExitHook
    BY <1>10 DEF ExitHook
  <1>11. CASE Refused
    BY <1>11 DEF Refused
  <1>12. CASE Turn
    BY <1>12 DEF Turn, BetweenTurns
  <1>13. CASE Stop
    BY <1>13 DEF Stop, EndOfTurns, BetweenTurns
  <1>14. CASE Quit
    BY <1>14 DEF Quit, EndOfTurns, BetweenTurns
  <1>15. CASE Finalize
    <2> USE <1>15 DEF Finalize
    <2>1. seen.steps \in Nat /\ scored = Unjudged /\ scored' = seen.steps
      OBVIOUS
    <2>2. IF callLost THEN seen.steps = acts - 1 ELSE seen.steps = acts
      OBVIOUS
    <2>3. sessionWorld = "closed"
      OBVIOUS
    <2>4. UNCHANGED <<acts, callLost, sessionWorld>>
      OBVIOUS
    <2> HIDE DEF callLost, scored, sessionWorld, IInv
    <2>5. Session!Judge
      BY <2>1, <2>2, <2>3, <2>4
    <2> QED
      BY <2>5
  <1>16. CASE Score
    BY <1>16 DEF Score
  <1>17. CASE Kill
    BY <1>17 DEF Kill
  <1>18. CASE stage \notin Gone /\ Proceed /\ UNCHANGED <<serverVars, taskVars>>
    BY <1>18
  <1>19. CASE (Service \/ Stranger) /\ UNCHANGED <<serverVars, taskVars>>
    BY <1>19
  <1>20. CASE UNCHANGED vars
    BY <1>20 DEF vars
  <1> QED
    BY <1>1, <1>2, <1>3, <1>4, <1>5, <1>6, <1>7, <1>8, <1>9, <1>10,
       <1>11, <1>12, <1>13, <1>14, <1>15, <1>16, <1>17, <1>18, <1>19, <1>20
    DEF Next, ServerSteps, TaskSteps

\* A rollout of the verifiers environment implements the abstract session: the
\* same one a native episode implements, but for the offline verdict.
THEOREM RolloutIsASession == Spec => IsASession
  BY SessionInit, SessionStep, Invariance, PTL DEF Spec, Session!Spec, IsASession
-----------------------------------------------------------------------------
(* Why a rollout ends.                                                     *)

\* An attempt of a start: Popen, then a look at the process and one at the port
\* for each poll that fits into the timeout.
Round == 2 * MaxProbes + 2

\* What a call of the manager has still to do.
CallAhead ==
    CASE op = "idle" -> 0
      [] op = "spawn" -> (StartLimit - attempt) * Round + 2 * MaxProbes + 1
      [] op = "poll" -> (StartLimit - attempt) * Round + 2 * probes
      [] op = "probe" -> (StartLimit - attempt) * Round + 2 * probes - 1
      [] op = "wait" /\ restarting -> StartLimit * Round
      [] op = "wait" /\ ~restarting -> 1

\* A start, a stop or a restart ends after a bounded number of its own steps,
\* while the service may boot, bind, crash or hang and strangers come and go.
CallAdvances ==
    op # "idle" =>
        /\ CallAhead \in 1 .. StartLimit * Round
        /\ CallAhead' <= CallAhead
        /\ Proceed => CallAhead' < CallAhead

\* What server and task have still to go through, apart from calls.
ServerAhead ==
    CASE stage = "setup" -> 8 [] stage \in {"live", "failing"} -> 7
      [] stage = "call" -> 6 [] stage = "verify" -> 5 [] stage = "reply" -> 4
      [] stage = "serving" -> 3 [] stage = "closing" -> 2 [] stage = "cleanup" -> 1
      [] stage \in Gone -> 0
TaskAhead ==
    CASE task = "running" -> 3
      [] task = "ended" -> IF offline = Unjudged THEN 2 ELSE 1
      [] task \in {"scored", "errored"} -> 0

\* What a step of a rollout uses up: a call of the step budget; or a turn of the
\* backstop's; or a call of the turn, refused or answered; or a piece of the way
\* of the server or the task; or a step of the manager's call.
Spends ==
    \/ acts' = acts + 1 /\ acts' <= MaxSteps
    \/ acts' = acts /\ turns' = turns + 1 /\ turns' <= Backstop
    \/ UNCHANGED <<acts, turns>> /\ calls' < calls
    \/ UNCHANGED <<acts, turns, calls>> /\ ServerAhead' + TaskAhead' < ServerAhead + TaskAhead
    \/ /\ UNCHANGED <<acts, turns, calls, stage, task, offline>>
       /\ op # "idle" /\ CallAhead' < CallAhead

\* Only the service and strangers take steps that use up nothing, and theirs
\* give nothing back.
Advances ==
    \/ Spends
    \/ /\ Service \/ Stranger
       /\ UNCHANGED <<acts, turns, calls, stage, task, offline>>
       /\ CallAhead' = CallAhead

\* A start polls at least once for each attempt.
ProbeInv ==
    /\ op = "spawn" => probes = MaxProbes
    /\ op \in {"poll", "probe"} => probes > 0

LEMMA ProbeStays == SMTypeOK /\ ProbeInv /\ SMStep => ProbeInv'
  <1> SUFFICES ASSUME SMTypeOK, ProbeInv, SMStep PROVE ProbeInv'
    OBVIOUS
  <1> USE ManagerAssumption DEF SMTypeOK, ProbeInv, Return, callerVars, serviceVars
  <1>1. CASE BeginStart
    BY <1>1 DEF BeginStart
  <1>2. ASSUME NEW thenStart \in BOOLEAN, BeginStop(thenStart) PROVE ProbeInv'
    BY <1>2 DEF BeginStop, StopReturns
  <1>3. CASE Spawn \/ SpawnRaises
    BY <1>3 DEF Spawn, SpawnRaises
  <1>4. CASE Poll
    BY <1>4 DEF Poll
  <1>5. CASE Probe
    BY <1>5 DEF Probe
  <1>6. CASE Stopped
    BY <1>6 DEF Stopped, StopReturns
  <1>7. CASE Abandoned
    BY <1>7 DEF Abandoned
  <1>8. CASE UNCHANGED callerVars
    BY <1>8
  <1> QED
    BY <1>1, <1>2, <1>3, <1>4, <1>5, <1>6, <1>7, <1>8
    DEF SMStep, Proceed, Service, WritesPid, Binds, Exits, Stranger, smVars

\* The arithmetic of the attempts.
LEMMA Attempts ==
    ASSUME NEW limit \in Nat, NEW a \in 1 .. limit, NEW b \in Nat
    PROVE  /\ (limit - a) * b \in Nat
           /\ (limit - a) * b + b <= limit * b
           /\ (limit - (a + 1)) * b = (limit - a) * b - b
           /\ (limit - 1) * b = limit * b - b
           /\ limit * b \in Nat
  <1>1. PICK n \in Nat : n = limit - a
    OBVIOUS
  <1>2. n * b \in Nat /\ limit * b \in Nat
    BY SMTT(30)
  <1>3. limit * b = n * b + a * b
    BY <1>1, SMTT(30)
  <1>4. a * b >= b
    BY SMTT(30)
  <1>5. (limit - (a + 1)) * b = n * b - b
    BY <1>1, SMTT(30)
  <1>6. (limit - 1) * b = limit * b - b
    BY SMTT(30)
  <1>7. a * b \in Nat
    BY SMTT(30)
  <1> QED
    BY <1>1, <1>2, <1>3, <1>4, <1>5, <1>6, <1>7

\* The value of CallAhead in terms of what the attempts before are worth.
LEMMA CallAheadType ==
    ASSUME SMTypeOK, ProbeInv
    PROVE  /\ CallAhead \in Nat
           /\ op # "idle" => CallAhead \in 1 .. StartLimit * Round
  <1> DEFINE rest == (StartLimit - attempt) * Round
  <1>1. Round \in Nat /\ Round = 2 * MaxProbes + 2 /\ StartLimit \in Nat
    BY ManagerAssumption DEF Round
  <1>2. rest \in Nat /\ rest + Round <= StartLimit * Round /\ StartLimit * Round \in Nat
    BY <1>1, Attempts DEF SMTypeOK
  <1> HIDE DEF rest
  <1>3. StartLimit * Round >= 2
    BY <1>1, <1>2, ManagerAssumption
  <1>4. probes \in 0 .. MaxProbes /\ op \in {"idle", "spawn", "poll", "probe", "wait"}
    BY DEF SMTypeOK
  <1>5. CASE op = "idle"
    BY <1>5 DEF CallAhead
  <1>6. CASE op = "spawn"
    <2>1. CallAhead = rest + 2 * MaxProbes + 1
      BY <1>6 DEF CallAhead, rest
    <2> QED
      BY <1>1, <1>2, <2>1, ManagerAssumption
  <1>7. CASE op = "poll"
    <2>1. CallAhead = rest + 2 * probes
      BY <1>7 DEF CallAhead, rest
    <2> QED
      BY <1>1, <1>2, <1>4, <1>7, <2>1, ManagerAssumption DEF ProbeInv
  <1>8. CASE op = "probe"
    <2>1. CallAhead = rest + 2 * probes - 1
      BY <1>8 DEF CallAhead, rest
    <2> QED
      BY <1>1, <1>2, <1>4, <1>8, <2>1, ManagerAssumption DEF ProbeInv
  <1>9. CASE op = "wait"
    <2>1. CallAhead = StartLimit * Round \/ CallAhead = 1
      BY <1>9 DEF CallAhead, SMTypeOK
    <2> QED
      BY <1>2, <1>3, <2>1
  <1> QED
    BY <1>4, <1>5, <1>6, <1>7, <1>8, <1>9

LEMMA ProceedAdvances ==
    ASSUME SMTypeOK, ProbeInv, Proceed
    PROVE  op # "idle" /\ CallAhead' < CallAhead /\ CallAhead' <= CallAhead
  <1> SUFFICES op # "idle" /\ CallAhead' < CallAhead /\ CallAhead' \in Int
    BY CallAheadType
  <1> DEFINE rest == (StartLimit - attempt) * Round
  <1>1. Round \in Nat /\ Round = 2 * MaxProbes + 2 /\ StartLimit \in Nat /\ MaxProbes \in Nat
    BY ManagerAssumption DEF Round
  <1>2. /\ rest \in Nat /\ rest + Round <= StartLimit * Round /\ StartLimit * Round \in Nat
        /\ (StartLimit - (attempt + 1)) * Round = rest - Round
        /\ (StartLimit - 1) * Round = StartLimit * Round - Round
    BY <1>1, Attempts DEF SMTypeOK
  <1>3. probes \in Nat /\ op # "idle"
    BY DEF SMTypeOK, Proceed, Spawn, SpawnRaises, Poll, Probe, Stopped
  <1>4. CallAhead \in 1 .. StartLimit * Round
    BY <1>3, CallAheadType
  <1>5. ASSUME op' = "idle" PROVE CallAhead' < CallAhead /\ CallAhead' \in Int
    <2>1. CallAhead' = 0
      BY <1>5 DEF CallAhead
    <2> QED
      BY <1>2, <1>4, <2>1
  <1> USE ManagerAssumption DEF Return
  <1>6. CASE Spawn
    <2>1. op = "spawn" /\ op' = "poll" /\ attempt' = attempt /\ probes' = probes
      BY <1>6 DEF Spawn
    <2>2. CallAhead = rest + 2 * MaxProbes + 1 /\ CallAhead' = rest + 2 * probes
      BY <2>1 DEF CallAhead, Round
    <2> HIDE DEF rest
    <2> QED
      BY <1>1, <1>2, <2>1, <2>2 DEF ProbeInv
  <1>7. CASE SpawnRaises
    BY <1>5, <1>7 DEF SpawnRaises
  <1>8. CASE Poll
    <2>1. CASE op' = "probe" /\ attempt' = attempt /\ probes' = probes
      <3>1. op = "poll"
        BY <1>8 DEF Poll
      <3>2. CallAhead = rest + 2 * probes /\ CallAhead' = rest + 2 * probes - 1
        BY <2>1, <3>1 DEF CallAhead, Round
      <3> HIDE DEF rest
      <3> QED
        BY <1>2, <1>3, <3>2
    <2>2. CASE op' = "spawn" /\ attempt' = attempt + 1 /\ probes' = MaxProbes
      <3>1. op = "poll"
        BY <1>8 DEF Poll
      <3>2. /\ CallAhead = rest + 2 * probes
            /\ CallAhead' = (StartLimit - (attempt + 1)) * Round + 2 * MaxProbes + 1
        BY <2>2, <3>1 DEF CallAhead, Round
      <3> HIDE DEF rest
      <3>3. CallAhead' = rest - Round + 2 * MaxProbes + 1
        BY <1>2, <3>2
      <3> QED
        BY <1>1, <1>2, <1>3, <3>2, <3>3
    <2> QED
      BY <1>3, <1>5, <1>8, <2>1, <2>2 DEF Poll
  <1>9. CASE Probe
    <2>1. CASE op' = "poll" /\ attempt' = attempt /\ probes' = probes - 1
      <3>1. op = "probe"
        BY <1>9 DEF Probe
      <3>2. CallAhead = rest + 2 * probes - 1 /\ CallAhead' = rest + 2 * (probes - 1)
        BY <2>1, <3>1 DEF CallAhead, Round
      <3> HIDE DEF rest
      <3> QED
        BY <1>2, <1>3, <3>2
    <2> QED
      BY <1>3, <1>5, <1>9, <2>1 DEF Probe
  <1>10. CASE Stopped
    <2>1. CASE restarting /\ op' = "spawn" /\ attempt' = 1
      <3>1. op = "wait"
        BY <1>10 DEF Stopped
      <3>2. /\ CallAhead = StartLimit * Round
            /\ CallAhead' = (StartLimit - 1) * Round + 2 * MaxProbes + 1
        BY <2>1, <3>1 DEF CallAhead, Round
      <3> DEFINE whole == StartLimit * Round
      <3>3. whole \in Nat /\ CallAhead = whole
        BY <1>2, <3>2
      <3>4. CallAhead' = whole - Round + 2 * MaxProbes + 1
        BY <1>2, <3>2
      <3> HIDE DEF whole
      <3> QED
        BY <1>1, <1>3, <3>3, <3>4
    <2> QED
      BY <1>3, <1>5, <1>10, <2>1 DEF Stopped, StopReturns
  <1> QED
    BY <1>3, <1>6, <1>7, <1>8, <1>9, <1>10 DEF Proceed

\* A call of the manager is left alone by all that is not a step of it, or ends.
LEMMA CallStays ==
    ASSUME op # "idle", SMStep, ~Proceed
    PROVE  UNCHANGED callerVars \/ op' = "idle"
  BY DEF SMStep, BeginStart, BeginStop, Abandoned, Return, Service, WritesPid, Binds, Exits,
     Stranger, smVars, callerVars

LEMMA CallAheadStays == UNCHANGED callerVars => CallAhead' = CallAhead
  BY DEF callerVars, CallAhead, Round

LEMMA ManagerAdvances ==
    ASSUME SMTypeOK, ProbeInv, SMStep
    PROVE  CallAdvances
  <1> SUFFICES ASSUME op # "idle" PROVE CallAhead' <= CallAhead
    BY CallAheadType, ProceedAdvances DEF CallAdvances
  <1>1. CallAhead \in Nat
    BY CallAheadType
  <1>2. CASE Proceed
    BY <1>2, ProceedAdvances
  <1>3. CASE ~Proceed
    <2>1. op' = "idle" => CallAhead' = 0
      BY DEF CallAhead
    <2> QED
      BY <1>1, <1>3, <2>1, CallStays, CallAheadStays
  <1> QED
    BY <1>2, <1>3

ProgressInv == IInv /\ ProbeInv

LEMMA ProgressInvariance == Spec => []ProgressInv
  <1>1. Init => ProbeInv
    BY DEF Init, SMInit, ProbeInv
  <1>2. IInv /\ ProbeInv /\ [Next]_vars => ProbeInv'
    BY ProbeStays, StepIsSMStep DEF IInv, TypeOK
  <1> QED
    BY <1>1, <1>2, Invariance, PTL DEF Spec, ProgressInv

\* No start, stop or restart of the service goes on for ever: neither a crash
\* loop nor a service that never listens adds to the steps a call has left.
THEOREM ManagerCallsAdvance == Spec => [][CallAdvances]_vars
  <1>1. ProgressInv /\ [Next]_vars => CallAdvances
    BY StepIsSMStep, ManagerAdvances DEF ProgressInv, IInv, TypeOK
  <1> QED
    BY <1>1, ProgressInvariance, PTL DEF Spec
-----------------------------------------------------------------------------
LEMMA SumFalls ==
    \A a, b, c, d \in Nat : a < b /\ c \in {d, 0} => a + c < b + d /\ c + a < d + b
  OBVIOUS

LEMMA RolloutSpends == ProgressInv /\ [Next]_vars => Advances \/ UNCHANGED vars
  <1> SUFFICES ASSUME ProgressInv, Next PROVE Advances
    OBVIOUS
  <1> USE RolloutAssumption DEF ProgressInv
  <1>0. /\ acts \in Nat /\ turns \in Nat /\ calls \in Nat
        /\ stage \in {"setup", "live", "failing", "serving", "call", "verify", "reply",
                      "closing", "cleanup", "gone", "killed"}
        /\ task \in {"running", "ended", "scored", "errored"}
    BY DEF IInv, TypeOK, Gone
  <1>1. ServerAhead \in Nat /\ TaskAhead \in Nat /\ 0 \in Nat
    BY <1>0 DEF ServerAhead, TaskAhead, Gone
  <1>s. ASSUME UNCHANGED <<acts, turns, calls>>,
               ServerAhead' + TaskAhead' < ServerAhead + TaskAhead
        PROVE  Advances
    BY <1>s, Zenon DEF Advances, Spends
  <1>2. ASSUME UNCHANGED <<acts, turns, calls, task, offline>>, ServerAhead' < ServerAhead,
               ServerAhead' \in Nat
        PROVE  Advances
    <2>1. TaskAhead' = TaskAhead
      BY <1>2 DEF TaskAhead
    <2>2. ServerAhead' + TaskAhead' < ServerAhead + TaskAhead
      BY <1>1, <1>2, <2>1, SumFalls, Zenon
    <2> QED
      BY <1>s, <1>2, <2>2
  <1>3. ASSUME UNCHANGED <<acts, turns, calls, stage>>, TaskAhead' < TaskAhead, TaskAhead' \in Nat
        PROVE  Advances
    <2>1. ServerAhead' = ServerAhead
      BY <1>3 DEF ServerAhead
    <2>2. ServerAhead' + TaskAhead' < ServerAhead + TaskAhead
      BY <1>1, <1>3, <2>1, SumFalls, Zenon
    <2> QED
      BY <1>s, <1>3, <2>2
  <1>4. CASE Proceed /\ UNCHANGED <<serverVars, taskVars>>
    <2>1. UNCHANGED <<acts, turns, calls, stage, task, offline>>
      BY <1>4 DEF serverVars, taskVars
    <2>2. op # "idle" /\ CallAhead' < CallAhead
      BY <1>4, ProceedAdvances DEF IInv, TypeOK
    <2> QED
      BY <2>1, <2>2, Zenon DEF Advances, Spends
  <1>5. CASE Prepare
    BY <1>2, <1>5 DEF Prepare, taskVars, ServerAhead, Gone
  <1>6. CASE Ready
    BY <1>2, <1>6 DEF Ready, taskVars, ServerAhead, Gone
  <1>7. CASE SetupRaises
    <2>1. /\ UNCHANGED <<acts, turns, calls>> /\ stage \in {"live", "failing"}
          /\ stage' = "cleanup" /\ task' = "errored"
      BY <1>7 DEF SetupRaises
    <2>2. ServerAhead = 7 /\ ServerAhead' = 1 /\ TaskAhead' = 0
      BY <2>1 DEF ServerAhead, TaskAhead, Gone
    <2> QED
      BY <1>s, <1>1, <2>1, <2>2
  <1>8. CASE Call
    <2>1. acts' = acts + 1 /\ stage = "serving" /\ verdict = Unjudged
      BY <1>8 DEF Call, Takes
    <2>2. acts < MaxSteps
      BY <2>1 DEF IInv, RolloutInv, BudgetInv
    <2> QED
      BY <1>0, <2>1, <2>2 DEF Advances, Spends
  <1>9. CASE Record
    <2>1. /\ stage = "call" /\ stage' \in {"verify", "reply"}
          /\ UNCHANGED <<acts, turns, calls, task, offline>>
      BY <1>9 DEF Record, taskVars
    <2> QED
      BY <1>2, <2>1 DEF ServerAhead, Gone
  <1>10. CASE Verify
    BY <1>2, <1>10 DEF Verify, taskVars, ServerAhead, Gone
  <1>11. CASE Reply
    <2>1. UNCHANGED <<acts, turns>> /\ calls' < calls
      BY <1>0, <1>11 DEF Reply
    <2> QED
      BY <2>1, Zenon DEF Advances, Spends
  <1>12. CASE Close
    BY <1>2, <1>12 DEF Close, taskVars, ServerAhead, Gone
  <1>13. CASE Cleanup
    BY <1>2, <1>13 DEF Cleanup, taskVars, ServerAhead, Gone
  <1>14. CASE ExitHook
    BY <1>2, <1>14 DEF ExitHook, taskVars, ServerAhead, Gone
  <1>15. CASE Refused
    BY <1>0, <1>15 DEF Refused, serverVars, Advances, Spends
  <1>16. CASE Turn
    <2>1. turns < Backstop /\ Backstop \in Nat
      BY <1>0, <1>16 DEF Turn, BackstopReached, Backstop
    <2> QED
      BY <1>0, <1>16, <2>1 DEF Turn, serverVars, Advances, Spends
  <1>17. CASE EndOfTurns
    <2>1. /\ UNCHANGED <<acts, turns, calls, stage, offline>>
          /\ task = "running" /\ task' = "ended"
      BY <1>17 DEF EndOfTurns, BetweenTurns, serverVars
    <2> QED
      BY <1>3, <2>1 DEF TaskAhead
  <1>18. CASE Finalize
    <2>1. /\ UNCHANGED <<acts, turns, calls, stage, task>>
          /\ task = "ended" /\ offline = Unjudged /\ offline' = seen.steps
      BY <1>18 DEF Finalize, serverVars
    <2>2. offline' # Unjudged
      BY <2>1 DEF Unjudged, IInv, TypeOK
    <2> QED
      BY <1>3, <2>1, <2>2 DEF TaskAhead
  <1>19. CASE Score
    <2>1. /\ UNCHANGED <<acts, turns, calls, stage>>
          /\ task = "ended" /\ task' = "scored"
      BY <1>19 DEF Score
    <2> QED
      BY <1>3, <2>1 DEF TaskAhead
  <1>20. CASE Kill
    <2>1. /\ UNCHANGED <<acts, turns, calls, offline>>
          /\ stage \notin Gone /\ stage' = "killed" /\ task' \in {task, "errored"}
      BY <1>20 DEF Kill
    <2>2. ServerAhead' \in Nat /\ ServerAhead' < ServerAhead
      BY <1>0, <2>1 DEF ServerAhead, Gone
    <2>3. TaskAhead' \in {TaskAhead, 0}
      BY <2>1 DEF TaskAhead
    <2>4. ServerAhead' + TaskAhead' < ServerAhead + TaskAhead
      BY <1>1, <2>2, <2>3, SumFalls, Zenon
    <2> QED
      BY <1>s, <2>1, <2>4
  <1>21. CASE (Service \/ Stranger) /\ UNCHANGED <<serverVars, taskVars>>
    <2>1. UNCHANGED callerVars
      BY <1>21 DEF Service, WritesPid, Binds, Exits, Stranger
    <2> QED
      BY <1>21, <2>1, CallAheadStays DEF Advances, serverVars, taskVars
  <1> QED
    BY <1>4, <1>5, <1>6, <1>7, <1>8, <1>9, <1>10, <1>11, <1>12, <1>13, <1>14, <1>15, <1>16,
       <1>17, <1>18, <1>19, <1>20, <1>21
    DEF Next, ServerSteps, TaskSteps, Stop, Quit

\* Every step of server and task uses up something of a rollout, whatever the
\* service, strangers and signals do and however many calls a turn makes: the
\* step budget, the turn backstop, the start limit and the one verdict are all
\* that RolloutEnds needs besides fairness.
THEOREM RolloutAdvances == Spec => [][Advances]_vars
  <1> QED
    BY RolloutSpends, ProgressInvariance, PTL DEF Spec
=============================================================================
