---------------------------- MODULE EpisodeProofs ----------------------------
(***************************************************************************)
(* Type correctness, the safety properties of Episode and its refinement   *)
(* of Incident, for every step budget, turn size and token budget; then    *)
(* Conversation: the episode with its adapter is an episode, so all of     *)
(* that holds of it, its transcripts have no open calls when a request     *)
(* goes out, and blame falls on the right side.                            *)
(***************************************************************************)
EXTENDS Conversation, TLAPS

\* While the loop runs nothing has been decided or recorded, each call has
\* its record, and the budget is not yet spent.
LoopInv ==
    pc \in InTry \cup {"prepare"} =>
        /\ stopReason = "unknown" /\ ~infra
        /\ steps = stepNo /\ traj = stepNo /\ stepNo < MaxSteps
        /\ judged = Unjudged
        /\ pc = "call" => calls > 0

\* Nothing runs before live.start, nothing is left running after live.stop.
RuntimeInv ==
    pc \in {"prepare", "start", "end", "result", "destroy"} \cup (Final \ {"killed"})
        => svc = "none" /\ threads # "running"

\* Only a call whose bookkeeping broke is missing from the records.
RecordInv ==
    /\ stepNo <= MaxSteps
    /\ steps = stepNo \/ (steps = stepNo - 1 /\ stopReason = "agent_error")
    /\ ~infra => traj = steps

\* The verdict is given on the records and precedes shutdown and result.
VerdictInv ==
    /\ judged \in {Unjudged, steps}
    /\ pc = "verify" => judged = Unjudged /\ stopReason # "unknown"
    /\ pc = "verify" => threads = "running" \/ sessionFailed
    /\ pc \in {"stop", "end", "result", "destroy"} => judged = steps
    /\ pc = "stop" => stopReason # "unknown" /\ (threads = "running" \/ sessionFailed)
    /\ pc \in {"agent", "turn", "nudge", "call", "observe"} => threads = "running"
    /\ pc = "killed" => threads # "running"

\* A whole result is the one computed from the episode's final variables.
ResultInv ==
    /\ pc \in {"result", "destroy", "done"} => trajEnd = stopReason
    /\ pc \notin {"destroy"} \cup Final => result = NoResult
    /\ pc \in {"destroy", "done"} => Whole(result)
    /\ Whole(result) =>
          /\ result = [stop |-> stopReason, infra |-> infra, steps |-> steps]
          /\ trajEnd = stopReason /\ judged = steps
    /\ worldDir = "destroyed" => pc = "done" /\ ~KeepWorld

IInv == TypeOK /\ LoopInv /\ RuntimeInv /\ RecordInv /\ VerdictInv /\ ResultInv
-----------------------------------------------------------------------------
LEMMA InitInv == Init => IInv
  <1> SUFFICES ASSUME Init PROVE IInv
    OBVIOUS
  <1> USE StepBudgetAssumption DEF Init, InTry, Final, NoResult, Torn, Unjudged
  <1>1. TypeOK
    BY DEF TypeOK, StopReasons, Results
  <1>2. LoopInv
    BY DEF LoopInv
  <1>3. RuntimeInv
    BY DEF RuntimeInv
  <1>4. RecordInv
    BY DEF RecordInv
  <1>5. VerdictInv
    BY DEF VerdictInv, sessionFailed
  <1>6. ResultInv
    BY DEF ResultInv, Whole
  <1> QED
    BY <1>1, <1>2, <1>3, <1>4, <1>5, <1>6 DEF IInv

LEMMA StepInv == IInv /\ [Next]_vars => IInv'
  <1> SUFFICES ASSUME IInv, [Next]_vars PROVE IInv'
    OBVIOUS
  <1> USE StepBudgetAssumption, BoundsAssumption
      DEF IInv, TypeOK, LoopInv, RuntimeInv, RecordInv, VerdictInv, ResultInv,
          InTry, Final, StopReasons, Results, NoResult, Torn, Whole, Unjudged,
          sessionFailed, loopVars, runtimeVars, outputVars
  <1>1. CASE Prepare
    BY <1>1 DEF Prepare
  <1>2. CASE StartListening
    BY <1>2 DEF StartListening
  <1>3. CASE StartFails
    <2> USE <1>3 DEF StartFails
    <2>1. TypeOK'
      <3> HIDE DEF LoopInv, RuntimeInv, RecordInv, VerdictInv, ResultInv
      <3> QED
        OBVIOUS
    <2>2. LoopInv'
      OBVIOUS
    <2>3. RuntimeInv'
      OBVIOUS
    <2>4. RecordInv'
      OBVIOUS
    <2>5. VerdictInv'
      OBVIOUS
    <2>6. ResultInv'
      <3>1. result' = NoResult
        OBVIOUS
      <3>2. ~Whole(result')
        BY <3>1
      <3> QED
        BY <3>1, <3>2
    <2> QED
      BY <2>1, <2>2, <2>3, <2>4, <2>5, <2>6 DEF IInv
  <1>4. CASE AgentStart
    BY <1>4 DEF AgentStart
  <1>5. CASE HarnessRaises
    BY <1>5 DEF HarnessRaises, Raised
  <1>6. CASE EmptyTurn
    <2> USE <1>6 DEF EmptyTurn, Spend, GivesUp, StopLoop
    <2>1. TypeOK'
      <3> HIDE DEF LoopInv, RuntimeInv, RecordInv, VerdictInv, ResultInv
      <3>1. nudged' \in BOOLEAN
        OBVIOUS
      <3>2. tokens' \in Nat
        OBVIOUS
      <3>3. stopReason' \in StopReasons
        OBVIOUS
      <3> QED
        BY <3>1, <3>2, <3>3
    <2>2. LoopInv'
      OBVIOUS
    <2>3. RuntimeInv'
      OBVIOUS
    <2>4. RecordInv'
      OBVIOUS
    <2>5. VerdictInv'
      OBVIOUS
    <2>6. ResultInv'
      OBVIOUS
    <2> QED
      BY <2>1, <2>2, <2>3, <2>4, <2>5, <2>6 DEF IInv
  <1>6a. CASE Nudge
    BY <1>6a DEF Nudge
  <1>7. CASE ToolTurn
    BY <1>7 DEF ToolTurn, Spend, TurnCalls
  <1>8. CASE Call
    BY <1>8 DEF Call, AfterCall, OutOfSteps, GoOn, StopLoop
  <1>9. CASE CallUnrecorded
    BY <1>9 DEF CallUnrecorded, Raised
  <1>10. CASE CallUnwritten
    <2> USE <1>10 DEF CallUnwritten, Raised, UnwrittenIsInfra
    <2>1. TypeOK'
      <3> HIDE DEF LoopInv, RuntimeInv, RecordInv, VerdictInv, ResultInv
      <3> QED
        OBVIOUS
    <2>2. LoopInv'
      OBVIOUS
    <2>3. RuntimeInv'
      OBVIOUS
    <2>4. RecordInv'
      OBVIOUS
    <2>5. VerdictInv'
      OBVIOUS
    <2>6. ResultInv'
      <3>1. result' = NoResult
        OBVIOUS
      <3>2. ~Whole(result')
        BY <3>1
      <3> QED
        BY <3>1, <3>2
    <2> QED
      BY <2>1, <2>2, <2>3, <2>4, <2>5, <2>6 DEF IInv
  <1>11. CASE Observe
    BY <1>11 DEF Observe, StopLoop
  <1>12. CASE Verify
    BY <1>12 DEF Verify
  <1>13. CASE StopLive
    <2> USE <1>13 DEF StopLive, LiveStopped
    <2>1. TypeOK'
      <3> HIDE DEF LoopInv, RuntimeInv, RecordInv, VerdictInv, ResultInv
      <3>1. threads' \in {"none", "running", "told"}
        OBVIOUS
      <3>2. result' \in Results \cup {NoResult, Torn}
        OBVIOUS
      <3> QED
        BY <3>1, <3>2
    <2>2. LoopInv'
      OBVIOUS
    <2>3. RuntimeInv'
      OBVIOUS
    <2>4. RecordInv'
      OBVIOUS
    <2>5. VerdictInv'
      OBVIOUS
    <2>6. ResultInv'
      OBVIOUS
    <2> QED
      BY <2>1, <2>2, <2>3, <2>4, <2>5, <2>6 DEF IInv
  <1>14. CASE WriteEnd
    BY <1>14 DEF WriteEnd
  <1>15. CASE WriteResult
    <2> USE <1>15 DEF WriteResult, CutShort
    <2>1. CASE pc' = "destroy"
      BY <2>1
    <2>2. CASE pc' = "crashed"
      <3> USE <2>2
      <3>1. TypeOK'
        <4> HIDE DEF LoopInv, RuntimeInv, RecordInv, VerdictInv, ResultInv
        <4> QED
          OBVIOUS
      <3>2. LoopInv' /\ RuntimeInv' /\ RecordInv' /\ VerdictInv'
        OBVIOUS
      <3>3. ResultInv'
        OBVIOUS
      <3> QED
        BY <3>1, <3>2, <3>3 DEF IInv
    <2> QED
      BY <2>1, <2>2
  <1>16. CASE DestroyWorld
    BY <1>16 DEF DestroyWorld
  <1>17. CASE Interrupt
    <2> USE <1>17 DEF Interrupt, LiveStopped, CutShort
    <2>1. TypeOK'
      <3> HIDE DEF LoopInv, RuntimeInv, RecordInv, VerdictInv, ResultInv
      <3> QED
        OBVIOUS
    <2>2. LoopInv'
      OBVIOUS
    <2>3. RuntimeInv'
      OBVIOUS
    <2>4. RecordInv'
      OBVIOUS
    <2>5. VerdictInv'
      OBVIOUS
    <2>6. ResultInv'
      OBVIOUS
    <2> QED
      BY <2>1, <2>2, <2>3, <2>4, <2>5, <2>6 DEF IInv
  <1>18. CASE Terminate
    <2> USE <1>18 DEF Terminate, AtExitStops, LiveStopped, CutShort
    <2>1. TypeOK'
      <3> HIDE DEF LoopInv, RuntimeInv, RecordInv, VerdictInv, ResultInv
      <3>1. threads' \in {"none", "running", "told"}
        OBVIOUS
      <3>2. result' \in Results \cup {NoResult, Torn}
        OBVIOUS
      <3> QED
        BY <3>1, <3>2
    <2>2. LoopInv'
      OBVIOUS
    <2>3. RuntimeInv'
      OBVIOUS
    <2>4. RecordInv'
      OBVIOUS
    <2>5. VerdictInv'
      OBVIOUS
    <2>6. ResultInv'
      OBVIOUS
    <2> QED
      BY <2>1, <2>2, <2>3, <2>4, <2>5, <2>6 DEF IInv
  <1>19. CASE Kill
    <2> USE <1>19 DEF Kill, CutShort
    <2>1. TypeOK'
      <3> HIDE DEF LoopInv, RuntimeInv, RecordInv, VerdictInv, ResultInv
      <3>1. threads' \in {"none", "running", "told"}
        OBVIOUS
      <3>2. result' \in Results \cup {NoResult, Torn}
        OBVIOUS
      <3> QED
        BY <3>1, <3>2
    <2>2. LoopInv'
      OBVIOUS
    <2>3. RuntimeInv'
      OBVIOUS
    <2>4. RecordInv'
      OBVIOUS
    <2>5. VerdictInv'
      OBVIOUS
    <2>6. ResultInv'
      OBVIOUS
    <2> QED
      BY <2>1, <2>2, <2>3, <2>4, <2>5, <2>6 DEF IInv
  <1>20. CASE UNCHANGED vars
    BY <1>20 DEF vars
  <1> QED
    BY <1>1, <1>2, <1>3, <1>4, <1>5, <1>6, <1>6a, <1>7, <1>8, <1>9, <1>10, <1>11, <1>12, <1>13, <1>14, <1>15, <1>16, <1>17, <1>18, <1>19, <1>20 DEF Next, Run, Signal

LEMMA Invariance == Spec => []IInv
  BY InitInv, StepInv, PTL DEF Spec
-----------------------------------------------------------------------------
\* Every variable keeps its type; what needs the invariant is that the calls
\* of a turn never run below zero.
THEOREM TypeCorrect == Spec => []TypeOK
  <1>1. IInv => TypeOK
    BY DEF IInv
  <1> QED
    BY <1>1, Invariance, PTL

\* The agent never gets more calls than its budget, for every budget, every
\* split of the calls over turns and every failure of the harness.
THEOREM BudgetKept == Spec => []StepBudget
  <1>1. IInv => StepBudget
    BY DEF IInv, RecordInv, StepBudget
  <1> QED
    BY <1>1, Invariance, PTL

\* The verdict has seen every call, except one whose bookkeeping broke.
THEOREM VerdictComplete == Spec => []VerdictCoversCalls
  <1>1. IInv => VerdictCoversCalls
    BY DEF IInv, RecordInv, VerdictInv, VerdictCoversCalls
  <1> QED
    BY <1>1, Invariance, PTL

\* A result that counts as a model outcome can be re-judged from its
\* trajectory alone.
THEOREM OutcomeReplayable == Spec => []OutcomeHasTrajectory
  <1>1. IInv => OutcomeHasTrajectory
    BY DEF IInv, TypeOK, RecordInv, ResultInv, OutcomeHasTrajectory
  <1> QED
    BY <1>1, Invariance, PTL

\* Short of SIGKILL nothing outlives the episode.
THEOREM CleanExit == Spec => []NothingOutlives
  <1>1. IInv => NothingOutlives
    BY DEF IInv, RuntimeInv, NothingOutlives, Final
  <1> QED
    BY <1>1, Invariance, PTL

\* The world is deleted only once its verdict is on disk.
THEOREM VerdictBeforeDestruction == Spec => []WorldOutlivesVerdict
  <1>1. IInv => WorldOutlivesVerdict
    BY DEF IInv, ResultInv, WorldOutlivesVerdict
  <1> QED
    BY <1>1, Invariance, PTL
-----------------------------------------------------------------------------
\* Once a stop reason is given, neither it nor the infra flag is revised and
\* no further call is made: outside the loop no action touches them, and
\* inside the loop no stop reason has been given yet.
THEOREM StopReasonIsFinal == Spec => StopReasonFinal
  <1>1. IInv /\ [Next]_vars =>
          [stopReason # "unknown" =>
             stopReason' = stopReason /\ infra' = infra /\ stepNo' = stepNo]_vars
    <2> SUFFICES ASSUME IInv, [Next]_vars, stopReason # "unknown"
                 PROVE  stopReason' = stopReason /\ infra' = infra /\ stepNo' = stepNo
      OBVIOUS
    <2>1. pc \notin InTry \cup {"prepare"}
      BY DEF IInv, LoopInv
    <2>2. CASE Run
      BY <2>1, <2>2 DEF Run, InTry, loopVars, Prepare, StartListening, StartFails,
         AgentStart, HarnessRaises, EmptyTurn, Nudge, ToolTurn, Call, CallUnrecorded,
         CallUnwritten, Observe, Verify, StopLive, WriteEnd, WriteResult, DestroyWorld
    <2>3. CASE Signal
      BY <2>3 DEF Signal, loopVars, Interrupt, Terminate, Kill
    <2>4. CASE UNCHANGED vars
      BY <2>4 DEF vars
    <2> QED
      BY <2>2, <2>3, <2>4 DEF Next
  <1> QED
    BY <1>1, Invariance, PTL DEF Spec, StopReasonFinal
-----------------------------------------------------------------------------
\* The refinement mapping sends the initial states to Incident's.
LEMMA SessionInit == Init => Session!Init
  BY DEF Init, Session!Init, sessionFailed, sessionLive, sessionWorld,
         Unjudged, Session!Unjudged

\* Every step of the episode is a step of the session or leaves it alone.
LEMMA SessionStep == IInv /\ IInv' /\ [Next]_vars => [Session!Next]_(Session!vars)
  <1> SUFFICES ASSUME IInv, IInv', [Next]_vars
               PROVE  Session!Next \/ UNCHANGED Session!vars
    BY DEF Session!vars
  <1> USE StepBudgetAssumption, BoundsAssumption
      DEF IInv, TypeOK, LoopInv, RuntimeInv, RecordInv, VerdictInv, ResultInv,
          InTry, Final, Unjudged, sessionFailed, sessionLive, sessionWorld,
          loopVars, runtimeVars, outputVars,
          Session!Unjudged, Session!vars, Session!Next, Session!Act, Session!Break,
          Session!Judge, Session!Close, Session!Destroy
  <1>1. CASE Prepare
    BY <1>1 DEF Prepare
  <1>2. CASE StartListening
    BY <1>2 DEF StartListening
  <1>3. CASE StartFails
    BY <1>3 DEF StartFails
  <1>4. CASE AgentStart
    BY <1>4 DEF AgentStart
  <1>5. CASE HarnessRaises
    BY <1>5 DEF HarnessRaises, Raised
  <1>6. CASE EmptyTurn
    BY <1>6 DEF EmptyTurn, Spend, GivesUp, StopLoop
  <1>6a. CASE Nudge
    BY <1>6a DEF Nudge
  <1>7. CASE ToolTurn
    BY <1>7 DEF ToolTurn, Spend, TurnCalls
  <1>8. CASE Call
    BY <1>8 DEF Call, AfterCall, OutOfSteps, GoOn, StopLoop
  <1>9. CASE CallUnrecorded
    BY <1>9 DEF CallUnrecorded, Raised
  <1>10. CASE CallUnwritten
    BY <1>10 DEF CallUnwritten, Raised, UnwrittenIsInfra
  <1>11. CASE Observe
    BY <1>11 DEF Observe, StopLoop
  <1>12. CASE Verify
    BY <1>12 DEF Verify
  <1>13. CASE StopLive
    BY <1>13 DEF StopLive, LiveStopped
  <1>14. CASE WriteEnd
    BY <1>14 DEF WriteEnd
  <1>15. CASE WriteResult
    BY <1>15 DEF WriteResult, CutShort
  <1>16. CASE DestroyWorld
    BY <1>16 DEF DestroyWorld
  <1>17. CASE Interrupt
    BY <1>17 DEF Interrupt, LiveStopped, CutShort
  <1>18. CASE Terminate
    BY <1>18 DEF Terminate, AtExitStops, LiveStopped, CutShort
  <1>19. CASE Kill
    BY <1>19 DEF Kill, CutShort
  <1>20. CASE UNCHANGED vars
    BY <1>20 DEF vars
  <1> QED
    BY <1>1, <1>2, <1>3, <1>4, <1>5, <1>6, <1>6a, <1>7, <1>8, <1>9, <1>10, <1>11, <1>12, <1>13, <1>14, <1>15, <1>16, <1>17, <1>18, <1>19, <1>20 DEF Next, Run, Signal

\* An episode implements the abstract session: a bounded number of calls on a
\* live world, one verdict over all of them, destruction after the verdict.
THEOREM EpisodeIsASession == Spec => IsASession
  BY SessionInit, SessionStep, Invariance, PTL DEF Spec, Session!Spec, IsASession
-----------------------------------------------------------------------------
(* The episode with its adapter.                                           *)

\* The calls of a turn are all executed before anything is sent.
TranscriptInv ==
    /\ pc \in {"prepare", "start", "agent", "turn", "nudge"} => calls = 0 /\ open = 0
    /\ pc = "observe" => calls = 0
    /\ net = "sent" => open = 0 /\ pc \in {"turn"} \cup Final

\* An exception of next_turn ends the loop.
CauseInv ==
    /\ pc \in InTry \cup {"prepare"} => cause = "none"
    /\ cause \in Causes \cup {"none"}

ConvInv == IInv /\ TranscriptInv /\ CauseInv /\ BlameIsFair
-----------------------------------------------------------------------------
LEMMA ConvInitInv == ConvInit => ConvInv
  BY InitInv DEF ConvInit, ConvInv, TranscriptInv, CauseInv, BlameIsFair, Init, Causes

\* Whatever adapter and network do is, to the loop, a turn, an exception out
\* of next_turn, or nothing yet.
LEMMA ConvStepIsStep == [ConvNext]_convVars => [Next]_vars
  <1> SUFFICES ASSUME [ConvNext]_convVars PROVE [Next]_vars
    OBVIOUS
  <1> USE DEF Next, Run
  <1>1. ASSUME NEW why, NextTurnRaises(why), pc = "turn" PROVE HarnessRaises
    <2>1. LooksLikeInfraError(Exception(why)) \in BOOLEAN
      BY DEF LooksLikeInfraError
    <2> QED
      BY <1>1, <2>1 DEF NextTurnRaises, HarnessRaises
  <1>2. CASE Post
    BY <1>2 DEF Post
  <1>3. CASE Answered
    BY <1>3 DEF Answered
  <1>4. CASE Outage
    BY <1>1, <1>4 DEF Outage, Waiting
  <1>5. CASE OptionRefused
    BY <1>1, <1>5 DEF OptionRefused, Waiting
  <1>6. CASE RequestFails
    BY <1>1, <1>6 DEF RequestFails, Waiting
  <1>7. CASE Observed \/ LoopRaises \/ Elsewhere
    BY <1>7 DEF Observed, LoopRaises, Elsewhere
  <1>8. CASE Signal
    BY <1>8
  <1>9. CASE UNCHANGED convVars
    BY <1>9 DEF convVars
  <1> QED
    BY <1>2, <1>3, <1>4, <1>5, <1>6, <1>7, <1>8, <1>9 DEF ConvNext, ConvRun

LEMMA TranscriptStays == ConvInv /\ [ConvNext]_convVars => TranscriptInv'
  <1> SUFFICES ASSUME ConvInv, [ConvNext]_convVars PROVE TranscriptInv'
    OBVIOUS
  <1> USE DEF ConvInv, IInv, TypeOK, TranscriptInv, InTry, Final,
          loopVars, wireVars, vars, Raised
  <1>1. CASE Post
    BY <1>1 DEF Post
  <1>2. CASE Answered
    BY <1>2 DEF Answered, Waiting, EmptyTurn, ToolTurn, StopLoop
  <1>3. CASE Outage
    BY <1>3 DEF Outage, Waiting, NextTurnRaises
  <1>4. CASE OptionRefused
    BY <1>4 DEF OptionRefused, Waiting, NextTurnRaises
  <1>5. CASE RequestFails
    BY <1>5 DEF RequestFails, Waiting, NextTurnRaises
  <1>6. CASE Observed
    BY <1>6 DEF Observed, Observe, StopLoop
  <1>7. CASE LoopRaises
    BY <1>7 DEF LoopRaises, HarnessRaises
  <1>8. CASE Elsewhere
    BY <1>8 DEF Elsewhere, Prepare, StartListening, StartFails, AgentStart, Nudge, Call,
       AfterCall, GoOn, StopLoop, CallUnrecorded, CallUnwritten, Verify, StopLive,
       WriteEnd, WriteResult, DestroyWorld
  <1>9. CASE Signal /\ UNCHANGED wireVars
    BY <1>9 DEF Signal, Interrupt, Terminate, Kill
  <1>10. CASE UNCHANGED convVars
    BY <1>10 DEF convVars
  <1> QED
    BY <1>1, <1>2, <1>3, <1>4, <1>5, <1>6, <1>7, <1>8, <1>9, <1>10 DEF ConvNext, ConvRun

\* The blame is given with the exception, and stays.
LEMMA BlameStays == ConvInv /\ [ConvNext]_convVars => (CauseInv /\ BlameIsFair)'
  <1> SUFFICES ASSUME ConvInv, [ConvNext]_convVars PROVE (CauseInv /\ BlameIsFair)'
    OBVIOUS
  <1> USE DEF ConvInv, IInv, LoopInv, TranscriptInv, CauseInv, Causes, BlameIsFair,
          InTry, Final, wireVars, vars
  <1>1. ASSUME NEW why \in Causes, pc = "turn", NextTurnRaises(why), UNCHANGED provider
        PROVE  (CauseInv /\ BlameIsFair)'
    <2>1. CASE provider = "openai"
      <3>1. ~LooksLikeInfraError(Exception(why))
        BY <2>1 DEF LooksLikeInfraError, Exception
      <3> QED
        BY <1>1, <2>1, <3>1 DEF NextTurnRaises, Raised
    <2>2. CASE provider # "openai"
      <3>1. LooksLikeInfraError(Exception(why)) <=> why \in {"outage", "credentials"}
        BY <2>2 DEF LooksLikeInfraError, Exception
      <3> QED
        BY <1>1, <2>2, <3>1 DEF NextTurnRaises, Raised
    <2> QED
      BY <2>1, <2>2
  <1>2. CASE Post
    BY <1>2 DEF Post
  <1>3. CASE Answered
    BY <1>3 DEF Answered, Waiting, EmptyTurn, ToolTurn
  <1>4. CASE Outage
    BY <1>1, <1>4 DEF Outage, Waiting
  <1>5. CASE OptionRefused
    BY <1>1, <1>5 DEF OptionRefused, Waiting
  <1>6. CASE RequestFails
    BY <1>1, <1>6 DEF RequestFails, Waiting
  <1>7. CASE (Observed \/ LoopRaises \/ Elsewhere) /\ UNCHANGED <<provider, cause>>
    <2>1. cause # "none" => UNCHANGED infra /\ pc \notin InTry \cup {"prepare"}
      BY <1>7 DEF Observed, Observe, LoopRaises, HarnessRaises, Elsewhere, Prepare,
         StartListening, StartFails, AgentStart, Nudge, Call, CallUnrecorded, CallUnwritten,
         Verify, StopLive, WriteEnd, WriteResult, DestroyWorld
    <2>2. pc' \in InTry \cup {"prepare"} => pc \in InTry \cup {"prepare"}
      BY <1>7 DEF Observed, Observe, LoopRaises, HarnessRaises, Raised, Elsewhere, Prepare,
         StartListening, StartFails, AgentStart, Nudge, Call, CallUnrecorded, CallUnwritten,
         Verify, StopLive, WriteEnd, WriteResult, DestroyWorld
    <2> QED
      BY <1>7, <2>1, <2>2
  <1>8. CASE Signal /\ UNCHANGED wireVars
    BY <1>8 DEF Signal, Interrupt, Terminate, Kill
  <1>9. CASE UNCHANGED convVars
    BY <1>9 DEF convVars
  <1> QED
    BY <1>2, <1>3, <1>4, <1>5, <1>6, <1>7, <1>8, <1>9
    DEF ConvNext, ConvRun, Observed, LoopRaises, Elsewhere

LEMMA ConvStepInv == ConvInv /\ [ConvNext]_convVars => ConvInv'
  BY StepInv, ConvStepIsStep, TranscriptStays, BlameStays DEF ConvInv

LEMMA ConvInvariance == ConvSpec => []ConvInv
  BY ConvInitInv, ConvStepInv, PTL DEF ConvSpec
-----------------------------------------------------------------------------
\* The composition implements the episode (its safety part: what is owed under
\* fairness is left to TLC).
THEOREM ConversationIsAnEpisode == ConvSpec => Init /\ [][Next]_vars
  <1>1. ConvInit => Init
    BY DEF ConvInit
  <1> QED
    BY <1>1, ConvStepIsStep, PTL DEF ConvSpec

\* No request leaves with an unanswered tool call in its transcript, for every
\* number of calls in a turn and every place where the budget cuts them.
THEOREM CallsAreAnswered == ConvSpec => []CallsAnswered
  <1>1. ConvInv => CallsAnswered
    BY DEF ConvInv, TranscriptInv, CallsAnswered
  <1> QED
    BY <1>1, ConvInvariance, PTL

\* A refused request never passes as an environment problem, and an outage
\* always does with the Anthropic SDK.
THEOREM BlameIsAlwaysFair == ConvSpec => []BlameIsFair
  <1>1. ConvInv => BlameIsFair
    BY DEF ConvInv
  <1> QED
    BY <1>1, ConvInvariance, PTL

\* What the runs check of the episode holds with the adapter in place.
THEOREM EpisodeWithAdapterIsSafe ==
    ConvSpec => [](OutcomeHasTrajectory /\ NothingOutlives /\ WorldOutlivesVerdict)
  <1>1. ConvInv => OutcomeHasTrajectory /\ NothingOutlives /\ WorldOutlivesVerdict
    BY DEF ConvInv, IInv, TypeOK, RecordInv, ResultInv, RuntimeInv, OutcomeHasTrajectory,
           NothingOutlives, WorldOutlivesVerdict, Final
  <1> QED
    BY <1>1, ConvInvariance, PTL
-----------------------------------------------------------------------------
(* Why the loop ends.                                                      *)

\* How much of the episode's way to its end is ahead.
Ahead(place) ==
    CASE place = "prepare" -> 11 [] place = "start" -> 10 [] place = "agent" -> 9
      [] place \in {"nudge", "observe"} -> 8 [] place = "turn" -> 7 [] place = "call" -> 6
      [] place = "verify" -> 5 [] place = "stop" -> 4 [] place = "end" -> 3
      [] place = "result" -> 2 [] place = "destroy" -> 1 [] OTHER -> 0

\* What a step uses up: a call of the step budget; or the one nudge; or a
\* piece of the way; or an option that can be dropped, a resend, or the moment
\* before a request is sent, while the turn waits for its answer.
Advances ==
    \/ stepNo' = stepNo + 1
    \/ stepNo' = stepNo /\ ~nudged /\ nudged'
    \/ UNCHANGED <<stepNo, nudged>> /\ Ahead(pc') < Ahead(pc)
    \/ UNCHANGED <<stepNo, nudged, pc>> /\ sends' \subseteq sends /\ sends' # sends
    \/ UNCHANGED <<stepNo, nudged, pc, sends>> /\ retries' = retries + 1
    \/ UNCHANGED <<stepNo, nudged, pc, sends, retries>> /\ net = "idle" /\ net' = "sent"

LEMMA WireTypes == WireTypeOK /\ TypeOK /\ [ConvNext]_convVars => WireTypeOK'
  <1> SUFFICES ASSUME WireTypeOK, TypeOK, [ConvNext]_convVars PROVE WireTypeOK'
    OBVIOUS
  <1> USE ConversationAssumption DEF WireTypeOK, wireVars
  <1>1. ASSUME NEW why \in Causes, NextTurnRaises(why),
               UNCHANGED <<provider, refuses, open>>,
               sends' = sends, retries' \in 0 .. MaxRetries, resent' \in BOOLEAN
        PROVE  WireTypeOK'
    BY <1>1 DEF NextTurnRaises
  <1>2. CASE Post
    BY <1>2 DEF Post
  <1>3. CASE Answered
    <2>1. calls' \in Nat
      BY <1>3 DEF Answered, EmptyTurn, ToolTurn, TurnCalls, TypeOK
    <2>2. resent' \in BOOLEAN
      BY <1>3, Zenon DEF Answered
    <2> QED
      BY <1>3, <2>1, <2>2 DEF Answered
  <1>4. CASE Outage
    <2>1. CASE UNCHANGED <<vars, cause>>
      BY <1>4, <2>1 DEF Outage, NextTurnRaises
    <2>2. CASE NextTurnRaises("outage") /\ UNCHANGED retries
      BY <1>1, <1>4, <2>2 DEF Outage, Causes
    <2> QED
      BY <1>4, <2>1, <2>2 DEF Outage
  <1>5. CASE OptionRefused
    <2>1. PICK o \in Refused :
             \/ /\ DropsOption(o) /\ resent' = (provider = "anthropic") /\ net' = "idle"
                /\ UNCHANGED <<vars, cause>>
             \/ NextTurnRaises("option") /\ UNCHANGED <<sends, resent>>
      BY <1>5 DEF OptionRefused
    <2>2. CASE DropsOption(o) /\ resent' = (provider = "anthropic") /\ net' = "idle"
               /\ UNCHANGED <<vars, cause>>
      <3>1. resent' \in BOOLEAN
        BY <2>2, Zenon
      <3> QED
        BY <1>5, <2>2, <3>1 DEF OptionRefused, DropsOption
    <2>3. CASE NextTurnRaises("option") /\ UNCHANGED <<sends, resent>>
      BY <1>1, <1>5, <2>3 DEF OptionRefused, Causes
    <2> QED
      BY <2>1, <2>2, <2>3
  <1>6. CASE RequestFails
    BY <1>1, <1>6 DEF RequestFails, Causes
  <1>7. CASE (Observed \/ LoopRaises \/ Elsewhere)
             /\ UNCHANGED <<provider, refuses, sends, retries, resent>>
    <2>1. UNCHANGED <<net, cause>> /\ open' \in Nat
      BY <1>7 DEF Observed, LoopRaises, Elsewhere, TypeOK
    <2> QED
      BY <1>7, <2>1
  <1>8. CASE UNCHANGED wireVars
    BY <1>8
  <1> QED
    BY <1>2, <1>3, <1>4, <1>5, <1>6, <1>7, <1>8 DEF ConvNext, ConvRun, convVars

\* Each reachable state of adapter and loop is well typed: the resends of a
\* request stay within max_retries, and only configured options are dropped.
THEOREM ConversationTypeCorrect == ConvSpec => [](TypeOK /\ WireTypeOK)
  <1>1. ConvInit => WireTypeOK
    <2> SUFFICES ASSUME ConvInit PROVE WireTypeOK
      OBVIOUS
    <2>1. resent \in BOOLEAN
      BY Zenon DEF ConvInit
    <2>2. 0 \in 0 .. MaxRetries
      BY ConversationAssumption
    <2> QED
      BY <2>1, <2>2 DEF ConvInit, WireTypeOK
  <1>2. ConvInv => TypeOK
    BY DEF ConvInv, IInv
  <1> QED
    BY <1>1, <1>2, WireTypes, ConvInvariance, PTL DEF ConvSpec

\* What an exception out of next_turn uses up.
LEMMA RaisingAdvances ==
    ASSUME NEW why, pc = "turn", NextTurnRaises(why)
    PROVE  Advances
  BY DEF NextTurnRaises, Raised, loopVars, Advances, Ahead

LEMMA StepAdvances == ConvInv /\ WireTypeOK /\ [ConvNext]_convVars => [Advances]_convVars
  <1> SUFFICES ASSUME ConvInv, WireTypeOK, ConvNext PROVE Advances
    BY DEF Advances
  <1> USE DEF ConvInv, IInv, loopVars, wireVars, vars
  <1>1. CASE Post
    BY <1>1 DEF Post, Advances
  <1>2. CASE Answered
    <2>1. CASE EmptyTurn
      BY <1>2, <2>1 DEF Answered, EmptyTurn, StopLoop, GivesUp, Advances, Ahead
    <2>2. CASE ToolTurn
      BY <1>2, <2>2 DEF Answered, ToolTurn, Advances, Ahead
    <2> QED
      BY <1>2, <2>1, <2>2 DEF Answered
  <1>3. CASE Outage
    <2>1. CASE retries' = retries + 1 /\ UNCHANGED <<vars, cause>>
      BY <1>3, <2>1 DEF Outage, Advances
    <2>2. CASE NextTurnRaises("outage")
      BY <1>3, <2>2, RaisingAdvances DEF Outage, Waiting
    <2> QED
      BY <1>3, <2>1, <2>2 DEF Outage
  <1>4. CASE OptionRefused
    <2>1. PICK o \in Refused :
             \/ DropsOption(o) /\ UNCHANGED <<vars, cause>>
             \/ NextTurnRaises("option")
      BY <1>4 DEF OptionRefused
    <2>2. CASE DropsOption(o) /\ UNCHANGED <<vars, cause>>
      <3>1. sends' = sends \ {o} /\ o \in sends
        BY <2>2 DEF DropsOption, Refused
      <3> QED
        BY <2>2, <3>1 DEF Advances
    <2>3. CASE NextTurnRaises("option")
      BY <1>4, <2>3, RaisingAdvances DEF OptionRefused, Waiting
    <2> QED
      BY <2>1, <2>2, <2>3
  <1>5. CASE RequestFails
    BY <1>5, RaisingAdvances DEF RequestFails, Waiting
  <1>6. CASE Observed
    BY <1>6 DEF Observed, Observe, StopLoop, Advances, Ahead
  <1>7. CASE LoopRaises
    BY <1>7 DEF LoopRaises, HarnessRaises, Raised, Advances, Ahead
  <1>8. CASE Elsewhere
    <2>1. CASE Prepare \/ StartListening \/ StartFails \/ AgentStart \/ Nudge
      BY <2>1 DEF Prepare, StartListening, StartFails, AgentStart, Nudge, Advances, Ahead
    <2>2. CASE Call \/ CallUnrecorded \/ CallUnwritten
      BY <2>2 DEF Call, CallUnrecorded, CallUnwritten, Advances
    <2>3. CASE Verify \/ StopLive \/ WriteEnd \/ WriteResult \/ DestroyWorld
      BY <2>3 DEF Verify, StopLive, WriteEnd, WriteResult, DestroyWorld, Advances, Ahead
    <2> QED
      BY <1>8, <2>1, <2>2, <2>3 DEF Elsewhere
  <1>9. CASE Signal
    <2>1. UNCHANGED <<stepNo, nudged>> /\ pc \notin Final
          /\ pc' \in {"interrupted", "terminated", "killed"}
      BY <1>9 DEF Signal, Interrupt, Terminate, Kill
    <2>2. Ahead(pc') = 0
      BY <2>1 DEF Ahead
    <2>3. Ahead(pc) > 0
      BY <2>1 DEF TypeOK, Ahead, InTry, Final
    <2> QED
      BY <2>1, <2>2, <2>3 DEF Advances
  <1> QED
    BY <1>1, <1>2, <1>3, <1>4, <1>5, <1>6, <1>7, <1>8, <1>9 DEF ConvNext, ConvRun

\* No step of an episode with its adapter and its network goes nowhere: every
\* one spends a call, the nudge, an option, a resend or a piece of the way to
\* the end.  The calls are at most MaxSteps (BudgetKept) and the resends
\* MaxRetries (ConversationTypeCorrect), so the loop cannot go on for ever.
THEOREM EveryStepAdvances == ConvSpec => [][Advances]_convVars
  BY StepAdvances, ConvInvariance, ConversationTypeCorrect, PTL DEF ConvSpec
=============================================================================
