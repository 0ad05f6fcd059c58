----------------------------- MODULE SweepProofs ------------------------------
(***************************************************************************)
(* Proofs about Sweep, for every set of seeds, number of retries, size of  *)
(* the pool and number of runs of the command.  An episode of the current  *)
(* run is alive only while its worker waits for it; a worker that is to    *)
(* save has a whole outcome, final when it is an infrastructure error; and *)
(* without --rerun no worker is given a seed that has a model outcome.     *)
(* So live episodes are as many as busy workers, whose number is bounded,  *)
(* and every step of a worker takes it nearer to its end.                  *)
(***************************************************************************)
EXTENDS Sweep, FiniteSetTheorems, TLAPS

Saving == {"saving", "writing"}
Unsaved == {"queued", "clearing", "spawned", "waiting", "terminating", "pausing", "saving"}

\* The run and the attempt a worker is in exist; nothing works in an absent
\* process.
PlaceInv ==
    /\ mode \in {"running", "stopping", "reported"} => run \in 1 .. MaxRuns
    /\ \A s \in Seeds : w[s] \in Working => attempt[s] \in Attempts
    /\ \A s \in Seeds : w[s] = "pausing" => MayRetry(s)
    /\ mode = "off" => w = Idle
    /\ mode = "reported" => \A s \in Seeds : w[s] = "saved"

\* What is about to be saved, and what is saved.
Final(f) == Whole(f) /\ (f.kind = "infra" => f.attempt = Retries + 1)
SaveInv ==
    \A s \in Seeds :
        /\ w[s] \in Saving => Final(last[s])
        /\ w[s] = "writing" => record[s].kind = "torn"
        /\ w[s] = "saved" => Whole(record[s])
        /\ ~rerun /\ w[s] \in Unsaved => record[s].kind # "model"

\* A live episode of this run is the one its worker waits for.
AliveInv ==
    \A p \in Procs : phase[p] # "off" =>
        /\ p[1] <= run
        /\ p[1] = run /\ mode # "off" =>
             /\ w[p[2]] \in {"spawned", "waiting", "terminating"}
             /\ p[3] = attempt[p[2]]

IInv == TypeOK /\ PlaceInv /\ SaveInv /\ InfraOnlyAfterRetries /\ AliveInv
-----------------------------------------------------------------------------
\* The operators over outcomes stay in their sets.
LEMMA OutcomeType ==
    ASSUME TypeOK, NEW s \in Seeds, attempt[s] \in Attempts, run \in 1 .. MaxRuns
    PROVE  /\ Infra(s) \in Outcomes /\ Found(s) \in Outcomes
           /\ Infra(s).kind = "infra" /\ Infra(s).attempt = attempt[s]
           /\ Found(s).attempt = attempt[s] /\ Whole(Found(s))
BY SweepAssumption
   DEF TypeOK, Infra, Found, Outcome, Outcomes, Kinds, Whole, Attempts

LEMMA AbsentType == Absent \in Outcomes /\ ~Whole(Absent) /\ Absent.kind = "none"
BY SweepAssumption DEF Absent, Outcomes, Kinds, Whole

LEMMA InitInv == Init => IInv
<1> SUFFICES ASSUME Init PROVE IInv
    OBVIOUS
<1>1. TypeOK
    <2>1. /\ attempt \in [Seeds -> 0 .. Retries + 1]
          /\ last \in [Seeds -> Outcomes] /\ record \in [Seeds -> Outcomes]
        BY SweepAssumption, AbsentType DEF Init, NoAttempt, NoOutcome
    <2>2. result \in [Seeds \X Attempts -> Outcomes]
        BY AbsentType DEF Init
    <2>3. phase \in [Procs -> {"off", "running", "writing", "wrote"}]
        BY DEF Init
    <2>4. w \in [Seeds -> Working \cup {"idle", "queued", "saved"}]
        BY DEF Init, Idle
    <2>5. /\ mode \in {"off", "running", "stopping", "reported"}
          /\ run \in 0 .. MaxRuns
          /\ active \subseteq Procs /\ snapshot \subseteq Procs
        BY SweepAssumption DEF Init
    <2>6. rerun \in BOOLEAN
        BY Zenon DEF Init
    <2>7. QED
        BY <2>1, <2>2, <2>3, <2>4, <2>5, <2>6 DEF TypeOK
<1>2. PlaceInv
    BY DEF Init, PlaceInv, Idle, Working
<1>3. SaveInv
    BY AbsentType DEF Init, SaveInv, Idle, NoOutcome, Saving, Unsaved
<1>4. InfraOnlyAfterRetries
    BY AbsentType DEF Init, InfraOnlyAfterRetries, NoOutcome
<1>5. AliveInv
    BY DEF Init, AliveInv
<1>6. QED
    BY <1>1, <1>2, <1>3, <1>4, <1>5 DEF IInv

LEMMA TypeStep == IInv /\ [Next]_vars => TypeOK'
<1> SUFFICES ASSUME IInv, [Next]_vars PROVE TypeOK'
    OBVIOUS
<1> USE SweepAssumption DEF IInv, TypeOK, sweep, disk
<1>1. CASE Begin
    BY <1>1 DEF Begin, Working
<1>2. CASE Report
    BY <1>2 DEF Report
<1>3. CASE Killed
    BY <1>3 DEF Killed, Gone, Idle, NoAttempt, NoOutcome, Absent, Outcomes, Kinds
<1>4. CASE Signal
    BY <1>4 DEF Signal
<1>5. CASE HandlerExits
    BY <1>5 DEF HandlerExits, Gone, Idle, NoAttempt, NoOutcome, Absent, Outcomes, Kinds
<1>6. ASSUME NEW s \in Seeds, Work(s) PROVE TypeOK'
    <2>0. /\ run \in 1 .. MaxRuns \/ ~Up
          /\ w[s] \in Working => attempt[s] \in Attempts
          /\ Up
        BY <1>6 DEF PlaceInv, Up, Work, Take, Spawn, SpawnFails, Register, Deadline,
           Kill, Collect, Again, Truncate, Save
    <2>1. CASE Take(s)
        BY <2>1 DEF Take, Go, Working
    <2>2. CASE Spawn(s)
        <3>1. <<s, attempt[s]>> \in Seeds \X Attempts /\ Proc(s) \in Procs
            BY <2>0, <2>2 DEF Spawn, Working, Proc, Procs
        <3>2. result' \in [Seeds \X Attempts -> Outcomes]
            BY <2>2, <3>1, AbsentType DEF Spawn
        <3>3. phase' \in [Procs -> {"off", "running", "writing", "wrote"}]
            BY <2>2, <3>1 DEF Spawn
        <3>4. QED
            BY <2>2, <3>2, <3>3 DEF Spawn, Go, Working
    <2>3. CASE SpawnFails(s)
        BY <2>0, <2>3, OutcomeType DEF SpawnFails, Ended, Go, Working
    <2>4. CASE Register(s)
        BY <2>0, <2>4 DEF Register, Go, Working, Proc, Procs, Attempts
    <2>5. CASE Deadline(s)
        BY <2>5 DEF Deadline, Go, Working
    <2>6. CASE Kill(s)
        BY <2>6 DEF Kill
    <2>7. CASE Collect(s)
        BY <2>0, <2>7, OutcomeType DEF Collect, Ended, Go, Working
    <2>8. CASE Again(s)
        BY <2>8 DEF Again, Go, Working, PlaceInv, MayRetry
    <2>9. CASE Truncate(s)
        BY <2>0, <2>9 DEF Truncate, Go, Working, Outcome, Outcomes, Kinds
    <2>10. CASE Save(s)
        BY <2>10 DEF Save, Go, Working, Absent, Outcomes, Kinds
    <2>11. QED
        BY <1>6, <2>1, <2>2, <2>3, <2>4, <2>5, <2>6, <2>7, <2>8, <2>9, <2>10 DEF Work
<1>7. ASSUME NEW p \in Procs,
             HandlerKills(p) \/ EpisodeWrites(p) \/ EpisodeWrote(p) \/ EpisodeEnds(p)
      PROVE  TypeOK'
    <2>1. p[1] \in 1 .. MaxRuns /\ <<p[2], p[3]>> \in Seeds \X Attempts
        BY DEF Procs
    <2>2. \A kind \in Kinds :
            Outcome(p[1], kind, p[3]) \in Outcomes /\ Outcome(p[1], kind, 0) \in Outcomes
        BY <2>1 DEF Outcome, Outcomes, Attempts
    <2>3. result' \in [Seeds \X Attempts -> Outcomes]
        BY <1>7, <2>1, <2>2 DEF HandlerKills, EpisodeWrites, EpisodeWrote, EpisodeEnds, Kinds
    <2>4. phase' \in [Procs -> {"off", "running", "writing", "wrote"}]
        BY <1>7 DEF HandlerKills, EpisodeWrites, EpisodeWrote, EpisodeEnds
    <2>5. QED
        BY <1>7, <2>3, <2>4 DEF HandlerKills, EpisodeWrites, EpisodeWrote, EpisodeEnds
<1>8. CASE UNCHANGED vars
    BY <1>8 DEF vars
<1>9. QED
    BY <1>1, <1>2, <1>3, <1>4, <1>5, <1>6, <1>7, <1>8 DEF Next
-----------------------------------------------------------------------------
\* What Ended leaves of a worker that had the outcome f.
LEMMA EndedStep ==
    ASSUME TypeOK, NEW s \in Seeds, NEW f \in Outcomes, Ended(s, f), Whole(f),
           f.attempt = attempt[s], attempt[s] \in Attempts, w[s] \in Working
    PROVE  /\ \A t \in Seeds \ {s} : w'[t] = w[t] /\ last'[t] = last[t]
           /\ \/ w'[s] = "pausing" /\ MayRetry(s) /\ last'[s] = last[s]
              \/ w'[s] = "saving" /\ last'[s] = f /\ Final(f)
<1>1. CASE f.kind = "infra" /\ MayRetry(s)
    BY <1>1 DEF Ended, Go, TypeOK
<1>2. CASE ~(f.kind = "infra" /\ MayRetry(s))
    <2>1. Final(f)
        BY <1>2, SweepAssumption DEF Final, MayRetry, Attempts
    <2>2. QED
        BY <1>2, <2>1 DEF Ended, Go, TypeOK
<1>3. QED
    BY <1>1, <1>2

LEMMA PlaceStep == IInv /\ [Next]_vars => PlaceInv'
<1> SUFFICES ASSUME IInv, [Next]_vars PROVE PlaceInv'
    OBVIOUS
<1> USE SweepAssumption DEF IInv, TypeOK, PlaceInv, sweep, disk
<1>1. CASE Begin
    BY <1>1 DEF Begin, Working
<1>2. CASE Report
    BY <1>2 DEF Report, MayRetry
<1>3. CASE Killed
    BY <1>3 DEF Killed, Gone, Idle, Working
<1>4. CASE Signal
    BY <1>4 DEF Signal, MayRetry
<1>5. CASE HandlerExits
    BY <1>5 DEF HandlerExits, Gone, Idle, Working
<1>6. ASSUME NEW s \in Seeds, Work(s) PROVE PlaceInv'
    <2>0. Up /\ UNCHANGED sweep
        BY <1>6 DEF Work, Take, Spawn, SpawnFails, Register, Deadline, Kill, Collect,
           Again, Truncate, Save
    <2>1. mode' \notin {"off", "reported"} /\ run' \in 1 .. MaxRuns
        BY <2>0 DEF Up
    <2>2. \A t \in Seeds \ {s} : w'[t] = w[t] /\ attempt'[t] = attempt[t]
        <3>1. CASE SpawnFails(s) \/ Collect(s)
            BY <3>1 DEF SpawnFails, Collect, Ended, Go
        <3>2. CASE ~(SpawnFails(s) \/ Collect(s))
            BY <1>6, <3>2 DEF Work, Take, Spawn, Register, Deadline, Kill, Again,
               Truncate, Save, Go
        <3>3. QED
            BY <3>1, <3>2
    <2>3. /\ w'[s] \in Working => attempt'[s] \in Attempts
          /\ w'[s] = "pausing" => attempt'[s] <= Retries
        <3>1. CASE SpawnFails(s) \/ Collect(s)
            <4>1. w[s] \in Working /\ UNCHANGED attempt
                BY <3>1 DEF SpawnFails, Collect, Working
            <4>2. (w'[s] = "pausing" /\ MayRetry(s)) \/ w'[s] = "saving"
                BY <3>1 DEF SpawnFails, Collect, Ended, Go
            <4>3. QED
                BY <4>1, <4>2 DEF MayRetry
        <3>2. CASE ~(SpawnFails(s) \/ Collect(s))
            BY <1>6, <3>2 DEF Work, Take, Spawn, Register, Deadline, Kill, Again,
               Truncate, Save, Go, Working, MayRetry, Attempts
        <3>3. QED
            BY <3>1, <3>2
    <2>4. QED
        BY <2>1, <2>2, <2>3 DEF MayRetry
<1>7. ASSUME NEW p \in Procs,
             HandlerKills(p) \/ EpisodeWrites(p) \/ EpisodeWrote(p) \/ EpisodeEnds(p)
      PROVE  PlaceInv'
    BY <1>7 DEF HandlerKills, EpisodeWrites, EpisodeWrote, EpisodeEnds, MayRetry
<1>8. CASE UNCHANGED vars
    BY <1>8 DEF vars, MayRetry
<1>9. QED
    BY <1>1, <1>2, <1>3, <1>4, <1>5, <1>6, <1>7, <1>8 DEF Next
-----------------------------------------------------------------------------
\* A step of the worker of s does not touch what belongs to the other seeds.
LEMMA WorkFrame ==
    ASSUME TypeOK, NEW s \in Seeds, Work(s)
    PROVE  /\ Up /\ UNCHANGED sweep
           /\ \A t \in Seeds \ {s} : /\ w'[t] = w[t] /\ attempt'[t] = attempt[t]
                                     /\ last'[t] = last[t] /\ record'[t] = record[t]
<1>1. Up /\ UNCHANGED sweep
    BY DEF Work, Take, Spawn, SpawnFails, Register, Deadline, Kill, Collect, Again,
       Truncate, Save
<1>2. CASE SpawnFails(s) \/ Collect(s)
    BY <1>1, <1>2 DEF SpawnFails, Collect, Ended, Go, TypeOK, disk
<1>3. CASE ~(SpawnFails(s) \/ Collect(s))
    BY <1>1, <1>3 DEF Work, Take, Spawn, Register, Deadline, Kill, Again, Truncate, Save,
       Go, TypeOK, disk
<1>4. QED
    BY <1>1, <1>2, <1>3

\* Where the worker of s goes, and what it saves.
LEMMA WorkStep ==
    ASSUME IInv, NEW s \in Seeds, Work(s)
    PROVE  \/ /\ w[s] \in Unsaved /\ w'[s] \in Unsaved \ {"saving"}
              /\ last'[s] = last[s] /\ record'[s] = record[s]
           \/ /\ w[s] \in Unsaved /\ w'[s] = "saving"
              /\ Final(last'[s]) /\ record'[s] = record[s]
           \/ /\ w[s] = "saving" /\ w'[s] = "writing" /\ last'[s] = last[s]
              /\ record'[s].kind = "torn"
           \/ /\ w[s] = "writing" /\ w'[s] = "saved" /\ record'[s] = last[s]
<1> USE DEF IInv, TypeOK, Unsaved, disk
<1>1. CASE SpawnFails(s) \/ Collect(s)
    <2>1. /\ w[s] \in {"clearing", "waiting", "terminating"}
          /\ attempt[s] \in Attempts /\ run \in 1 .. MaxRuns
          /\ record'[s] = record[s]
        BY <1>1 DEF SpawnFails, Collect, Up, PlaceInv, Working
    <2>2. PICK f \in Outcomes : Ended(s, f) /\ Whole(f) /\ f.attempt = attempt[s]
        BY <1>1, <2>1, OutcomeType DEF SpawnFails, Collect, Whole
    <2>3. \/ w'[s] = "pausing" /\ last'[s] = last[s]
          \/ w'[s] = "saving" /\ last'[s] = f /\ Final(f)
        BY <2>1, <2>2, EndedStep DEF Working
    <2>4. QED
        BY <2>1, <2>3
<1>2. CASE ~(SpawnFails(s) \/ Collect(s))
    BY <1>2 DEF Work, Take, Spawn, Register, Deadline, Kill, OutlivesTerm, Again, Truncate,
       Save, Go, Outcome
<1>3. QED
    BY <1>1, <1>2

LEMMA SaveStep == IInv /\ [Next]_vars => SaveInv' /\ InfraOnlyAfterRetries'
<1> SUFFICES ASSUME IInv, [Next]_vars PROVE SaveInv' /\ InfraOnlyAfterRetries'
    OBVIOUS
<1> USE DEF IInv, SaveInv, InfraOnlyAfterRetries, Saving, Unsaved, Final, Whole, sweep, disk
<1>1. CASE Begin
    <2>1. SUFFICES ASSUME NEW s \in Seeds
                   PROVE  /\ w'[s] \in {"queued", "saved"}
                          /\ w'[s] = "saved" => record[s].kind = "model"
                          /\ w'[s] = "queued" /\ ~rerun' => record[s].kind # "model"
        BY <1>1 DEF Begin
    <2>2. QED
        BY <1>1 DEF Begin, Todo
<1>2. CASE Report \/ Signal
    <2>1. UNCHANGED <<w, last, record, rerun>>
        BY <1>2 DEF Report, Signal
    <2>2. QED
        BY <2>1
<1>3. CASE Killed \/ HandlerExits
    BY <1>3 DEF Killed, HandlerExits, Gone, Idle
<1>4. ASSUME NEW s \in Seeds, Work(s) PROVE SaveInv' /\ InfraOnlyAfterRetries'
    <2>1. /\ w'[s] \in Saving => Final(last'[s])
          /\ w'[s] = "writing" => record'[s].kind = "torn"
          /\ w'[s] = "saved" => Whole(record'[s])
          /\ ~rerun /\ w'[s] \in Unsaved => record'[s].kind # "model"
          /\ record'[s].kind = "infra" => record'[s].attempt = Retries + 1
        BY <1>4, WorkStep
    <2>2. QED
        BY <1>4, <2>1, WorkFrame
<1>5. ASSUME NEW p \in Procs,
             HandlerKills(p) \/ EpisodeWrites(p) \/ EpisodeWrote(p) \/ EpisodeEnds(p)
      PROVE  SaveInv' /\ InfraOnlyAfterRetries'
    BY <1>5 DEF HandlerKills, EpisodeWrites, EpisodeWrote, EpisodeEnds
<1>6. CASE UNCHANGED vars
    BY <1>6 DEF vars
<1>7. QED
    BY <1>1, <1>2, <1>3, <1>4, <1>5, <1>6 DEF Next
-----------------------------------------------------------------------------
\* The workers that wait for p are those AliveInv names, before and after.
LEMMA AliveStep == IInv /\ [Next]_vars => AliveInv'
<1> SUFFICES ASSUME IInv, [Next]_vars, NEW p \in Procs, phase'[p] # "off"
             PROVE  /\ p[1] <= run'
                    /\ p[1] = run' /\ mode' # "off" =>
                         /\ w'[p[2]] \in {"spawned", "waiting", "terminating"}
                         /\ p[3] = attempt'[p[2]]
    BY DEF AliveInv
<1> USE DEF IInv, TypeOK, sweep, disk
<1>1. p[1] \in 1 .. MaxRuns /\ p[2] \in Seeds /\ p[3] \in Attempts /\ p = <<p[1], p[2], p[3]>>
    BY DEF Procs
<1>2. CASE Begin
    BY <1>1, <1>2, SweepAssumption DEF Begin, AliveInv
<1>3. CASE Report
    BY <1>1, <1>3 DEF Report, AliveInv
<1>4. CASE Killed \/ HandlerExits
    BY <1>4 DEF Killed, HandlerExits, Gone, AliveInv
<1>5. CASE Signal
    BY <1>1, <1>5 DEF Signal, AliveInv
<1>6. ASSUME NEW s \in Seeds, Work(s)
      PROVE  /\ p[1] <= run'
             /\ p[1] = run' /\ mode' # "off" =>
                  /\ w'[p[2]] \in {"spawned", "waiting", "terminating"}
                  /\ p[3] = attempt'[p[2]]
    <2>0. Up /\ UNCHANGED sweep /\ run \in 1 .. MaxRuns /\ mode # "off"
        BY <1>6, WorkFrame DEF Up, PlaceInv
    <2>1. CASE Spawn(s) /\ p = Proc(s)
        BY <1>1, <2>0, <2>1 DEF Spawn, Proc, Go
    <2>2. CASE ~(Spawn(s) /\ p = Proc(s))
        <3>1. phase[p] # "off"
            BY <1>6, <2>0, <2>2 DEF Work, Take, Spawn, SpawnFails, Register, Deadline, Kill,
               Collect, Again, Truncate, Save
        <3>2. CASE p[1] # run \/ p[2] # s
            BY <1>1, <1>6, <2>0, <3>1, <3>2, WorkFrame DEF AliveInv
        <3>3. CASE p[1] = run /\ p[2] = s
            <4>1. w[s] \in {"spawned", "waiting", "terminating"} /\ p = Proc(s)
                BY <1>1, <2>0, <3>1, <3>3 DEF AliveInv, Proc
            <4>2. p \in Alive
                BY <3>1 DEF Alive
            <4>3. Register(s) \/ Deadline(s) \/ Kill(s)
                BY <1>6, <4>1, <4>2 DEF Work, Take, Spawn, SpawnFails, Collect, EndedProc,
                   Again, Truncate, Save
            <4>4. QED
                BY <1>1, <2>0, <4>1, <4>3, <3>3 DEF Register, Deadline, Kill, Go, Proc
        <3>4. QED
            BY <3>2, <3>3
    <2>3. QED
        BY <2>1, <2>2
<1>7. ASSUME NEW q \in Procs,
             HandlerKills(q) \/ EpisodeWrites(q) \/ EpisodeWrote(q) \/ EpisodeEnds(q)
      PROVE  /\ p[1] <= run'
             /\ p[1] = run' /\ mode' # "off" =>
                  /\ w'[p[2]] \in {"spawned", "waiting", "terminating"}
                  /\ p[3] = attempt'[p[2]]
    <2>1. UNCHANGED <<mode, run, w, attempt>>
        BY <1>7 DEF HandlerKills, EpisodeWrites, EpisodeWrote, EpisodeEnds
    <2>2. phase[p] # "off"
        BY <1>7 DEF HandlerKills, EpisodeWrites, EpisodeWrote, EpisodeEnds, Alive
    <2>3. QED
        BY <2>1, <2>2 DEF AliveInv
<1>8. CASE UNCHANGED vars
    BY <1>8 DEF vars, AliveInv
<1>9. QED
    BY <1>2, <1>3, <1>4, <1>5, <1>6, <1>7, <1>8 DEF Next

LEMMA Invariance == Spec => []IInv
<1>1. IInv /\ [Next]_vars => IInv'
    BY TypeStep, PlaceStep, SaveStep, AliveStep DEF IInv
<1>2. QED
    BY InitInv, <1>1, PTL DEF Spec
-----------------------------------------------------------------------------
\* Every variable of the sweep keeps its type; above all, no seed is given
\* more attempts than retries + 1.
THEOREM TypeCorrect == Spec => []TypeOK
<1>1. IInv => TypeOK
    BY DEF IInv
<1>2. QED
    BY Invariance, <1>1, PTL

\* work: an infrastructure error is saved only after the last attempt, also
\* while the handler is ending the episodes.
THEOREM RetriesExhausted == Spec => []InfraOnlyAfterRetries
<1>1. IInv => InfraOnlyAfterRetries
    BY DEF IInv
<1>2. QED
    BY Invariance, <1>1, PTL

\* build_report at the end of run_sweep never meets a missing or torn result
\* of a seed of the sweep.
THEOREM ReportComplete == Spec => []ReportIsWhole
<1>1. IInv => ReportIsWhole
    BY DEF IInv, PlaceInv, SaveInv, ReportIsWhole
<1>2. QED
    BY Invariance, <1>1, PTL

\* A sweep that reached its report has waited for, or killed, every episode it
\* started.
THEOREM NoStragglers == Spec => []ReportLeavesNone
<1>1. IInv => ReportLeavesNone
    BY DEF IInv, TypeOK, PlaceInv, AliveInv, ReportLeavesNone, Alive, Procs
<1>2. QED
    BY Invariance, <1>1, PTL

\* _load_existing and the todo list: without --rerun a model outcome on disk
\* is final, however often the sweep is killed and resumed.
THEOREM ModelOutcomesFinal == Spec => OutcomesKept
<1>1. IInv /\ [Next]_vars => [KeepsOutcomes]_vars
    <2> SUFFICES ASSUME IInv, Next, NEW s \in Seeds, record[s].kind = "model", ~rerun
                 PROVE  record'[s] = record[s]
        BY DEF KeepsOutcomes
    <2>1. w[s] \notin {"saving", "writing"}
        BY DEF IInv, SaveInv, Unsaved
    <2>2. ASSUME NEW t \in Seeds, Work(t) PROVE record'[s] = record[s]
        <3>1. CASE t = s
            BY <2>1, <2>2, <3>1, WorkStep
        <3>2. CASE t # s
            BY <2>2, <3>2, WorkFrame DEF IInv
        <3>3. QED
            BY <3>1, <3>2
    <2>3. CASE ~ \E t \in Seeds : Work(t)
        BY <2>3 DEF Next, Begin, Report, Killed, Signal, HandlerExits, Gone, HandlerKills,
           EpisodeWrites, EpisodeWrote, EpisodeEnds, disk
    <2>4. QED
        BY <2>2, <2>3
<1>2. QED
    BY Invariance, <1>1, PTL DEF Spec, OutcomesKept
-----------------------------------------------------------------------------
(* The pool, and what SweepEnds rests on besides fairness.                 *)

\* A seed is at work on one attempt at a time, and no attempt is left over
\* from an earlier run.
PoolInv ==
    /\ Cardinality(Busy) <= Concurrency
    /\ \A s \in Seeds : w[s] \in {"idle", "queued", "saved"} => attempt[s] = 0

\* The episodes of the run under way.
Own == {p \in Alive : p[1] = run}

\* --concurrency bounds the processes, not only the threads: no retry, no
\* deadline and no signal leaves an episode running beside its successor.
PoolIsBounded == Up => IsFiniteSet(Own) /\ Cardinality(Own) <= Concurrency

\* What a worker has still to do for its seed.  The end of a seed is the same
\* wherever it is come to; each retry has all the places of an attempt before it.
Ahead(s) ==
    CASE w[s] \in {"idle", "saved"} -> 0
      [] w[s] = "writing" -> 1
      [] w[s] = "saving" -> 2
      [] OTHER -> 3 + 7 * (Retries + 1 - attempt[s]) +
           CASE w[s] = "clearing" -> 6
             [] w[s] = "spawned" -> 5
             [] w[s] = "waiting" -> 4
             [] OutlivesTerm(s) -> 3
             [] w[s] = "terminating" /\ ~OutlivesTerm(s) -> 2
             [] w[s] = "pausing" -> 1
             [] w[s] = "queued" -> 0

\* While a sweep is up no step adds to what is ahead of a seed, and each step
\* of its worker takes something away: a worker is done after at most
\* 7 * (Retries + 1) + 3 steps of its own, however the episodes behave.
Advances ==
    Up /\ Up' => \A s \in Seeds :
        /\ Ahead(s) \in 0 .. 7 * (Retries + 1) + 3
        /\ Ahead(s)' <= Ahead(s)
        /\ Work(s) => Ahead(s)' < Ahead(s)

LEMMA BusyFinite == IsFiniteSet(Busy)
<1>1. Busy \in SUBSET Seeds
    BY DEF Busy
<1>2. QED
    BY <1>1, SeedsAssumption, FS_Subset

LEMMA PoolInit == Init => PoolInv
<1> SUFFICES ASSUME Init PROVE PoolInv
    OBVIOUS
<1>1. Busy = {}
    BY DEF Init, Busy, Idle, Working
<1>2. Cardinality(Busy) <= Concurrency
    BY <1>1, FS_EmptySet, SweepAssumption
<1>3. QED
    BY <1>2 DEF Init, PoolInv, Idle, NoAttempt

LEMMA PoolStep == IInv /\ PoolInv /\ [Next]_vars => PoolInv'
<1> SUFFICES ASSUME IInv, PoolInv, [Next]_vars PROVE PoolInv'
    OBVIOUS
<1> USE DEF IInv, TypeOK
<1>0. ASSUME Busy' \subseteq Busy PROVE Cardinality(Busy') <= Concurrency
    <2>1. /\ Cardinality(Busy') <= Cardinality(Busy)
          /\ Cardinality(Busy) \in Nat /\ Cardinality(Busy') \in Nat
        BY <1>0, BusyFinite, FS_Subset, FS_CardinalityType
    <2>2. QED
        BY <2>1, SweepAssumption DEF PoolInv
<1>1. CASE Begin
    <2>1. Busy' \subseteq Busy
        BY <1>1 DEF Begin, Busy, Working
    <2>2. \A s \in Seeds : attempt'[s] = 0
        BY <1>1 DEF Begin, PoolInv, PlaceInv, Idle
    <2>3. QED
        BY <1>0, <2>1, <2>2 DEF PoolInv
<1>2. CASE Killed \/ HandlerExits
    <2>1. Busy' \subseteq Busy /\ \A s \in Seeds : attempt'[s] = 0
        BY <1>2 DEF Killed, HandlerExits, Gone, Busy, Idle, NoAttempt, Working
    <2>2. QED
        BY <1>0, <2>1 DEF PoolInv
<1>3. ASSUME NEW s \in Seeds, Take(s) PROVE PoolInv'
    <2>1. Busy' = Busy \cup {s}
        BY <1>3 DEF Take, Go, Busy, Working
    <2>2. Cardinality(Busy') =
              IF s \in Busy THEN Cardinality(Busy) ELSE Cardinality(Busy) + 1
        BY <2>1, BusyFinite, FS_AddElement
    <2>3. Cardinality(Busy) < Concurrency /\ Cardinality(Busy) \in Nat
        BY <1>3, BusyFinite, FS_CardinalityType DEF Take
    <2>4. Cardinality(Busy') \in Nat
        BY <2>1, BusyFinite, FS_AddElement, FS_CardinalityType
    <2>5. Cardinality(Busy') <= Concurrency
        BY <2>2, <2>3, <2>4, SweepAssumption
    <2>6. QED
        BY <1>3, <2>5 DEF Take, Go, PoolInv
<1>4. ASSUME NEW s \in Seeds, Work(s), ~Take(s) PROVE PoolInv'
    <2>1. /\ w[s] \in Working
          /\ w'[s] \in {"idle", "queued", "saved"} => attempt'[s] = 0
        BY <1>4 DEF Work, Spawn, SpawnFails, Register, Deadline, Kill, OutlivesTerm, Collect,
           Again, Truncate, Save, Ended, Go, Working
    <2>2. w' \in [Seeds -> Working \cup {"idle", "queued", "saved"}]
        BY <1>4, TypeStep DEF Next
    <2>3. \A t \in Seeds \ {s} : w'[t] = w[t] /\ attempt'[t] = attempt[t]
        BY <1>4, WorkFrame
    <2>4. Busy' \subseteq Busy
        BY <2>1, <2>3 DEF Busy
    <2>5. QED
        BY <1>0, <2>1, <2>3, <2>4 DEF PoolInv
<1>5. CASE UNCHANGED <<w, attempt>>
    BY <1>5 DEF PoolInv, Busy
<1>6. QED
    BY <1>1, <1>2, <1>3, <1>4, <1>5
    DEF Next, Report, Signal, HandlerKills, EpisodeWrites, EpisodeWrote, EpisodeEnds, vars

\* Each episode of the run is the one a busy worker waits for, and a worker
\* waits for one: sending episodes to their seeds is an injection into Busy.
LEMMA OwnIsBounded == IInv /\ PoolInv => PoolIsBounded
<1> SUFFICES ASSUME IInv, PoolInv, Up PROVE IsFiniteSet(Own) /\ Cardinality(Own) <= Concurrency
    BY DEF PoolIsBounded
<1>1. ASSUME NEW p \in Own PROVE p[2] \in Busy /\ p = <<run, p[2], attempt[p[2]]>>
    <2>1. p \in Procs /\ phase[p] # "off" /\ p[1] = run /\ mode # "off"
        BY DEF Own, Alive, Up
    <2>2. p[2] \in Seeds /\ p = <<p[1], p[2], p[3]>>
        BY <2>1 DEF Procs
    <2>3. w[p[2]] \in {"spawned", "waiting", "terminating"} /\ p[3] = attempt[p[2]]
        BY <2>1 DEF IInv, AliveInv
    <2>4. QED
        BY <2>1, <2>2, <2>3 DEF Busy, Working
<1> DEFINE seedOf == [p \in Own |-> p[2]]
<1>2. seedOf \in Injection(Own, Busy)
    BY <1>1 DEF Injection, IsInjective
<1>3. /\ IsFiniteSet(Own) /\ Cardinality(Own) <= Cardinality(Busy)
    BY <1>2, BusyFinite, FS_Injection
<1>4. Cardinality(Own) \in Nat /\ Cardinality(Busy) \in Nat
    BY <1>3, BusyFinite, FS_CardinalityType
<1>5. QED
    BY <1>3, <1>4, SweepAssumption DEF PoolInv

\* The sweep never has more episodes running than its pool has workers, for
\* every number of seeds, workers and retries.
THEOREM ConcurrencyIsBounded == Spec => []PoolIsBounded
<1>1. Spec => []PoolInv
    BY PoolInit, PoolStep, Invariance, PTL DEF Spec
<1>2. QED
    BY <1>1, Invariance, OwnIsBounded, PTL
-----------------------------------------------------------------------------
\* What is ahead is bounded by the retries.
LEMMA AheadType ==
    ASSUME IInv, PoolInv, NEW s \in Seeds
    PROVE  Ahead(s) \in 0 .. 7 * (Retries + 1) + 3
<1>1. /\ attempt[s] \in 0 .. Retries + 1
      /\ w[s] \in Working => attempt[s] \in 1 .. Retries + 1
      /\ w[s] \in Working \cup {"idle", "queued", "saved"}
    BY DEF IInv, TypeOK, PlaceInv, Attempts
<1>2. CASE w[s] \in {"idle", "saved", "writing", "saving"}
    BY <1>2, SweepAssumption DEF Ahead
<1>3. CASE w[s] = "queued"
    BY <1>3, SweepAssumption DEF Ahead, OutlivesTerm, PoolInv
<1>4. CASE w[s] \in {"clearing", "spawned", "waiting", "terminating", "pausing"}
    BY <1>1, <1>4, SweepAssumption DEF Ahead, OutlivesTerm, Working
<1>5. QED
    BY <1>1, <1>2, <1>3, <1>4 DEF Working

\* A seed whose worker does not move has no more ahead of it, whatever becomes
\* of its episode, as no process comes to life but by Spawn.
LEMMA AheadStays ==
    ASSUME TypeOK, NEW s \in Seeds, w'[s] = w[s], attempt'[s] = attempt[s],
           OutlivesTerm(s)' => OutlivesTerm(s)
    PROVE  Ahead(s)' <= Ahead(s)
<1>1. /\ attempt[s] \in 0 .. Retries + 1
      /\ w[s] \in Working \cup {"idle", "queued", "saved"}
    BY DEF TypeOK
<1>2. CASE w[s] = "terminating"
    BY <1>1, <1>2, SweepAssumption DEF Ahead
<1>3. CASE w[s] # "terminating"
    <2>1. ~OutlivesTerm(s) /\ ~OutlivesTerm(s)'
        BY <1>3 DEF OutlivesTerm
    <2>2. QED
        BY <1>1, <1>3, <2>1, SweepAssumption DEF Ahead, Working
<1>4. QED
    BY <1>2, <1>3

\* The worker of s takes one of its steps.
LEMMA WorkAdvances ==
    ASSUME IInv, PoolInv, NEW s \in Seeds, Work(s)
    PROVE  Ahead(s)' < Ahead(s) /\ Ahead(s)' <= Ahead(s)
<1> USE SweepAssumption DEF Working
<1>1. /\ attempt[s] \in 0 .. Retries + 1
      /\ w[s] \in Working => attempt[s] \in 1 .. Retries + 1
      /\ w[s] = "queued" => attempt[s] = 0
      /\ w \in [Seeds -> Working \cup {"idle", "queued", "saved"}]
      /\ attempt \in [Seeds -> 0 .. Retries + 1]
    BY DEF IInv, TypeOK, PlaceInv, PoolInv, Attempts
<1>2. CASE Take(s)
    <2>1. w[s] = "queued" /\ w'[s] = "clearing" /\ attempt'[s] = 1
        BY <1>1, <1>2 DEF Take, Go
    <2>2. QED
        BY <1>1, <2>1 DEF Ahead, OutlivesTerm
<1>3. CASE Spawn(s) \/ Register(s)
    <2>1. /\ attempt'[s] = attempt[s]
          /\ \/ w[s] = "clearing" /\ w'[s] = "spawned"
             \/ w[s] = "spawned" /\ w'[s] = "waiting"
        BY <1>1, <1>3 DEF Spawn, Register, Go
    <2>2. QED
        BY <1>1, <2>1 DEF Ahead, OutlivesTerm
<1>4. CASE Deadline(s)
    <2>1. attempt'[s] = attempt[s] /\ w[s] = "waiting" /\ w'[s] = "terminating"
        BY <1>1, <1>4 DEF Deadline, Go
    <2>2. QED
        BY <1>1, <2>1 DEF Ahead, OutlivesTerm
<1>5. CASE Kill(s)
    <2>1. /\ attempt'[s] = attempt[s] /\ w[s] = "terminating" /\ w'[s] = w[s]
          /\ OutlivesTerm(s) /\ Proc(s)' = Proc(s)
        BY <1>5 DEF Kill, OutlivesTerm, Proc, sweep
    <2>2. Proc(s) \in Procs
        BY <2>1 DEF OutlivesTerm, Alive
    <2>3. phase'[Proc(s)] = "off"
        BY <1>5, <2>2 DEF Kill, IInv, TypeOK
    <2>4. ~OutlivesTerm(s)'
        BY <2>1, <2>3 DEF OutlivesTerm, Alive
    <2>5. QED
        BY <1>1, <2>1, <2>4 DEF Ahead
<1>6. CASE SpawnFails(s) \/ Collect(s)
    <2>1. /\ attempt'[s] = attempt[s]
          /\ w[s] \in {"clearing", "waiting", "terminating"}
          /\ w'[s] \in {"pausing", "saving"}
        BY <1>1, <1>6 DEF SpawnFails, Collect, Ended, Go
    <2>2. QED
        BY <1>1, <2>1 DEF Ahead, OutlivesTerm
<1>7. CASE Again(s)
    <2>1. attempt'[s] = attempt[s] + 1 /\ w[s] = "pausing" /\ w'[s] = "clearing"
        BY <1>1, <1>7 DEF Again, Go
    <2>2. QED
        BY <1>1, <2>1 DEF Ahead, OutlivesTerm
<1>8. CASE Truncate(s) \/ Save(s)
    BY <1>1, <1>8 DEF Truncate, Save, Go, Ahead
<1>9. QED
    BY <1>2, <1>3, <1>4, <1>5, <1>6, <1>7, <1>8 DEF Work

LEMMA StepAdvances == IInv /\ PoolInv /\ [Next]_vars => Advances
<1> SUFFICES ASSUME IInv, PoolInv, [Next]_vars, Up, Up', NEW t \in Seeds
             PROVE  Ahead(t)' <= Ahead(t)
    BY AheadType, WorkAdvances DEF Advances
<1> USE DEF IInv
<1>1. ASSUME NEW s \in Seeds, Work(s) PROVE Ahead(t)' <= Ahead(t)
    <2>1. CASE s = t
        BY <1>1, <2>1, WorkAdvances
    <2>2. CASE s # t
        <3>1. w'[t] = w[t] /\ attempt'[t] = attempt[t] /\ run' = run
            BY <1>1, <2>2, WorkFrame DEF sweep
        <3>2. ASSUME OutlivesTerm(t)' PROVE OutlivesTerm(t)
            <4>1. Proc(t)' = Proc(t) /\ Proc(t) # Proc(s)
                BY <2>2, <3>1 DEF Proc
            <4>2. Proc(t) \in Procs /\ phase'[Proc(t)] # "off"
                BY <3>2, <4>1 DEF OutlivesTerm, Alive
            <4>3. phase[Proc(t)] # "off"
                BY <1>1, <4>1, <4>2 DEF Work, Take, Spawn, SpawnFails, Register, Deadline,
                   Kill, Collect, Again, Truncate, Save, TypeOK
            <4>4. QED
                BY <3>1, <3>2, <4>2, <4>3 DEF OutlivesTerm, Alive, TypeOK
        <3>3. QED
            BY <3>1, <3>2, AheadStays
    <2>3. QED
        BY <2>1, <2>2
<1>2. ASSUME UNCHANGED <<run, w, attempt>>,
             \A p \in Procs : phase'[p] # "off" => phase[p] # "off"
      PROVE  Ahead(t)' <= Ahead(t)
    <2>1. Proc(t)' = Proc(t)
        BY <1>2 DEF Proc
    <2>2. OutlivesTerm(t)' => OutlivesTerm(t)
        BY <1>2, <2>1 DEF OutlivesTerm, Alive, TypeOK
    <2>3. QED
        BY <1>2, <2>2, AheadStays
<1>3. CASE Signal
    BY <1>2, <1>3 DEF Signal
<1>4. ASSUME NEW p \in Procs,
             HandlerKills(p) \/ EpisodeWrites(p) \/ EpisodeWrote(p) \/ EpisodeEnds(p)
      PROVE  Ahead(t)' <= Ahead(t)
    <2>1. UNCHANGED <<run, w, attempt>>
        BY <1>4 DEF HandlerKills, EpisodeWrites, EpisodeWrote, EpisodeEnds, sweep
    <2>2. \A q \in Procs : phase'[q] # "off" => phase[q] # "off"
        BY <1>4 DEF HandlerKills, EpisodeWrites, EpisodeWrote, EpisodeEnds, TypeOK, Alive
    <2>3. QED
        BY <1>2, <2>1, <2>2
<1>5. CASE UNCHANGED vars
    BY <1>2, <1>5 DEF vars
<1>6. QED
    BY <1>1, <1>3, <1>4, <1>5 DEF Next, Begin, Report, Killed, HandlerExits, Gone, Up

\* A run of the sweep cannot go round in circles: signals, deadlines, retries
\* and hanging episodes only ever take a worker nearer to its saved result.
THEOREM WorkersAdvance == Spec => [][Advances]_vars
<1>1. Spec => []PoolInv
    BY PoolInit, PoolStep, Invariance, PTL DEF Spec
<1>2. QED
    BY <1>1, Invariance, StepAdvances, PTL DEF Spec
=============================================================================
