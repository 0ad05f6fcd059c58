----------------------------- MODULE CronProofs -----------------------------
(***************************************************************************)
(* Type correctness of Cron, the bound on the probe window's verdict, what *)
(* it may blame a fixed world for, and when it sees an unfixed one, for    *)
(* every schedule and moment of the resolve and however long the runs are, *)
(* also when they outlast the minute or the lock wait.                     *)
(***************************************************************************)
EXTENDS Cron, TLAPS

\* Where the check can be at any time: it never waits past its deadline by
\* more than one look, and each probe starts inside the window.
LastLook == LockWait + Look + Pause

CheckInv ==
    /\ phase \in Verifying => began <= now
    /\ phase = "lockwait" =>
         /\ nextAt <= began + LastLook
         /\ nextAt < began + LockWait => now <= nextAt + Look
         /\ nextAt >= began + LockWait => now <= nextAt
    /\ phase \in {"waiting", "probing"} =>
         /\ began <= started /\ started <= began + LastLook
    /\ phase = "waiting" =>
         /\ now <= nextAt
         /\ nextAt <= started + Window + Busy + Interval
    /\ phase = "probing" =>
         /\ now <= nextAt + Busy
         /\ nextAt < started + Window

IInv == TypeOK /\ CheckInv
-----------------------------------------------------------------------------
\* A full minute is never later than the time it is taken from.
LEMMA MinuteBefore ==
    ASSUME NEW t \in Nat, NEW m \in Nat \ {0}
    PROVE  /\ t \div m \in Nat
           /\ (t \div m) * m <= t
  BY SMTT(30)

LEMMA InitInv == Init => IInv
  <1> SUFFICES ASSUME Init PROVE IInv
    OBVIOUS
  <1>1. TypeOK
    <2>1. now \in Nat /\ hold \in Holds
      BY TimesAssumption DEF Init
    <2>2. lastMinute * Minute <= now
      BY <2>1, TimesAssumption DEF Init, None
    <2>3. logged \in BOOLEAN /\ skipped \in BOOLEAN /\ lapped \in BOOLEAN
      BY Zenon DEF Init
    <2> QED
      BY <2>1, <2>2, <2>3 DEF Init, TypeOK, Verifying, None
  <1>2. CheckInv
    BY DEF Init, CheckInv, Verifying
  <1> QED
    BY <1>1, <1>2 DEF IInv

LEMMA TypeStep == TypeOK /\ [Next]_vars => TypeOK'
  <1> SUFFICES ASSUME TypeOK, [Next]_vars PROVE TypeOK'
    OBVIOUS
  <1> USE TimesAssumption DEF TypeOK, Verifying, None, cronVars, probeVars, fixVars
  <1>1. CASE CronTick
    <2>1. lastMinute' \in Nat /\ lastMinute' * Minute <= now
      BY <1>1, MinuteBefore DEF CronTick, ThisMinute
    <2>2. skipped' \in BOOLEAN
      BY <1>1, Zenon DEF CronTick, RunJob
    <2>3. job' \in {"idle", "starting", "holding"}
      BY <1>1 DEF CronTick, RunJob
    <2>4. jobAt' \in Nat /\ jobAt' <= now
      BY <1>1 DEF CronTick, RunJob
    <2>5. UNCHANGED <<now, phase, began, started, nextAt, opened, logged, fixVars>>
      BY <1>1 DEF CronTick
    <2>6. lapped' \in BOOLEAN
      BY <1>1, Zenon DEF CronTick, RunJob
    <2> QED
      BY <2>1, <2>2, <2>3, <2>4, <2>5, <2>6
  <1>2. CASE JobLocks
    BY <1>2 DEF JobLocks
  <1>3. CASE JobEnds
    BY <1>3 DEF JobEnds
  <1>4. CASE AgentActs
    BY <1>4 DEF AgentActs
  <1>5. CASE Resolve
    BY <1>5 DEF Resolve
  <1>6. CASE OpenWindow
    <2>1. opened' \in {"not", "clear", "starting", "held"}
      BY <1>6 DEF OpenWindow
    <2>2. lapped' \in BOOLEAN
      BY <1>6, Zenon DEF OpenWindow, JustSkipped
    <2> QED
      BY <1>6, <2>1, <2>2 DEF OpenWindow
  <1>7. CASE LookAgain
    BY <1>7 DEF LookAgain
  <1>8. CASE Probe
    BY <1>8 DEF Probe
  <1>9. CASE ProbeSucceeds
    BY <1>9 DEF ProbeSucceeds, NextProbe
  <1>10. CASE ProbeFails
    BY <1>10 DEF ProbeFails
  <1>11. CASE TrafficFails
    BY <1>11 DEF TrafficFails
  <1>12. CASE WindowEnds
    BY <1>12 DEF WindowEnds
  <1>13. CASE Pass
    <2>1. now' \in Nat /\ jobAt' <= now'
      BY <1>13 DEF Pass
    <2>2. lastMinute' * Minute <= now'
      <3>1. lastMinute * Minute \in Int
        OBVIOUS
      <3> QED
        BY <1>13, <3>1 DEF Pass
    <2> QED
      BY <1>13, <2>1, <2>2 DEF Pass
  <1>14. CASE UNCHANGED vars
    BY <1>14 DEF vars
  <1>15. CASE Done
    BY <1>15 DEF Done, vars
  <1> QED
    BY <1>1, <1>2, <1>3, <1>4, <1>5, <1>6, <1>7, <1>8, <1>9, <1>10, <1>11,
       <1>12, <1>13, <1>14, <1>15 DEF Next

LEMMA CheckStep == IInv /\ [Next]_vars => CheckInv'
  <1> SUFFICES ASSUME IInv, [Next]_vars PROVE CheckInv'
    OBVIOUS
  <1>1. CASE CronTick \/ JobLocks \/ JobEnds \/ AgentActs \/ TrafficFails
    <2>1. UNCHANGED <<now, phase, began, started, nextAt>>
      BY <1>1 DEF CronTick, JobLocks, JobEnds, AgentActs, TrafficFails, probeVars
    <2> QED
      BY <2>1 DEF IInv, CheckInv, LastLook, Verifying
  <1> USE TimesAssumption DEF IInv, TypeOK, CheckInv, LastLook, Verifying
  <1>2. CASE Resolve
    BY <1>2 DEF Resolve
  <1>3. CASE OpenWindow
    BY <1>3 DEF OpenWindow, MayOpen
  <1>4. CASE LookAgain
    BY <1>4 DEF LookAgain
  <1>5. CASE Probe
    BY <1>5 DEF Probe, InWindow
  <1>6. CASE ProbeSucceeds
    BY <1>6 DEF ProbeSucceeds, NextProbe
  <1>7. CASE ProbeFails \/ WindowEnds
    BY <1>7 DEF ProbeFails, WindowEnds
  <1>8. CASE Pass
    BY <1>8 DEF Pass, Overdue, probeVars
  <1>9. CASE UNCHANGED vars \/ Done
    BY <1>9 DEF vars, Done, probeVars
  <1> QED
    BY <1>1, <1>2, <1>3, <1>4, <1>5, <1>6, <1>7, <1>8, <1>9 DEF Next

\* Every reachable state is well typed: no run of the job lies in the
\* future and no minute is acted on before it comes.
THEOREM TypeCorrect == Spec => []TypeOK
  <1>1. Init => TypeOK
    BY InitInv DEF IInv
  <1> QED
    BY <1>1, TypeStep, PTL DEF Spec

\* check_probe_window (verify.py) decides within the sum of its waits, for
\* every hold time, every schedule and every moment it is called at.
THEOREM DecidesInTime == Spec => []VerdictInTime
  <1>1. IInv /\ [Next]_vars => IInv'
    BY TypeStep, CheckStep DEF IInv
  <1>2. IInv => VerdictInTime
    <2> SUFFICES ASSUME IInv, phase \in Verifying
                 PROVE  now - began <= LockWait + Look + Pause + Window + Interval + Busy
      BY DEF VerdictInTime
    <2> QED
      BY TimesAssumption DEF IInv, TypeOK, CheckInv, LastLook, Verifying
  <1> QED
    BY InitInv, <1>1, <1>2, PTL DEF Spec
-----------------------------------------------------------------------------
\* A run begins and ends in time.
JobInv ==
    /\ job = "starting" => now <= jobAt + StartUp
    /\ job = "holding" => now <= jobAt + hold

\* A run may be under way when the check begins in a fixed world, none starts
\* afterwards.
BlamedFor == opened = "starting" \/ (opened = "held" /\ StartUp + hold >= LockWait)

FixedInv ==
    /\ phase \in {"working", "lockwait"} => ~logged
    /\ ~Unfixed /\ phase = "lockwait" =>
         /\ job = "starting" => jobAt <= began
         /\ job = "holding" => jobAt <= began + StartUp
    /\ ~Unfixed /\ phase \in {"waiting", "probing", "passed", "failed"} =>
         BlamedFor \/ (job = "idle" /\ ~logged /\ phase # "failed")

LEMMA JobStep == TypeOK /\ JobInv /\ [Next]_vars => JobInv'
  <1> SUFFICES ASSUME TypeOK, JobInv, [Next]_vars PROVE JobInv'
    OBVIOUS
  <1> USE TimesAssumption DEF TypeOK, JobInv, cronVars, probeVars, fixVars
  <1>0. hold \in Nat /\ StartUp \in Nat
    OBVIOUS
  <1>1. CASE CronTick
    BY <1>0, <1>1 DEF CronTick, RunJob
  <1>2. CASE JobLocks
    BY <1>0, <1>2 DEF JobLocks
  <1>3. CASE JobEnds
    BY <1>3 DEF JobEnds
  <1>4. CASE AgentActs \/ Resolve \/ OpenWindow \/ LookAgain \/ Probe \/ ProbeSucceeds
             \/ ProbeFails \/ TrafficFails \/ WindowEnds \/ Done \/ UNCHANGED vars
    <2>1. UNCHANGED <<now, job, jobAt, hold>>
      BY <1>4 DEF AgentActs, Resolve, OpenWindow, LookAgain, Probe, ProbeSucceeds,
         ProbeFails, TrafficFails, WindowEnds, Done, vars
    <2> QED
      BY <2>1
  <1>5. CASE Pass
    BY <1>0, <1>5 DEF Pass, Overdue
  <1> QED
    BY <1>1, <1>2, <1>3, <1>4, <1>5 DEF Next

LEMMA FixedStep == TypeOK /\ JobInv /\ FixedInv /\ [Next]_vars => FixedInv'
  <1> SUFFICES ASSUME TypeOK, JobInv, FixedInv, [Next]_vars PROVE FixedInv'
    OBVIOUS
  <1> USE DEF FixedInv, BlamedFor, cronVars, probeVars, fixVars
  <1>0. hold \in Nat /\ StartUp \in Nat
        /\ now \in Nat /\ jobAt \in Nat /\ jobAt <= now /\ began \in Nat
        /\ LockWait \in Nat /\ hold \in Holds
    BY TimesAssumption DEF TypeOK
  <1>1. CASE CronTick
    BY <1>1 DEF CronTick, Unfixed
  <1>2. CASE JobLocks
    BY <1>0, <1>2 DEF JobLocks, Unfixed, JobInv
  <1>3. CASE JobEnds
    BY <1>3 DEF JobEnds, Unfixed
  <1>4. CASE AgentActs
    BY <1>4 DEF AgentActs, Unfixed
  <1>5. CASE Resolve
    BY <1>0, <1>5 DEF Resolve, Unfixed
  <1>6. CASE OpenWindow
    <2>1. /\ UNCHANGED <<now, entry, script, hold, job, jobAt, began, logged>>
          /\ phase = "lockwait" /\ phase' = "waiting"
          /\ job = "starting" => opened' = "starting"
          /\ job = "holding" => opened' = "held" /\ now >= began + LockWait
      BY <1>6 DEF OpenWindow, MayOpen, LockFree
    <2>2. ~Unfixed /\ job = "holding" => StartUp + hold >= LockWait
      BY <1>0, <2>1 DEF JobInv
    <2> QED
      BY <2>1, <2>2 DEF Unfixed, TypeOK
  <1>7. CASE LookAgain \/ Probe \/ ProbeSucceeds
    BY <1>7 DEF LookAgain, Probe, ProbeSucceeds, NextProbe, Unfixed
  <1>8. CASE ProbeFails \/ TrafficFails \/ WindowEnds
    BY <1>8 DEF ProbeFails, TrafficFails, WindowEnds, LockFree, Unfixed
  <1>9. CASE Pass \/ Done \/ UNCHANGED vars
    BY <1>9 DEF Pass, Done, vars, Unfixed
  <1> QED
    BY <1>1, <1>2, <1>3, <1>4, <1>5, <1>6, <1>7, <1>8, <1>9 DEF Next

\* A fixed world fails the probe window only for a run of the job that was
\* under way when the lock wait ended: without the lock yet, or with a hold
\* that is longer than the whole lock wait.
THEOREM FixedNotBlamed == Spec => []FixedIsNotBlamed
  <1>1. Init => JobInv /\ FixedInv
    BY DEF Init, JobInv, FixedInv
  <1>2. FixedInv => FixedIsNotBlamed
    BY DEF FixedInv, BlamedFor, FixedIsNotBlamed
  <1> QED
    BY <1>1, <1>2, TypeCorrect, JobStep, FixedStep, PTL DEF Spec
-----------------------------------------------------------------------------
(* Minutes.                                                                *)

\* The runner acts on a minute in time, on the first one of the episode too.
ClockInv ==
    /\ lastMinute # None => /\ Full(lastMinute) + FirstSecond <= now
                            /\ now <= Full(lastMinute + 1) + FirstSecond + Poll
    /\ lastMinute = None => job = "idle"
    /\ lastMinute = None /\ phase \in Verifying =>
         now = began \/ now % Minute <= FirstSecond + Poll
    /\ phase \in {"waiting", "probing"} =>
         /\ started <= now
         /\ lastMinute = None => /\ now - started <= now % Minute
                                 /\ now <= started + FirstSecond + Poll

\* Unless it was skipped, the latest run belongs to the minute acted on last.
RunInv ==
    Unfixed /\ ~skipped /\ lastMinute # None =>
        /\ job # "idle" => Full(lastMinute) + FirstSecond <= jobAt
        /\ job = "idle" => Full(lastMinute) + FirstSecond + hold <= now

\* A lock taken before this time is met by a probe of the window.
Latest == started + Window - Interval

\* In a world that still has its job, a run takes the lock before that time,
\* and a probe then comes while it holds it.  A run that the window opened in
\* may end first, if it lets the first probe through.
WindowInv ==
    Unfixed /\ phase \in {"waiting", "probing"} /\ ~lapped =>
        /\ job # "holding" => nextAt <= now + Interval
        /\ job = "idle" /\ lastMinute # None =>
             Full(lastMinute + 1) + FirstSecond + Poll + StartUp < Latest
        /\ job = "starting" => jobAt + StartUp < Latest
        /\ job = "holding" /\ jobAt >= started =>
             jobAt < Latest /\ nextAt <= jobAt + Interval
        /\ job = "holding" /\ jobAt < started =>
             /\ opened = "held" /\ nextAt = started
             /\ skipped => Full(lastMinute) + FirstSecond + Poll + StartUp < started
-----------------------------------------------------------------------------
LEMMA FullNext == \A m \in Int : Full(m) \in Int /\ Full(m + 1) = Full(m) + Minute
  BY TimesAssumption, SMTT(30) DEF Full

LEMMA FullMonotone ==
    ASSUME NEW m \in Int, NEW n \in Int, m < n
    PROVE  Full(m) + Minute <= Full(n)
  <1>1. PICK d \in Nat : n = m + 1 + d
    <2>1. n - m - 1 \in Nat /\ n = m + 1 + (n - m - 1)
      OBVIOUS
    <2> QED
      BY <2>1
  <1>2. d * Minute \in Nat
    BY TimesAssumption, SMTT(30)
  <1>3. (m + 1 + d) * Minute = m * Minute + Minute + d * Minute
    BY TimesAssumption, SMTT(30)
  <1>4. m * Minute \in Int
    BY TimesAssumption, SMTT(30)
  <1> QED
    BY <1>1, <1>2, <1>3, <1>4, TimesAssumption DEF Full

\* A time is a full minute and what has passed of that minute.
LEMMA QuotientAndRest ==
    ASSUME NEW t \in Nat, NEW m \in Nat \ {0}
    PROVE  t % m \in Nat /\ t % m < m /\ t = (t \div m) * m + (t % m)
  <1>1. t % m \in Nat /\ t % m < m
    BY SMTT(30)
  <1>2. t = (t \div m) * m + (t % m)
    BY SMTT(30)
  <1> QED
    BY <1>1, <1>2

LEMMA Division ==
    ASSUME NEW t \in Nat
    PROVE  /\ t \div Minute \in Nat /\ t % Minute \in Nat /\ t % Minute < Minute
           /\ t = Full(t \div Minute) + (t % Minute)
  BY QuotientAndRest, MinuteBefore, TimesAssumption, Zenon DEF Full

\* And only one minute and one rest make up a time.
LEMMA DivisionUnique ==
    ASSUME NEW t \in Nat, NEW q \in Nat, NEW c \in Nat, c < Minute, t = Full(q) + c
    PROVE  t \div Minute = q /\ t % Minute = c
  <1> DEFINE d == t \div Minute
             r == t % Minute
  <1>1. d \in Nat /\ r \in Nat /\ r < Minute /\ t = Full(d) + r
    BY Division
  <1> HIDE DEF d, r
  <1>2. Full(d) \in Int /\ Full(q) \in Int /\ Minute \in Nat
    BY <1>1, FullNext, TimesAssumption
  <1>3. ~ (d < q)
    BY <1>1, <1>2, FullMonotone
  <1>4. ~ (q < d)
    BY <1>1, <1>2, FullMonotone
  <1>5. d = q
    BY <1>1, <1>3, <1>4
  <1> QED
    BY <1>1, <1>2, <1>5 DEF d, r

\* Inside a minute, time and the rest advance together.
LEMMA NextMoment ==
    ASSUME NEW t \in Nat, (t % Minute) + 1 < Minute
    PROVE  (t + 1) % Minute = (t % Minute) + 1
  <1> DEFINE q == t \div Minute
             r == t % Minute
  <1>1. q \in Nat /\ r \in Nat /\ t = Full(q) + r
    BY Division
  <1> HIDE DEF q, r
  <1>2. t + 1 = Full(q) + (r + 1) /\ r + 1 < Minute
    BY <1>1, FullNext DEF r
  <1> QED
    BY <1>1, <1>2, DivisionUnique DEF r
-----------------------------------------------------------------------------
\* What the steps below compute with.
LEMMA Numbers ==
    ASSUME TypeOK
    PROVE  /\ now \in Nat /\ began \in Nat /\ started \in Nat /\ nextAt \in Nat
           /\ jobAt \in Nat /\ jobAt <= now /\ hold \in Nat /\ hold \in Holds
           /\ lastMinute \in Int /\ (lastMinute = None \/ lastMinute \in Nat)
           /\ Full(lastMinute) \in Int /\ Full(lastMinute) <= now
           /\ Full(lastMinute + 1) = Full(lastMinute) + Minute
           /\ {Minute, FirstSecond, Poll, StartUp, Window, Interval, Busy, LockWait}
                 \subseteq Nat
           /\ Minute > 0 /\ Window > 0 /\ Interval > 0 /\ Busy > 0
           /\ skipped \in BOOLEAN /\ lapped \in BOOLEAN
  <1>1. lastMinute \in Int
    BY DEF TypeOK, None
  <1>2. /\ now \in Nat /\ began \in Nat /\ started \in Nat /\ nextAt \in Nat
        /\ jobAt \in Nat /\ jobAt <= now /\ hold \in Nat /\ hold \in Holds
        /\ (lastMinute = None \/ lastMinute \in Nat)
    BY TimesAssumption DEF TypeOK
  <1>3. Full(lastMinute) <= now
    BY DEF TypeOK, Full
  <1>4. skipped \in BOOLEAN /\ lapped \in BOOLEAN
    BY DEF TypeOK
  <1> QED
    BY <1>1, <1>2, <1>3, <1>4, FullNext, TimesAssumption

\* When a minute is due it is a later one than the last, and its first second
\* has come.
LEMMA DueMinute ==
    ASSUME TypeOK, Due
    PROVE  /\ ThisMinute \in Nat /\ Full(ThisMinute) \in Int
           /\ Full(ThisMinute) + FirstSecond <= now /\ now < Full(ThisMinute) + Minute
           /\ Full(ThisMinute + 1) = Full(ThisMinute) + Minute
           /\ lastMinute # None => Full(lastMinute) + Minute <= Full(ThisMinute)
           /\ now - Full(ThisMinute) = now % Minute
  <1>1. /\ ThisMinute \in Nat /\ now % Minute \in Nat /\ now % Minute < Minute
        /\ now = Full(ThisMinute) + (now % Minute)
    BY Division, Numbers DEF ThisMinute
  <1>2. Full(ThisMinute) \in Int /\ Full(ThisMinute + 1) = Full(ThisMinute) + Minute
    BY <1>1, FullNext
  <1>3. lastMinute # None => Full(lastMinute) + Minute <= Full(ThisMinute)
    <2>1. ~ (ThisMinute < lastMinute)
      BY <1>1, <1>2, Numbers, FullMonotone
    <2>2. ThisMinute # lastMinute
      BY DEF Due
    <2>3. lastMinute < ThisMinute
      BY <1>1, <2>1, <2>2, Numbers
    <2> QED
      BY <1>1, <2>3, Numbers, FullMonotone
  <1>4. FirstSecond <= now % Minute
    BY <1>1, Numbers DEF Due
  <1> QED
    BY <1>1, <1>2, <1>3, <1>4, Numbers

\* While a minute is acted on late or not at all, time does not go on.
LEMMA ClockGoesOn ==
    ASSUME TypeOK, ClockInv, Pass
    PROVE  /\ lastMinute # None => now < Full(lastMinute + 1) + FirstSecond + Poll
           /\ lastMinute = None =>
                now % Minute < FirstSecond + Poll /\ now' % Minute = (now % Minute) + 1
  <1>1. Due => now % Minute < FirstSecond + Poll
    BY Division, Numbers DEF Pass, Overdue
  <1>2. CASE lastMinute # None
    <2>1. ASSUME now = Full(lastMinute + 1) + FirstSecond + Poll PROVE FALSE
      <3>1. FirstSecond + Poll \in Nat /\ FirstSecond + Poll < Minute
            /\ lastMinute + 1 \in Nat
            /\ now = Full(lastMinute + 1) + (FirstSecond + Poll)
        BY <1>2, <2>1, Numbers, PeriodsAssumption
      <3>2. now \div Minute = lastMinute + 1 /\ now % Minute = FirstSecond + Poll
        BY <3>1, Numbers, DivisionUnique
      <3>3. Due
        BY <3>2, Numbers DEF Due, ThisMinute
      <3> QED
        BY <1>1, <3>2, <3>3, Numbers
    <2> QED
      BY <1>2, <2>1, Numbers DEF ClockInv
  <1>3. CASE lastMinute = None
    <2>1. now % Minute \in Nat /\ ThisMinute \in Nat
      BY Division, Numbers DEF ThisMinute
    <2>2. now % Minute < FirstSecond + Poll
      BY <1>1, <1>3, <2>1, Numbers DEF Due, None
    <2>3. (now + 1) % Minute = (now % Minute) + 1
      BY <2>1, <2>2, Numbers, NextMoment, PeriodsAssumption
    <2> QED
      BY <1>3, <2>2, <2>3 DEF Pass
  <1> QED
    BY <1>2, <1>3

LEMMA ClockStep == TypeOK /\ ClockInv /\ [Next]_vars => ClockInv'
  <1> SUFFICES ASSUME TypeOK, ClockInv, [Next]_vars PROVE ClockInv'
    OBVIOUS
  <1> USE DEF cronVars, probeVars, fixVars
  <1>1. CASE CronTick
    <2>1. Due /\ lastMinute' = ThisMinute /\ UNCHANGED <<now, phase, started, began>>
      BY <1>1 DEF CronTick
    <2>2. /\ lastMinute' # None /\ Full(lastMinute') + FirstSecond <= now'
          /\ now' <= Full(lastMinute' + 1) + FirstSecond + Poll
      BY <2>1, DueMinute, Numbers DEF None
    <2> QED
      BY <2>1, <2>2 DEF ClockInv, Full
  <1>2. CASE JobLocks
    BY <1>2 DEF JobLocks, ClockInv, Full
  <1>3. CASE JobEnds
    BY <1>3 DEF JobEnds, ClockInv, Full
  <1>4. CASE Resolve
    BY <1>4 DEF Resolve, ClockInv, Full
  <1>5. CASE OpenWindow
    <2>1. now % Minute \in Nat
      BY Division, Numbers
    <2>2. /\ UNCHANGED <<now, lastMinute, job, began>> /\ started' = now
          /\ phase = "lockwait" /\ phase' = "waiting"
      BY <1>5 DEF OpenWindow
    <2>3. started' <= now' /\ now' - started' <= now' % Minute
          /\ now' <= started' + FirstSecond + Poll
      BY <2>1, <2>2, Numbers
    <2> QED
      BY <2>2, <2>3 DEF ClockInv, Full, Verifying
  <1>6. CASE Pass
    <2>1. UNCHANGED <<lastMinute, job, phase, began, started>> /\ now' = now + 1
      BY <1>6 DEF Pass
    <2>2. lastMinute # None => /\ Full(lastMinute) + FirstSecond <= now'
                               /\ now' <= Full(lastMinute + 1) + FirstSecond + Poll
      BY <1>6, <2>1, ClockGoesOn, Numbers DEF ClockInv
    <2>3. lastMinute = None => now' % Minute <= FirstSecond + Poll
      BY <1>6, <2>1, ClockGoesOn, Numbers, Division
    <2>4. ASSUME phase \in {"waiting", "probing"}
          PROVE  /\ started' <= now'
                 /\ lastMinute = None => /\ now' - started' <= now' % Minute
                                         /\ now' <= started' + FirstSecond + Poll
      <3>1. started <= now /\ (lastMinute = None => now - started <= now % Minute)
        BY <2>4 DEF ClockInv
      <3>2. now % Minute \in Nat
        BY Division, Numbers
      <3> QED
        BY <1>6, <2>1, <2>3, <3>1, <3>2, ClockGoesOn, Numbers
    <2> QED
      BY <2>1, <2>2, <2>3, <2>4 DEF ClockInv, Full
  <1>7. CASE AgentActs \/ LookAgain \/ Probe \/ ProbeSucceeds \/ ProbeFails
             \/ TrafficFails \/ WindowEnds \/ Done \/ UNCHANGED vars
    <2>1. /\ UNCHANGED <<now, lastMinute, job, began>>
          /\ phase' \in {"waiting", "probing"} =>
                phase \in {"waiting", "probing"} /\ UNCHANGED started
          /\ phase' \in Verifying => phase \in Verifying
      BY <1>7 DEF AgentActs, LookAgain, Probe, ProbeSucceeds, NextProbe, ProbeFails,
         TrafficFails, WindowEnds, Done, vars, Verifying
    <2> QED
      BY <2>1 DEF ClockInv, Full
  <1> QED
    BY <1>1, <1>2, <1>3, <1>4, <1>5, <1>6, <1>7 DEF Next

\* Nothing but a tick changes what minute was acted on or what was skipped,
\* and nothing but the agent what there is to run.
LEMMA FixStays ==
    ASSUME [Next]_vars
    PROVE  /\ Unfixed' => Unfixed
           /\ hold' = hold
           /\ phase # "working" => UNCHANGED Unfixed
           /\ ~CronTick => UNCHANGED <<lastMinute, skipped>>
           /\ ~CronTick /\ ~OpenWindow => UNCHANGED lapped
  BY DEF Next, CronTick, JobLocks, JobEnds, AgentActs, Resolve, OpenWindow, LookAgain,
     Probe, ProbeSucceeds, NextProbe, ProbeFails, TrafficFails, WindowEnds, Pass, Done,
     Unfixed, vars, cronVars, probeVars, fixVars

LEMMA RunStep == TypeOK /\ JobInv /\ ClockInv /\ RunInv /\ [Next]_vars => RunInv'
  <1> SUFFICES ASSUME TypeOK, JobInv, ClockInv, RunInv, [Next]_vars,
                      Unfixed', skipped' # TRUE, lastMinute' # None
               PROVE  /\ job' # "idle" => Full(lastMinute') + FirstSecond <= jobAt'
                      /\ job' = "idle" =>
                            Full(lastMinute') + FirstSecond + hold' <= now'
    BY DEF RunInv, Full
  <1> USE DEF cronVars, probeVars, fixVars
  <1>0. Unfixed /\ hold' = hold
    BY FixStays
  <1>1. CASE CronTick
    <2>1. job' = "starting" /\ jobAt' = now /\ lastMinute' = ThisMinute /\ Due
      BY <1>0, <1>1 DEF CronTick, RunJob
    <2> QED
      BY <2>1, DueMinute
  <1>2. CASE ~CronTick
    <2>1. UNCHANGED <<lastMinute, skipped>>
      BY <1>2, FixStays
    <2>2. /\ job # "idle" => Full(lastMinute) + FirstSecond <= jobAt
          /\ job = "idle" => Full(lastMinute) + FirstSecond + hold <= now
      BY <1>0, <2>1, Zenon DEF RunInv, TypeOK
    <2>3. CASE JobLocks
      <3>1. job = "starting" /\ job' = "holding" /\ jobAt' = now
        BY <2>3 DEF JobLocks
      <3> QED
        BY <2>1, <2>2, <3>1, Numbers
    <2>4. CASE JobEnds
      <3>1. job = "holding" /\ job' = "idle" /\ now' = now /\ now = jobAt + hold
        BY <2>4 DEF JobEnds
      <3> QED
        BY <1>0, <2>1, <2>2, <3>1, Numbers
    <2>5. CASE Pass
      <3>1. UNCHANGED <<job, jobAt>> /\ now' = now + 1
        BY <2>5 DEF Pass
      <3> QED
        BY <1>0, <2>1, <2>2, <3>1, Numbers
    <2>6. CASE AgentActs \/ Resolve \/ OpenWindow \/ LookAgain \/ Probe \/ ProbeSucceeds
               \/ ProbeFails \/ TrafficFails \/ WindowEnds \/ Done \/ UNCHANGED vars
      <3>1. UNCHANGED <<now, job, jobAt>>
        BY <2>6 DEF AgentActs, Resolve, OpenWindow, LookAgain, Probe, ProbeSucceeds,
           ProbeFails, TrafficFails, WindowEnds, Done, vars
      <3> QED
        BY <1>0, <2>1, <2>2, <3>1
    <2> QED
      BY <1>2, <2>3, <2>4, <2>5, <2>6 DEF Next
  <1> QED
    BY <1>1, <1>2

-----------------------------------------------------------------------------
(* The window.                                                             *)

SeenInv == CheckInv /\ JobInv /\ ClockInv /\ RunInv /\ WindowInv

\* What the periods give for the hold time of this world.
LEMMA Periods ==
    ASSUME TypeOK
    PROVE  /\ FirstSecond + Poll + StartUp < Minute
           /\ Minute + Interval <= Window
           /\ Poll + StartUp <= Interval
           /\ Interval + Busy < hold
  BY Numbers, PeriodsAssumption, HoldsAssumption

\* After a run the next takes the lock in time for a probe, when the minute acted
\* on last is further back than its delays.
LEMMA NextRunInTime ==
    ASSUME TypeOK, NEW s \in Nat, Full(lastMinute) + FirstSecond + Poll + StartUp < s
    PROVE  Full(lastMinute + 1) + FirstSecond + Poll + StartUp < s + Window - Interval
  BY Numbers, Periods

\* The window opens in time for the next run, unless one was just skipped.
LEMMA WindowOpens ==
    ASSUME TypeOK, SeenInv, OpenWindow, Unfixed, ~lapped'
    PROVE  WindowInv'
  <1> USE DEF SeenInv
  <1>1. /\ phase = "lockwait" /\ UNCHANGED <<now, lastMinute, skipped, job, jobAt, hold>>
        /\ started' = now /\ nextAt' = now
        /\ job = "holding" => opened' = "held"
        /\ ~JustSkipped
    BY DEF OpenWindow, cronVars, fixVars
  <1>2. skipped => Full(lastMinute) + FirstSecond + Poll + StartUp < now
    BY <1>1, Numbers DEF JustSkipped
  <1>3. ASSUME job = "idle", lastMinute # None
        PROVE  Full(lastMinute) + FirstSecond + Poll + StartUp < now
    <2>1. ~skipped => Full(lastMinute) + FirstSecond + hold <= now
      BY <1>3 DEF RunInv
    <2> QED
      BY <1>2, <2>1, Numbers, Periods
  <1>4. job = "idle" /\ lastMinute # None =>
           Full(lastMinute + 1) + FirstSecond + Poll + StartUp < now + Window - Interval
    BY <1>3, NextRunInTime, Numbers
  <1>5. nextAt' <= now' + Interval
    BY <1>1, Numbers
  <1>6. job = "starting" => jobAt + StartUp < now + Window - Interval
    BY Numbers, Periods
  <1>7. jobAt >= now => jobAt < now + Window - Interval /\ now <= jobAt + Interval
    BY Numbers, Periods
  <1> QED
    BY <1>1, <1>2, <1>4, <1>5, <1>6, <1>7 DEF WindowInv, Latest, Full

\* The next run starts early enough for a probe to meet it; a run that was under
\* way when the window opened and is in its way is what lapped records.
LEMMA TickInWindow ==
    ASSUME TypeOK, SeenInv, CronTick, Unfixed, phase \in {"waiting", "probing"}, ~lapped'
    PROVE  WindowInv'
  <1> USE DEF SeenInv
  <1>1. /\ Due /\ lastMinute' = ThisMinute
        /\ UNCHANGED <<now, phase, started, nextAt, opened, hold>>
        /\ job = "idle" => job' = "starting" /\ jobAt' = now
        /\ job # "idle" => UNCHANGED <<job, jobAt>>
    BY DEF CronTick, RunJob, fixVars
  <1>0. ~lapped /\ (job # "idle" => ~OpenedDuring)
    BY DEF CronTick, RunJob
  <1>2. CASE job = "idle"
    <2>1. now + StartUp < Latest
      <3>1. CASE lastMinute = None
        <4>1. now <= started + FirstSecond + Poll
          BY <3>1 DEF ClockInv
        <4> QED
          BY <4>1, Numbers, Periods DEF Latest
      <3>2. CASE lastMinute # None
        <4>1. now <= Full(lastMinute + 1) + FirstSecond + Poll
          BY <3>2 DEF ClockInv
        <4>2. Full(lastMinute + 1) + FirstSecond + Poll + StartUp < Latest
          BY <1>0, <1>2, <3>2 DEF WindowInv
        <4> QED
          BY <4>1, <4>2, Numbers DEF Latest
      <3> QED
        BY <3>1, <3>2
    <2>2. nextAt <= now + Interval
      BY <1>0, <1>2 DEF WindowInv
    <2> QED
      BY <1>1, <1>2, <2>1, <2>2 DEF WindowInv, Latest
  <1>3. CASE job = "starting"
    BY <1>0, <1>1, <1>3 DEF WindowInv, Latest
  <1>4. CASE job = "holding" /\ jobAt >= started
    <2>1. jobAt < Latest /\ nextAt <= jobAt + Interval
      BY <1>0, <1>4 DEF WindowInv
    <2>2. ~ (jobAt < started)
      BY <1>4, Numbers
    <2> QED
      BY <1>1, <1>4, <2>1, <2>2 DEF WindowInv, Latest
  <1>5. CASE job = "holding" /\ jobAt < started
    BY <1>0, <1>5 DEF WindowInv, OpenedDuring
  <1>6. job \in {"idle", "starting", "holding"} /\ (jobAt >= started \/ jobAt < started)
    BY Numbers DEF TypeOK
  <1> QED
    BY <1>2, <1>3, <1>4, <1>5, <1>6

\* A run that is over in the window is one that the window opened in, and the
\* next one is due early enough.
LEMMA EndInWindow ==
    ASSUME TypeOK, SeenInv, JobEnds, Unfixed, phase \in {"waiting", "probing"}, ~lapped
    PROVE  WindowInv'
  <1> USE DEF SeenInv
  <1>1. /\ job = "holding" /\ job' = "idle" /\ now = jobAt + hold
        /\ UNCHANGED <<now, lastMinute, jobAt, phase, started, nextAt, opened>>
    BY DEF JobEnds, probeVars
  <1>2. now <= nextAt + Busy
    BY Numbers DEF CheckInv
  <1>3. ~ (jobAt >= started)
    <2>1. jobAt >= started => nextAt <= jobAt + Interval
      BY <1>1 DEF WindowInv
    <2> QED
      BY <1>1, <1>2, <2>1, Numbers, Periods
  <1>4. /\ nextAt = started
        /\ skipped => Full(lastMinute) + FirstSecond + Poll + StartUp < started
    BY <1>1, <1>3, Numbers DEF WindowInv
  <1>5. lastMinute # None => Full(lastMinute) + FirstSecond + Poll + StartUp < started
    <2>1. ~skipped /\ lastMinute # None => Full(lastMinute) + FirstSecond <= jobAt
      BY <1>1 DEF RunInv
    <2> QED
      BY <1>1, <1>2, <1>4, <2>1, Numbers, Periods
  <1>6. lastMinute # None =>
           Full(lastMinute + 1) + FirstSecond + Poll + StartUp < started + Window - Interval
    BY <1>5, NextRunInTime, Numbers
  <1>7. nextAt <= now + Interval
    BY <1>4, Numbers DEF ClockInv
  <1> QED
    BY <1>1, <1>6, <1>7 DEF WindowInv, Latest, Full

LEMMA WindowStep == TypeOK /\ SeenInv /\ [Next]_vars => WindowInv'
  <1> SUFFICES ASSUME TypeOK, SeenInv, [Next]_vars,
                      Unfixed', phase' \in {"waiting", "probing"}, ~lapped'
               PROVE  WindowInv'
    BY DEF WindowInv
  <1> USE DEF SeenInv, cronVars, probeVars, fixVars
  <1>0. Unfixed
    BY FixStays
  <1>1. CASE OpenWindow
    BY <1>0, <1>1, WindowOpens
  <1>2. CASE CronTick
    <2>1. UNCHANGED phase
      BY <1>2 DEF CronTick
    <2> QED
      BY <1>0, <1>2, <2>1, TickInWindow
  <1>3. CASE JobEnds
    <2>1. UNCHANGED <<phase, lapped>>
      BY <1>3 DEF JobEnds
    <2> QED
      BY <1>0, <1>3, <2>1, EndInWindow
  <1>4. CASE JobLocks
    <2>1. /\ job = "starting" /\ job' = "holding" /\ jobAt' = now
          /\ UNCHANGED <<now, phase, started, nextAt, opened, lapped>>
      BY <1>4 DEF JobLocks
    <2>2. jobAt + StartUp < Latest /\ nextAt <= now + Interval
      BY <1>0, <2>1 DEF WindowInv
    <2>3. now <= jobAt + StartUp /\ started <= now
      BY <2>1 DEF JobInv, ClockInv
    <2>4. now < Latest /\ ~ (now < started)
      BY <2>2, <2>3, Numbers DEF Latest
    <2> QED
      BY <2>1, <2>2, <2>4 DEF WindowInv, Latest
  <1>5. CASE Probe \/ TrafficFails \/ Done \/ UNCHANGED vars
    <2>1. /\ UNCHANGED <<now, lastMinute, skipped, job, jobAt, started, nextAt, opened, lapped>>
          /\ phase \in {"waiting", "probing"}
      BY <1>5 DEF Probe, TrafficFails, Done, vars
    <2> QED
      BY <1>0, <2>1 DEF WindowInv, Latest, Full
  <1>6. CASE ProbeSucceeds
    <2>1. /\ UNCHANGED <<now, lastMinute, skipped, job, jobAt, started, opened, lapped>>
          /\ phase \in {"waiting", "probing"} /\ job # "holding" /\ nextAt' = now + Interval
      BY <1>6 DEF ProbeSucceeds, NextProbe, LockFree
    <2>2. nextAt' <= now' + Interval
      BY <2>1, Numbers
    <2> QED
      BY <1>0, <2>1, <2>2 DEF WindowInv, Latest, Full
  <1>7. CASE Pass
    <2>1. /\ UNCHANGED <<lastMinute, skipped, job, jobAt, started, nextAt, opened, lapped, phase>>
          /\ now' = now + 1
      BY <1>7 DEF Pass
    <2>2. nextAt <= now + Interval => nextAt' <= now' + Interval
      BY <2>1, Numbers
    <2> QED
      BY <1>0, <2>1, <2>2 DEF WindowInv, Latest, Full
  <1>8. CASE AgentActs \/ Resolve \/ LookAgain \/ ProbeFails \/ WindowEnds
    BY <1>8 DEF AgentActs, Resolve, LookAgain, ProbeFails, WindowEnds
  <1> QED
    BY <1>1, <1>2, <1>3, <1>4, <1>5, <1>6, <1>7, <1>8 DEF Next

\* The window does not end before a probe met the job.
LEMMA SeenStep ==
    TypeOK /\ SeenInv /\ UnfixedIsSeen /\ [Next]_vars => UnfixedIsSeen'
  <1> SUFFICES ASSUME TypeOK, SeenInv, UnfixedIsSeen, [Next]_vars,
                      phase' = "passed", Unfixed', ~lapped'
               PROVE  FALSE
    BY DEF UnfixedIsSeen
  <1> USE DEF SeenInv, cronVars, probeVars, fixVars
  <1>0. Unfixed
    BY FixStays
  <1>1. CASE WindowEnds
    <2>1. /\ phase = "waiting" /\ now = nextAt /\ ~lapped
          /\ ~ (now - started < Window)
      BY <1>1 DEF WindowEnds, InWindow
    <2>2. CASE job = "idle"
      <3>1. CASE lastMinute = None
        <4>1. now <= started + FirstSecond + Poll
          BY <2>1, <3>1 DEF ClockInv
        <4> QED
          BY <2>1, <4>1, Numbers, Periods
      <3>2. CASE lastMinute # None
        <4>1. now <= Full(lastMinute + 1) + FirstSecond + Poll
          BY <3>2 DEF ClockInv
        <4>2. Full(lastMinute + 1) + FirstSecond + Poll + StartUp < Latest
          BY <1>0, <2>1, <2>2, <3>2 DEF WindowInv
        <4> QED
          BY <2>1, <4>1, <4>2, Numbers DEF Latest
      <3> QED
        BY <3>1, <3>2
    <2>3. CASE job = "starting"
      <3>1. jobAt + StartUp < Latest
        BY <1>0, <2>1, <2>3 DEF WindowInv
      <3>2. now <= jobAt + StartUp
        BY <2>3 DEF JobInv
      <3> QED
        BY <2>1, <3>1, <3>2, Numbers DEF Latest
    <2>4. CASE job = "holding"
      <3>1. CASE jobAt >= started
        <4>1. jobAt < Latest /\ nextAt <= jobAt + Interval
          BY <1>0, <2>1, <2>4, <3>1 DEF WindowInv
        <4> QED
          BY <2>1, <4>1, Numbers DEF Latest
      <3>2. CASE jobAt < started
        <4>1. nextAt = started
          BY <1>0, <2>1, <2>4, <3>2 DEF WindowInv
        <4> QED
          BY <2>1, <4>1, Numbers
      <3> QED
        BY <3>1, <3>2, Numbers
    <2> QED
      BY <2>2, <2>3, <2>4 DEF TypeOK
  <1>2. CASE ~WindowEnds
    <2>1. phase = "passed" /\ ~OpenWindow
      BY <1>2 DEF Next, CronTick, JobLocks, JobEnds, AgentActs, Resolve, OpenWindow,
         LookAgain, Probe, ProbeSucceeds, NextProbe, ProbeFails, TrafficFails, Pass,
         Done, vars
    <2>2. ~lapped
      <3>1. CronTick => (lapped => lapped')
        BY Zenon DEF CronTick, RunJob
      <3>2. ~CronTick => UNCHANGED lapped
        BY <2>1, FixStays
      <3> QED
        BY <3>1, <3>2
    <2> QED
      BY <1>0, <2>1, <2>2 DEF UnfixedIsSeen
  <1> QED
    BY <1>1, <1>2

LEMMA SeenInit == Init => SeenInv /\ UnfixedIsSeen
  <1> SUFFICES ASSUME Init PROVE SeenInv /\ UnfixedIsSeen
    OBVIOUS
  <1>1. phase = "working" /\ job = "idle" /\ lastMinute = None
    BY DEF Init
  <1>2. CheckInv /\ JobInv /\ WindowInv /\ RunInv /\ ClockInv /\ UnfixedIsSeen
    BY <1>1 DEF CheckInv, JobInv, WindowInv, RunInv, ClockInv, Verifying,
       UnfixedIsSeen
  <1> QED
    BY <1>2 DEF SeenInv

\* With a probe every Interval and a window of a minute and an interval, no world
\* that still has its job passes check_probe_window, for every start of the
\* episode, moment of the resolve and hold time, runs longer than a minute
\* included, unless a run outlasted its minute by a moment as the window opened.
THEOREM UnfixedAlwaysSeen == Spec => []UnfixedIsSeen
  <1>1. TypeOK /\ SeenInv /\ [Next]_vars => SeenInv'
    BY CheckStep, JobStep, ClockStep, RunStep, WindowStep DEF SeenInv, IInv
  <1> QED
    BY SeenInit, <1>1, SeenStep, TypeCorrect, PTL DEF Spec
-----------------------------------------------------------------------------
(* When a run can be skipped at all.                                       *)

\* The runs of the world fit into the minute, also the one the runner starts at
\* once when it comes up in the middle of one.
RunsFit ==
    \A s \in Starts, h \in Holds :
        /\ Poll + StartUp + h < Minute
        /\ (s % Minute) + StartUp + h < Minute + FirstSecond

\* Every run is over before the next minute is due.
NoSkipInv ==
    /\ skipped = FALSE /\ lapped = FALSE /\ Poll + StartUp + hold < Minute
    /\ lastMinute = None => (now % Minute) + StartUp + hold < Minute + FirstSecond
    /\ job = "starting" =>
         jobAt + StartUp + hold < Full(lastMinute) + Minute + FirstSecond
    /\ job = "holding" => jobAt + hold < Full(lastMinute) + Minute + FirstSecond

LEMMA NoSkipInit == RunsFit /\ Init => NoSkipInv
  <1> SUFFICES ASSUME RunsFit, Init PROVE NoSkipInv
    OBVIOUS
  <1>1. job = "idle" /\ skipped = FALSE /\ lapped = FALSE /\ Poll + StartUp + hold < Minute
    BY DEF Init, RunsFit
  <1>2. (now % Minute) + StartUp + hold < Minute + FirstSecond
    BY DEF Init, RunsFit
  <1> QED
    BY <1>1, <1>2 DEF NoSkipInv

LEMMA NoSkipStep ==
    TypeOK /\ JobInv /\ ClockInv /\ NoSkipInv /\ [Next]_vars => NoSkipInv'
  <1> SUFFICES ASSUME TypeOK, JobInv, ClockInv, NoSkipInv, [Next]_vars PROVE NoSkipInv'
    OBVIOUS
  <1> USE DEF cronVars, probeVars, fixVars
  <1>0. hold' = hold
    BY FixStays
  <1>1. CASE CronTick
    <2>1. Due /\ lastMinute' = ThisMinute /\ UNCHANGED now
      BY <1>1 DEF CronTick
    <2>2. lastMinute # None => Full(lastMinute) + Minute + FirstSecond <= now
      BY <2>1, DueMinute, Numbers
    <2>3. job = "idle"
      <3>1. lastMinute = None => job = "idle"
        BY DEF ClockInv
      <3>2. job = "starting" => now + hold < Full(lastMinute) + Minute + FirstSecond
        BY Numbers DEF JobInv, NoSkipInv
      <3>3. job = "holding" => now < Full(lastMinute) + Minute + FirstSecond
        BY Numbers DEF JobInv, NoSkipInv
      <3> QED
        BY <2>2, <3>1, <3>2, <3>3, Numbers DEF TypeOK
    <2>4. /\ skipped' = FALSE /\ lapped' = FALSE
          /\ job' = "idle" \/ (job' = "starting" /\ jobAt' = now)
      BY <1>1, <2>1, <2>3 DEF CronTick, RunJob, NoSkipInv
    <2>5. lastMinute' # None
      BY <2>1, DueMinute DEF None
    <2>6. now + StartUp + hold < Full(ThisMinute) + Minute + FirstSecond
      <3>1. CASE lastMinute = None
        BY <2>1, <3>1, DueMinute, Numbers DEF NoSkipInv
      <3>2. CASE lastMinute # None
        <4>1. now <= Full(ThisMinute) + FirstSecond + Poll
          BY <2>1, <3>2, DueMinute, Numbers DEF ClockInv
        <4> QED
          BY <2>1, <4>1, DueMinute, Numbers DEF NoSkipInv
      <3> QED
        BY <3>1, <3>2
    <2> QED
      BY <1>0, <2>1, <2>4, <2>5, <2>6 DEF NoSkipInv, Full
  <1>2. CASE JobLocks
    <2>1. /\ job = "starting" /\ job' = "holding" /\ jobAt' = now
          /\ UNCHANGED <<now, lastMinute, skipped, lapped>>
      BY <1>2 DEF JobLocks
    <2>2. now + hold < Full(lastMinute) + Minute + FirstSecond
      BY <2>1, Numbers DEF JobInv, NoSkipInv
    <2> QED
      BY <1>0, <2>1, <2>2 DEF NoSkipInv, Full
  <1>3. CASE JobEnds
    BY <1>0, <1>3 DEF JobEnds, NoSkipInv, Full
  <1>4. CASE OpenWindow
    <2>1. /\ UNCHANGED <<now, lastMinute, skipped, job, jobAt>>
          /\ lapped' = FALSE
      BY <1>4 DEF OpenWindow, JustSkipped, NoSkipInv
    <2> QED
      BY <1>0, <2>1 DEF NoSkipInv, Full
  <1>5. CASE Pass
    <2>1. UNCHANGED <<lastMinute, skipped, job, jobAt, lapped>> /\ now' = now + 1
      BY <1>5 DEF Pass
    <2>2. lastMinute = None =>
             (now' % Minute) + StartUp + hold < Minute + FirstSecond
      <3>1. now % Minute \in Nat
        BY Division, Numbers
      <3> QED
        BY <1>5, <3>1, ClockGoesOn, Numbers DEF NoSkipInv
    <2> QED
      BY <1>0, <2>1, <2>2 DEF NoSkipInv, Full
  <1>6. CASE AgentActs \/ Resolve \/ LookAgain \/ Probe \/ ProbeSucceeds
             \/ ProbeFails \/ TrafficFails \/ WindowEnds \/ Done \/ UNCHANGED vars
    <2>1. UNCHANGED <<now, lastMinute, skipped, job, jobAt, lapped>>
      BY <1>6 DEF AgentActs, Resolve, LookAgain, Probe, ProbeSucceeds, NextProbe,
         ProbeFails, TrafficFails, WindowEnds, Done, vars
    <2> QED
      BY <1>0, <2>1 DEF NoSkipInv, Full
  <1> QED
    BY <1>1, <1>2, <1>3, <1>4, <1>5, <1>6 DEF Next

\* When every run of a world is over before the next is due (a hold of less
\* than 58.5 seconds, and no first run that starts late in its minute), no run
\* is ever skipped, and no world that still has its job passes at all.
THEOREM UnfixedNeverPasses ==
    RunsFit => (Spec => [](phase = "passed" => ~Unfixed))
  <1> SUFFICES ASSUME RunsFit PROVE Spec => [](phase = "passed" => ~Unfixed)
    OBVIOUS
  <1>1. Init => NoSkipInv
    BY NoSkipInit
  <1>2. TypeOK /\ SeenInv /\ [Next]_vars => SeenInv'
    BY CheckStep, JobStep, ClockStep, RunStep, WindowStep DEF SeenInv, IInv
  <1>3. TypeOK /\ SeenInv /\ NoSkipInv /\ [Next]_vars => NoSkipInv'
    BY NoSkipStep DEF SeenInv
  <1>4. UnfixedIsSeen /\ NoSkipInv => (phase = "passed" => ~Unfixed)
    BY DEF UnfixedIsSeen, NoSkipInv
  <1> QED
    BY <1>1, <1>2, <1>3, <1>4, SeenInit, UnfixedAlwaysSeen, TypeCorrect, PTL DEF Spec
=============================================================================
