-------------------------- MODULE MetricsCollector ---------------------------
(***************************************************************************)
(* runtime/metrics.py: a thread scrapes the service's in-process counters  *)
(* and appends the increase since the previous scrape to the metrics store *)
(* the responder queries.  The service may be restarted at any time, a     *)
(* scrape may fail, and the store may be unwritable half-way.  A label set *)
(* the service does not export yet counts as 0, as the code treats it.     *)
(***************************************************************************)
EXTENDS Integers

CONSTANTS
    Keys,              \* (metric, labels) pairs of the counters
    MaxServed,         \* bound: increments of one counter
    MaxStarts          \* bound: values of process_start_time_seconds

ASSUME BoundsAssumption == MaxServed \in Nat /\ MaxStarts \in Nat \ {0}

VARIABLES
    up,                \* the service process is running
    cur,               \* its counters and its start time in whole seconds
    total,             \* true increments of each counter, over all processes
    got,               \* the response of a scrape under way, or NoScrape
    prev,              \* _prev and _prev_start, or NoScrape
    recorded,          \* sum of the rows in the metrics store
    lastUp,            \* the "up" row of the last scrape
    missed,            \* increments no scrape can report any more
    blurred            \* two processes started in the same rounded second

vars == <<up, cur, total, got, prev, recorded, lastUp, missed, blurred>>

Counts == [Keys -> Nat]
Zero == [k \in Keys |-> 0]
Scrapes == [start : Nat, n : Counts]
NoScrape == [start |-> 0, n |-> Zero]

Plus(f, g) == [k \in Keys |-> f[k] + g[k]]
On(f, S) == [k \in Keys |-> IF k \in S THEN f[k] ELSE 0]

TypeOK ==
    /\ up \in BOOLEAN /\ lastUp \in BOOLEAN /\ blurred \in BOOLEAN
    /\ cur \in Scrapes /\ got \in Scrapes /\ prev \in Scrapes
    /\ total \in Counts /\ recorded \in Counts /\ missed \in Counts

Init ==
    /\ up = TRUE
    /\ cur = [start |-> 1, n |-> Zero]
    /\ total = Zero
    /\ got = NoScrape /\ prev = NoScrape
    /\ recorded = Zero
    /\ lastUp = TRUE
    /\ missed = Zero /\ blurred = FALSE
-----------------------------------------------------------------------------
\* Mutation: the sign of a new process is only a counter that went down.
DeltaByValue(p, c) ==
    [k \in Keys |->
        IF p = NoScrape THEN 0
        ELSE IF c.n[k] < p.n[k] THEN c.n[k] ELSE c.n[k] - p.n[k]]

\* What scrape_once adds for each counter: nothing on the first scrape, all of
\* it after a restart or a reset, else the increase.
Delta(p, c) ==
    [k \in Keys |->
        IF p = NoScrape THEN 0
        ELSE IF c.start # p.start \/ c.n[k] < p.n[k] THEN c.n[k]
        ELSE c.n[k] - p.n[k]]

\* The scrape that the next Delta is taken from.
Last == IF got = NoScrape THEN prev ELSE got
-----------------------------------------------------------------------------
(* The service: telemetry.py, and ServiceManager ending and starting it.   *)

Serve(k) ==
    /\ up /\ total[k] < MaxServed
    /\ cur' = [cur EXCEPT !.n[k] = @ + 1]
    /\ total' = [total EXCEPT ![k] = @ + 1]
    /\ UNCHANGED <<up, got, prev, recorded, lastUp, missed, blurred>>

\* What the process counted since it was last scraped (or all of it, when no
\* baseline exists) is gone.
Unseen == IF Last = NoScrape THEN cur.n ELSE Delta(Last, cur)

Stop ==
    /\ up
    /\ up' = FALSE
    /\ missed' = Plus(missed, Unseen)
    /\ UNCHANGED <<cur, total, got, prev, recorded, lastUp, blurred>>

\* _started is exported rounded to whole seconds: a quick restart may repeat
\* the number.
Start ==
    /\ ~up
    /\ up' = TRUE
    /\ \E s \in {cur.start, cur.start + 1} :
         /\ s <= MaxStarts
         /\ cur' = [start |-> s, n |-> Zero]
         /\ blurred' = (blurred \/ s = cur.start)
    /\ UNCHANGED <<total, got, prev, recorded, lastUp, missed>>
-----------------------------------------------------------------------------
(* scrape_once: the request, and then the rows.                            *)

\* GET /metrics renders all counters under one lock.
Fetch ==
    /\ up /\ got = NoScrape
    /\ got' = cur
    /\ UNCHANGED <<up, cur, total, prev, recorded, lastUp, missed, blurred>>

\* No answer, or not 200: an "up 0" row and the counters are kept.
FetchFails ==
    /\ got = NoScrape
    /\ lastUp' = FALSE
    /\ UNCHANGED <<up, cur, total, got, prev, recorded, missed, blurred>>

\* The counts of a baseline scrape are in no row.
Baseline == IF prev = NoScrape THEN got.n ELSE Zero

Record ==
    /\ got # NoScrape
    /\ recorded' = Plus(recorded, Delta(prev, got))
    /\ missed' = Plus(missed, Baseline)
    /\ prev' = got
    /\ got' = NoScrape
    /\ lastUp' = TRUE
    /\ UNCHANGED <<up, cur, total, blurred>>

\* Mutation: _prev is updated only after the rows were written.
RecordFailsKeepsPrev ==
    /\ got # NoScrape
    /\ \E S \in SUBSET Keys : recorded' = Plus(recorded, On(Delta(prev, got), S))
    /\ got' = NoScrape
    /\ lastUp' = TRUE
    /\ UNCHANGED <<up, cur, total, prev, missed, blurred>>

\* The store cannot be opened, or the disk fills up after some of the rows;
\* _prev has moved on, so the other rows are never written.
RecordFails ==
    /\ got # NoScrape
    /\ \E S \in SUBSET Keys :
         /\ recorded' = Plus(recorded, On(Delta(prev, got), S))
         /\ missed' = Plus(missed, Plus(Baseline, On(Delta(prev, got), Keys \ S)))
         /\ lastUp' = TRUE \/ (S = {} /\ lastUp' = lastUp)
    /\ prev' = got
    /\ got' = NoScrape
    /\ UNCHANGED <<up, cur, total, blurred>>

Collect == Fetch \/ FetchFails \/ Record \/ RecordFails

Next ==
    \/ \E k \in Keys : Serve(k)
    \/ Stop \/ Start
    \/ Collect

\* The collector thread never dies: run swallows every exception.
Spec == Init /\ [][Next]_vars /\ WF_vars(Collect)
-----------------------------------------------------------------------------
(* Properties.                                                             *)

\* The store never shows more than really happened, whatever the interleaving
\* of restarts (even two in one second), scrapes and failed writes.
NeverOvercounts == \A k \in Keys : recorded[k] <= total[k]

\* What the next two scrapes will add.
Pending(k) ==
    (IF got = NoScrape THEN 0 ELSE Delta(prev, got)[k] + Baseline[k])
      + (IF up THEN Unseen[k] ELSE 0)

\* Nothing is lost silently: every increment is in the store, or about to be,
\* or was lost to the baseline, to the end of its process before a scrape, or
\* to a failed write; unless two processes started in one rounded second.
EveryIncrementAccounted ==
    ~blurred => \A k \in Keys : recorded[k] + Pending(k) + missed[k] = total[k]
=============================================================================
