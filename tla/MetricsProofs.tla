--------------------------- MODULE MetricsProofs -----------------------------
(***************************************************************************)
(* Proofs about MetricsCollector, for any set of counters and any bounds.  *)
(* The argument telescopes: what is recorded, what the scrape under way    *)
(* will add and what the scrape after it will add never exceed the truth,  *)
(* and reach it once the losses are counted, because scrapes of the same   *)
(* process are ordered like its counters.                                  *)
(***************************************************************************)
EXTENDS MetricsCollector, TLAPS

CountInv ==
    \A k \in Keys :
        recorded[k] + Delta(prev, got)[k] + Delta(Last, cur)[k] <= total[k]

\* c was scraped no earlier than p; of one process when the numbers agree.
Before(p, c) ==
    /\ p.start <= c.start
    /\ p.start = c.start => \A k \in Keys : p.n[k] <= c.n[k]

OrderInv ==
    /\ cur.start >= 1
    /\ got # NoScrape => got.start >= 1
    /\ prev # NoScrape => prev.start >= 1
    /\ ~blurred =>
          /\ got # NoScrape => Before(got, cur)
          /\ prev # NoScrape => Before(prev, cur)
          /\ got # NoScrape /\ prev # NoScrape => Before(prev, got)

IInv == TypeOK /\ CountInv /\ OrderInv /\ EveryIncrementAccounted
-----------------------------------------------------------------------------
(* What the operators on counts yield.                                     *)

LEMMA NoScrapeType == NoScrape \in Scrapes /\ Zero \in Counts
  BY DEF NoScrape, Scrapes, Counts, Zero

LEMMA PlusType ==
    ASSUME NEW f \in Counts, NEW g \in Counts
    PROVE  Plus(f, g) \in Counts /\ \A k \in Keys : Plus(f, g)[k] = f[k] + g[k]
  BY DEF Plus, Counts

LEMMA OnType ==
    ASSUME NEW f \in Counts, NEW S \in SUBSET Keys
    PROVE  /\ On(f, S) \in Counts /\ On(f, Keys \ S) \in Counts
           /\ \A k \in Keys : On(f, S)[k] + On(f, Keys \ S)[k] = f[k]
           /\ \A k \in Keys : On(f, S)[k] <= f[k]
  BY DEF On, Counts

\* Delta is a count, and no more than the counter itself.
LEMMA DeltaType ==
    ASSUME NEW p \in Scrapes, NEW c \in Scrapes
    PROVE  /\ Delta(p, c) \in Counts
           /\ \A k \in Keys : Delta(p, c)[k] <= c.n[k]
  BY DEF Delta, Scrapes, Counts

\* Counting once more adds at most one to it.
LEMMA DeltaStep ==
    ASSUME NEW p \in Scrapes, NEW c \in Scrapes, NEW d \in Scrapes, NEW k \in Keys,
           d = [c EXCEPT !.n[k] = @ + 1]
    PROVE  \A j \in Keys : Delta(p, d)[j] <= Delta(p, c)[j] + (IF j = k THEN 1 ELSE 0)
  BY DEF Delta, Scrapes, Counts

\* Against no scrape, or against itself, there is nothing to add.
LEMMA DeltaNone ==
    ASSUME NEW c \in Scrapes
    PROVE  \A k \in Keys : Delta(c, c)[k] = 0 /\ Delta(NoScrape, c)[k] = 0
  BY DEF Delta, Scrapes, Counts

\* Nothing is added for counters that are all zero: no scrape under way, or a
\* process that has just started, even under a start time already seen.
LEMMA DeltaZero ==
    ASSUME NEW p \in Scrapes, NEW c \in Scrapes, c.n = Zero
    PROVE  \A k \in Keys : Delta(p, c)[k] = 0
  <1> SUFFICES ASSUME NEW k \in Keys PROVE Delta(p, c)[k] = 0
    OBVIOUS
  <1>1. c.n[k] = 0
    BY DEF Zero
  <1>2. p.n[k] \in Nat
    BY DEF Scrapes, Counts
  <1>3. Delta(p, c)[k] = IF p = NoScrape THEN 0
                         ELSE IF c.start # p.start \/ c.n[k] < p.n[k] THEN c.n[k]
                         ELSE c.n[k] - p.n[k]
    BY DEF Delta
  <1> QED
    BY <1>1, <1>2, <1>3

LEMMA LossTypes ==
    ASSUME TypeOK
    PROVE  /\ Last \in Scrapes
           /\ Unseen \in Counts /\ Baseline \in Counts
           /\ Delta(prev, got) \in Counts
  <1>1. Last \in Scrapes
    BY DEF Last, TypeOK
  <1>2. Unseen \in Counts
    BY <1>1, DeltaType DEF Unseen, TypeOK, Scrapes
  <1>3. Baseline \in Counts
    BY NoScrapeType DEF Baseline, TypeOK, Scrapes
  <1> QED
    BY <1>1, <1>2, <1>3, DeltaType DEF TypeOK
-----------------------------------------------------------------------------
LEMMA InitInv == Init => IInv
  <1> SUFFICES ASSUME Init PROVE IInv
    OBVIOUS
  <1>1. TypeOK
    BY NoScrapeType DEF Init, TypeOK, Scrapes
  <1>2. ASSUME NEW k \in Keys
        PROVE  /\ recorded[k] = 0 /\ total[k] = 0 /\ missed[k] = 0 /\ cur.n[k] = 0
               /\ Delta(prev, got)[k] = 0 /\ Delta(Last, cur)[k] = 0
    BY <1>1, NoScrapeType, DeltaNone DEF Init, Last, TypeOK, Zero
  <1>3. CountInv
    <2> SUFFICES ASSUME NEW k \in Keys
                 PROVE  recorded[k] + Delta(prev, got)[k] + Delta(Last, cur)[k] <= total[k]
      BY DEF CountInv
    <2> HIDE DEF Init
    <2> QED
      BY <1>2
  <1>4. OrderInv
    BY DEF Init, OrderInv
  <1>5. EveryIncrementAccounted
    <2> SUFFICES ASSUME NEW k \in Keys PROVE recorded[k] + Pending(k) + missed[k] = total[k]
      BY DEF EveryIncrementAccounted
    <2>1. Unseen[k] = 0
      BY <1>2 DEF Unseen
    <2>2. Pending(k) = 0
      BY <2>1 DEF Init, Pending
    <2> QED
      BY <1>2, <2>2
  <1> QED
    BY <1>1, <1>3, <1>4, <1>5 DEF IInv

LEMMA TypeStep == TypeOK /\ [Next]_vars => TypeOK'
  <1> SUFFICES ASSUME TypeOK, [Next]_vars PROVE TypeOK'
    OBVIOUS
  <1> USE NoScrapeType DEF TypeOK
  <1>1. ASSUME NEW k \in Keys, Serve(k) PROVE TypeOK'
    BY <1>1 DEF Serve, Scrapes, Counts
  <1>2. CASE Stop
    BY <1>2, LossTypes, PlusType DEF Stop
  <1>3. CASE Start
    BY <1>3 DEF Start, Scrapes
  <1>4. CASE Fetch
    BY <1>4 DEF Fetch
  <1>5. CASE FetchFails
    BY <1>5 DEF FetchFails
  <1>6. CASE Record
    BY <1>6, LossTypes, PlusType DEF Record
  <1>7. CASE RecordFails
    <2> PICK S \in SUBSET Keys :
          /\ recorded' = Plus(recorded, On(Delta(prev, got), S))
          /\ missed' = Plus(missed, Plus(Baseline, On(Delta(prev, got), Keys \ S)))
      BY <1>7 DEF RecordFails
    <2>1. recorded' \in Counts /\ missed' \in Counts
      BY LossTypes, OnType, PlusType
    <2> QED
      BY <1>7, <2>1 DEF RecordFails
  <1>8. CASE UNCHANGED vars
    BY <1>8 DEF vars
  <1> QED
    BY <1>1, <1>2, <1>3, <1>4, <1>5, <1>6, <1>7, <1>8 DEF Next, Collect

LEMMA CountStep == IInv /\ [Next]_vars => CountInv'
  <1> SUFFICES ASSUME IInv, [Next]_vars PROVE CountInv'
    OBVIOUS
  <1>t. TypeOK /\ TypeOK'
    BY TypeStep DEF IInv
  <1>l. Last \in Scrapes
    BY <1>t, LossTypes
  <1>c. CountInv
    BY DEF IInv
  <1>n. \A j \in Keys : /\ recorded[j] \in Nat /\ total[j] \in Nat
                        /\ Delta(prev, got)[j] \in Nat /\ Delta(Last, cur)[j] \in Nat
    BY <1>t, <1>l, DeltaType DEF TypeOK, Counts
  <1>1. ASSUME NEW k \in Keys, Serve(k) PROVE CountInv'
    <2>1. Last' = Last
      BY <1>1 DEF Serve, Last
    <2>2. \A j \in Keys : Delta(Last, cur')[j] <= Delta(Last, cur)[j] + (IF j = k THEN 1 ELSE 0)
      BY <1>1, <1>t, <1>l, DeltaStep DEF Serve, TypeOK
    <2>3. \A j \in Keys : total'[j] = total[j] + (IF j = k THEN 1 ELSE 0)
      BY <1>1, <1>t DEF Serve, TypeOK, Counts
    <2>4. \A j \in Keys : Delta(Last, cur')[j] \in Nat
      BY <1>t, <1>l, DeltaType DEF TypeOK, Counts
    <2>5. UNCHANGED <<recorded, prev, got>>
      BY <1>1 DEF Serve
    <2> QED
      BY <1>c, <1>n, <2>1, <2>2, <2>3, <2>4, <2>5 DEF CountInv
  <1>2. CASE Stop
    BY <1>2, <1>c DEF Stop, CountInv, Last
  <1>3. CASE Start
    <2>1. Last' = Last /\ cur'.n = Zero
      BY <1>3 DEF Start, Last
    <2>2. \A j \in Keys : Delta(Last, cur')[j] = 0
      BY <2>1, <1>t, <1>l, DeltaZero DEF TypeOK
    <2>3. UNCHANGED <<recorded, total, prev, got>>
      BY <1>3 DEF Start
    <2> QED
      BY <1>c, <1>n, <2>1, <2>2, <2>3 DEF CountInv
  <1>4. CASE Fetch
    <2>1. got = NoScrape /\ got' = cur /\ UNCHANGED <<recorded, total, prev, cur>>
      BY <1>4 DEF Fetch
    <2>2. \A j \in Keys : Delta(prev, got)[j] = 0
      BY <2>1, <1>t, NoScrapeType, DeltaZero DEF TypeOK, NoScrape
    <2>3. Last = prev
      BY <2>1 DEF Last
    <2>4. cur # NoScrape
      BY <1>t DEF IInv, OrderInv, NoScrape
    <2>5. Last' = cur
      BY <2>1, <2>4 DEF Last
    <2>6. \A j \in Keys : Delta(Last', cur')[j] = 0
      BY <2>1, <2>5, <1>t, DeltaNone DEF TypeOK
    <2> QED
      BY <1>c, <1>n, <2>1, <2>2, <2>3, <2>6 DEF CountInv
  <1>5. CASE FetchFails
    BY <1>5, <1>c DEF FetchFails, CountInv, Last
  <1>6. ASSUME NEW g \in Counts, \A j \in Keys : g[j] <= Delta(prev, got)[j],
               recorded' = Plus(recorded, g), prev' = got, got' = NoScrape,
               got # NoScrape, UNCHANGED <<cur, total>>
        PROVE  CountInv'
    <2>1. Last = got /\ Last' = got
      BY <1>6 DEF Last
    <2>2. \A j \in Keys : Delta(prev', got')[j] = 0
      BY <1>6, <1>t, NoScrapeType, DeltaZero DEF TypeOK, NoScrape
    <2>3. \A j \in Keys : recorded'[j] = recorded[j] + g[j] /\ g[j] \in Nat
      BY <1>6, <1>t, PlusType DEF TypeOK, Counts
    <2> QED
      BY <1>6, <1>c, <1>n, <2>1, <2>2, <2>3 DEF CountInv
  <1>7. CASE Record
    <2>1. \A j \in Keys : Delta(prev, got)[j] <= Delta(prev, got)[j]
      BY <1>n
    <2> QED
      BY <1>6, <1>7, <1>t, <2>1, LossTypes DEF Record
  <1>8. CASE RecordFails
    <2> PICK S \in SUBSET Keys : recorded' = Plus(recorded, On(Delta(prev, got), S))
      BY <1>8 DEF RecordFails
    <2>1. /\ On(Delta(prev, got), S) \in Counts
          /\ \A j \in Keys : On(Delta(prev, got), S)[j] <= Delta(prev, got)[j]
      BY <1>t, LossTypes, OnType
    <2> QED
      BY <1>6, <1>8, <2>1 DEF RecordFails
  <1>9. CASE UNCHANGED vars
    BY <1>9, <1>c DEF vars, CountInv, Last
  <1> QED
    BY <1>1, <1>2, <1>3, <1>4, <1>5, <1>7, <1>8, <1>9 DEF Next, Collect

LEMMA OrderStep == IInv /\ [Next]_vars => OrderInv'
  <1> SUFFICES ASSUME IInv, [Next]_vars PROVE OrderInv'
    OBVIOUS
  <1> USE NoScrapeType DEF IInv, TypeOK, Scrapes, Counts, OrderInv, Before
  <1>1. ASSUME NEW k \in Keys, Serve(k) PROVE OrderInv'
    BY <1>1 DEF Serve
  <1>2. CASE Stop
    BY <1>2 DEF Stop
  <1>3. CASE Start
    <2> PICK s \in {cur.start, cur.start + 1} :
          cur' = [start |-> s, n |-> Zero] /\ blurred' = (blurred \/ s = cur.start)
      BY <1>3 DEF Start
    <2>1. CASE s = cur.start
      BY <1>3, <2>1 DEF Start
    <2>2. CASE s = cur.start + 1
      BY <1>3, <2>2 DEF Start
    <2> QED
      BY <2>1, <2>2
  <1>4. CASE Fetch
    BY <1>4 DEF Fetch
  <1>5. CASE FetchFails
    BY <1>5 DEF FetchFails
  <1>6. CASE Record
    BY <1>6 DEF Record
  <1>7. CASE RecordFails
    BY <1>7 DEF RecordFails
  <1>8. CASE UNCHANGED vars
    BY <1>8 DEF vars
  <1> QED
    BY <1>1, <1>2, <1>3, <1>4, <1>5, <1>6, <1>7, <1>8 DEF Next, Collect

\* The increase of a counter shows in full when the scrape it is taken
\* against is of an earlier process or an earlier moment of this one.
LEMMA DeltaInc ==
    ASSUME NEW p \in Scrapes, NEW c \in Scrapes, NEW d \in Scrapes, NEW k \in Keys,
           p # NoScrape, Before(p, c), d = [c EXCEPT !.n[k] = @ + 1]
    PROVE  \A j \in Keys : Delta(p, d)[j] = Delta(p, c)[j] + (IF j = k THEN 1 ELSE 0)
  BY DEF Delta, Scrapes, Counts, Before

LEMMA AccountStep == IInv /\ [Next]_vars => EveryIncrementAccounted'
  <1> SUFFICES ASSUME IInv, [Next]_vars, ~blurred' PROVE EveryIncrementAccounted'
    BY DEF EveryIncrementAccounted
  <1>t. TypeOK /\ TypeOK'
    BY TypeStep DEF IInv
  <1>l. Last \in Scrapes /\ Unseen \in Counts /\ Baseline \in Counts /\ Delta(prev, got) \in Counts
    BY <1>t, LossTypes
  <1>n. \A j \in Keys : /\ recorded[j] \in Nat /\ total[j] \in Nat /\ missed[j] \in Nat
                        /\ Delta(prev, got)[j] \in Nat /\ Unseen[j] \in Nat
                        /\ Baseline[j] \in Nat
    BY <1>t, <1>l DEF TypeOK, Counts
  <1>b. ~blurred
    BY <1>t DEF Next, Collect, Serve, Stop, Start, Fetch, FetchFails, Record, RecordFails, vars, TypeOK
  <1>a. \A j \in Keys : recorded[j] + Pending(j) + missed[j] = total[j]
    BY <1>b DEF IInv, EveryIncrementAccounted
  <1> SUFFICES ASSUME NEW j \in Keys
               PROVE  recorded'[j] + Pending(j)' + missed'[j] = total'[j]
    BY DEF EveryIncrementAccounted
  <1>1. ASSUME NEW k \in Keys, Serve(k)
        PROVE  recorded'[j] + Pending(j)' + missed'[j] = total'[j]
    <2>1. up /\ UNCHANGED <<up, got, prev, recorded, missed>> /\ Last' = Last
      BY <1>1 DEF Serve, Last
    <2>2. total'[j] = total[j] + (IF j = k THEN 1 ELSE 0)
      BY <1>1, <1>t DEF Serve, TypeOK, Counts
    <2>3. Unseen'[j] = Unseen[j] + (IF j = k THEN 1 ELSE 0)
      <3>1. CASE Last = NoScrape
        BY <1>1, <1>t, <2>1, <3>1 DEF Serve, Unseen, TypeOK, Scrapes, Counts
      <3>2. CASE Last # NoScrape
        <4>1. Before(Last, cur)
          BY <3>2, <1>b DEF IInv, OrderInv, Last
        <4>2. Delta(Last, cur')[j] = Delta(Last, cur)[j] + (IF j = k THEN 1 ELSE 0)
          BY <1>1, <1>t, <1>l, <3>2, <4>1, DeltaInc DEF Serve, TypeOK
        <4> QED
          BY <2>1, <3>2, <4>2 DEF Unseen
      <3> QED
        BY <3>1, <3>2
    <2>4. Baseline' = Baseline
      BY <2>1 DEF Baseline
    <2> QED
      BY <1>a, <1>n, <2>1, <2>2, <2>3, <2>4 DEF Pending
  <1>2. CASE Stop
    <2>1. up /\ ~up' /\ UNCHANGED <<total, got, prev, recorded>> /\ Baseline' = Baseline
      BY <1>2 DEF Stop, Baseline
    <2>2. missed'[j] = missed[j] + Unseen[j]
      BY <1>2, <1>t, <1>l, PlusType DEF Stop, TypeOK
    <2> QED
      BY <1>a, <1>n, <2>1, <2>2 DEF Pending
  <1>3. CASE Start
    <2>1. ~up /\ up' /\ UNCHANGED <<total, got, prev, recorded, missed>> /\ Baseline' = Baseline
      BY <1>3 DEF Start, Baseline
    <2>2. cur'.n = Zero /\ Last' = Last
      BY <1>3 DEF Start, Last
    <2>3. Delta(Last, cur')[j] = 0 /\ Zero[j] = 0
      BY <2>2, <1>t, <1>l, DeltaZero DEF TypeOK, Zero
    <2>4. Unseen'[j] = 0
      BY <2>2, <2>3 DEF Unseen
    <2> QED
      BY <1>a, <1>n, <2>1, <2>4 DEF Pending
  <1>4. CASE Fetch
    <2>1. /\ up /\ up' /\ got = NoScrape /\ got' = cur
          /\ UNCHANGED <<recorded, total, prev, cur, missed>>
      BY <1>4 DEF Fetch
    <2>2. Last = prev /\ cur # NoScrape
      BY <2>1 DEF Last, IInv, OrderInv, NoScrape
    <2>3. Last' = cur
      BY <2>1, <2>2 DEF Last
    <2>4. Delta(cur, cur)[j] = 0 /\ Delta(NoScrape, cur)[j] = 0 /\ Zero[j] = 0
      BY <1>t, DeltaNone DEF TypeOK, Zero
    <2>5. Unseen'[j] = 0
      BY <2>1, <2>2, <2>3, <2>4 DEF Unseen
    <2>6. Delta(prev', got')[j] + Baseline'[j] = Unseen[j]
      BY <1>n, <2>1, <2>2, <2>4 DEF Unseen, Baseline
    <2>7. Pending(j) = Unseen[j]
      BY <1>n, <2>1 DEF Pending
    <2>8. Pending(j)' = Unseen[j] + 0
      BY <2>1, <2>2, <2>5, <2>6 DEF Pending
    <2> QED
      BY <1>a, <1>n, <2>1, <2>7, <2>8
  <1>5. CASE FetchFails
    BY <1>5, <1>a DEF FetchFails, Pending, Unseen, Last, Baseline
  <1>6. ASSUME got # NoScrape, got' = NoScrape, prev' = got, UNCHANGED <<up, cur, total>>,
               recorded'[j] + missed'[j]
                 = recorded[j] + missed[j] + Delta(prev, got)[j] + Baseline[j]
        PROVE  recorded'[j] + Pending(j)' + missed'[j] = total'[j]
    <2>1. Unseen' = Unseen
      BY <1>6 DEF Unseen, Last
    <2>2. recorded'[j] \in Nat /\ missed'[j] \in Nat
      BY <1>t DEF TypeOK, Counts
    <2>3. Pending(j)' = IF up THEN Unseen[j] ELSE 0
      BY <1>6, <1>n, <2>1 DEF Pending
    <2>4. Pending(j) = Delta(prev, got)[j] + Baseline[j] + (IF up THEN Unseen[j] ELSE 0)
      BY <1>6 DEF Pending
    <2> QED
      BY <1>6, <1>a, <1>n, <2>2, <2>3, <2>4
  <1>7. CASE Record
    <2>1. /\ recorded'[j] = recorded[j] + Delta(prev, got)[j]
          /\ missed'[j] = missed[j] + Baseline[j]
      BY <1>7, <1>t, <1>l, PlusType DEF Record, TypeOK
    <2>2. /\ got # NoScrape /\ got' = NoScrape /\ prev' = got /\ UNCHANGED <<up, cur, total>>
      BY <1>7 DEF Record
    <2> QED
      BY <1>6, <1>n, <2>1, <2>2
  <1>8. CASE RecordFails
    <2> PICK S \in SUBSET Keys :
          /\ recorded' = Plus(recorded, On(Delta(prev, got), S))
          /\ missed' = Plus(missed, Plus(Baseline, On(Delta(prev, got), Keys \ S)))
      BY <1>8 DEF RecordFails
    <2> DEFINE in == On(Delta(prev, got), S)
               out == On(Delta(prev, got), Keys \ S)
    <2>1. in \in Counts /\ out \in Counts /\ in[j] + out[j] = Delta(prev, got)[j]
      BY <1>l, OnType
    <2>2. in[j] \in Nat /\ out[j] \in Nat
      BY <2>1 DEF Counts
    <2>3. recorded'[j] = recorded[j] + in[j] /\ missed'[j] = missed[j] + (Baseline[j] + out[j])
      BY <1>t, <1>l, <2>1, PlusType DEF TypeOK
    <2>4. /\ got # NoScrape /\ got' = NoScrape /\ prev' = got /\ UNCHANGED <<up, cur, total>>
      BY <1>8 DEF RecordFails
    <2> HIDE DEF in, out
    <2> QED
      BY <1>6, <1>n, <2>1, <2>2, <2>3, <2>4
  <1>9. CASE UNCHANGED vars
    BY <1>9, <1>a DEF vars, Pending, Unseen, Last, Baseline
  <1> QED
    BY <1>1, <1>2, <1>3, <1>4, <1>5, <1>7, <1>8, <1>9 DEF Next, Collect

LEMMA Invariance == Spec => []IInv
  <1>1. IInv /\ [Next]_vars => IInv'
    BY TypeStep, CountStep, OrderStep, AccountStep DEF IInv
  <1> QED
    BY InitInv, <1>1, PTL DEF Spec
-----------------------------------------------------------------------------
\* Every reachable state of the collector and the service it watches is well
\* typed.
THEOREM TypeCorrect == Spec => []TypeOK
  <1>1. IInv => TypeOK
    BY DEF IInv
  <1> QED
    BY <1>1, Invariance, PTL

\* Whatever is restarted, scraped late or left unwritten, the store never
\* shows more requests than were served, for any counters and any load.
THEOREM StoreNeverOvercounts == Spec => []NeverOvercounts
  <1>1. IInv => NeverOvercounts
    <2> SUFFICES ASSUME IInv, NEW k \in Keys PROVE recorded[k] <= total[k]
      BY DEF NeverOvercounts
    <2>1. Delta(prev, got)[k] \in Nat /\ Delta(Last, cur)[k] \in Nat
      BY LossTypes, DeltaType DEF IInv, TypeOK, Counts
    <2> QED
      BY <2>1 DEF IInv, TypeOK, CountInv, Counts
  <1> QED
    BY <1>1, Invariance, PTL

\* Unless two processes start in one rounded second, every increment is in the
\* store, about to be, or lost for one of the three reasons.
THEOREM NoSilentLoss == Spec => []EveryIncrementAccounted
  <1>1. IInv => EveryIncrementAccounted
    BY DEF IInv
  <1> QED
    BY <1>1, Invariance, PTL
=============================================================================
