---------------------------- MODULE ScriptsProofs ----------------------------
(***************************************************************************)
(* archive_orders.py and migrate.py for every number of runners, orders,   *)
(* files and columns: what the two databases and the schema hold after any *)
(* sequence of complete, cut and overlapping runs.                         *)
(***************************************************************************)
EXTENDS Scripts, TLAPS, FiniteSetTheorems, WellFoundedInduction

\* An id says which order is meant in the core database, where it is the
\* primary key, and among all orders that may ever be archived, though it is
\* reused among the others.
OldOnes == {o \in rows : o.day = 0}
KeyInv ==
    /\ \A o, p \in core : o.id = p.id => o = p
    /\ \A o, p \in OldOnes : o.id = p.id => o = p
    /\ archive \subseteq OldOnes
    /\ \E n \in Nat : \A o \in rows : o.id <= n

\* What a run read under the lock stays true as long as it holds the lock.
ArchiveInv ==
    \A r \in Runners : run[r].at \in {"scanned", "copied"} =>
        /\ lock = r
        /\ run[r].old = OldOrders(run[r].cutoff)
        /\ run[r].at = "copied" => run[r].old \subseteq archive

\* A file that is not pending is applied, and of the first pending one all
\* statements before the next: both stay true whoever else migrates.
MigrateInv ==
    \A r \in Runners :
        /\ run[r].at = "planning" =>
             /\ run[r].statement = 1
             /\ \A g \in 1 .. Files :
                   g < run[r].file => g \in run[r].pending \/ Applied(g)
        /\ run[r].at = "migrating" =>
             /\ run[r].pending # {}
             /\ \A g \in 1 .. Files : g \in run[r].pending \/ Applied(g)
             /\ \A k \in 1 .. Columns + 1 :
                   k < run[r].statement => <<Min(run[r].pending), k>> \in schema

IInv == TypeOK /\ KeyInv /\ ArchiveInv /\ MigrateInv /\ NoOrderLost /\ SchemaIsAPrefix
-----------------------------------------------------------------------------
(* Least and greatest elements.                                            *)

Below == {p \in Nat \X Nat : p[1] < p[2]}

LEMMA BelowWellFounded == IsWellFoundedOn(Below, Nat)
  <1>1. Below = OpToRel(<, Nat)
    BY DEF Below, OpToRel
  <1> QED
    BY <1>1, NatLessThanWellFounded

\* Min of a set of numbers is one of them, and none is smaller.
LEMMA HasLeast ==
    ASSUME NEW S \in SUBSET Nat, S # {}
    PROVE  Min(S) \in S /\ \A x \in S : Min(S) <= x
  <1>1. PICK m \in S : \A x \in S : ~ (<<x, m>> \in Below)
    BY BelowWellFounded, WFMin
  <1>2. \A x \in S : m <= x
    <2> TAKE x \in S
    <2>1. ~ (<<x, m>> \in Below) /\ x \in Nat /\ m \in Nat
      BY <1>1
    <2> QED
      BY <2>1 DEF Below
  <1> QED
    BY <1>2 DEF Min

\* So is Max, of a set that has a bound.
LEMMA HasGreatest ==
    ASSUME NEW S \in SUBSET Nat, S # {}, NEW n \in Nat, \A x \in S : x <= n
    PROVE  Max(S) \in S /\ \A x \in S : x <= Max(S)
  <1> DEFINE D == {d \in Nat : n - d \in S}
  <1>1. PICK s \in S : TRUE
    OBVIOUS
  <1>2. s \in Nat /\ n - s \in Nat /\ n - (n - s) = s
    OBVIOUS
  <1>3. n - s \in D
    BY <1>2
  <1> HIDE DEF D
  <1>4. D \in SUBSET Nat /\ D # {}
    BY <1>3 DEF D
  <1>5. PICK m \in D : \A d \in D : m <= d
    BY <1>4, HasLeast
  <1>6. n - m \in S /\ m \in Nat
    BY DEF D
  <1>7. \A x \in S : x <= n - m
    <2> TAKE x \in S
    <2>1. x \in Nat /\ n - x \in Nat /\ n - (n - x) = x
      OBVIOUS
    <2>2. n - x \in D
      BY <2>1 DEF D
    <2> QED
      BY <1>5, <1>6, <2>1, <2>2
  <1> QED
    BY <1>6, <1>7 DEF Max

\* The id SQLite gives a new order is above all ids of the core database.
LEMMA NextIdIsNew ==
    ASSUME TypeOK, KeyInv
    PROVE  NextId \in Nat /\ \A o \in core : o.id < NextId
  <1>1. CASE core = {}
    BY <1>1 DEF NextId
  <1>2. CASE core # {}
    <2>1. Ids(core) \in SUBSET Nat /\ Ids(core) # {}
      BY <1>2 DEF TypeOK, Ids
    <2>2. PICK n \in Nat : \A x \in Ids(core) : x <= n
      BY DEF TypeOK, KeyInv, Ids
    <2>3. Max(Ids(core)) \in Ids(core) /\ \A x \in Ids(core) : x <= Max(Ids(core))
      BY <2>1, <2>2, HasGreatest
    <2>4. \A o \in core : o.id \in Ids(core)
      BY DEF Ids
    <2> QED
      BY <1>2, <2>1, <2>3, <2>4 DEF NextId
  <1> QED
    BY <1>1, <1>2
-----------------------------------------------------------------------------
\* The states of a script, when these are the orders.
Scripts(orders) ==
    [at : {"idle", "opened", "scanned", "copied", "planning", "migrating"},
     cutoff : {0, 1}, old : SUBSET orders,
     pending : SUBSET (1 .. Files), file : 1 .. Files + 1,
     statement : 1 .. Columns + 1, exit : {0, 1}]

LEMMA EndedType == \A code \in {0, 1} : Ended(code) \in Scripts(rows)
  BY ScriptsAssumption DEF Ended, Scripts

LEMMA RunType ==
    ASSUME TypeOK, NEW r \in Runners, NEW x \in Scripts(rows),
           run' = [run EXCEPT ![r] = x]
    PROVE  run' \in [Runners -> Scripts(rows)]
  BY DEF TypeOK, Scripts

LEMMA InitInv == Init => IInv
  <1> SUFFICES ASSUME Init PROVE IInv
    OBVIOUS
  <1>1. core = {Order(1, 0, 1), Order(2, 0, 2), Order(3, 1, 3)} /\ rows = core
    BY DEF Init
  <1>2. IsFiniteSet({Order(1, 0, 1), Order(2, 0, 2), Order(3, 1, 3)})
    <2>1. IsFiniteSet({Order(1, 0, 1)})
      BY FS_Singleton
    <2>2. IsFiniteSet({Order(1, 0, 1)} \cup {Order(2, 0, 2)})
      BY <2>1, FS_AddElement
    <2>3. IsFiniteSet(({Order(1, 0, 1)} \cup {Order(2, 0, 2)}) \cup {Order(3, 1, 3)})
      BY <2>2, FS_AddElement
    <2>4. ({Order(1, 0, 1)} \cup {Order(2, 0, 2)}) \cup {Order(3, 1, 3)}
             = {Order(1, 0, 1), Order(2, 0, 2), Order(3, 1, 3)}
      OBVIOUS
    <2> QED
      BY <2>3, <2>4
  <1>3. TypeOK
    <2>1. rows \subseteq [id : Nat, day : {0, 1}, row : Nat]
      BY <1>1 DEF Order
    <2> QED
      BY <1>1, <1>2, <2>1, EndedType DEF Init, TypeOK, Scripts
  <1>4. KeyInv
    <2>1. \A o \in rows : o.id <= 3
      BY <1>1 DEF Order
    <2>2. \A o, p \in rows : o.id = p.id => o = p
      BY <1>1 DEF Order
    <2> QED
      BY <1>1, <2>1, <2>2 DEF KeyInv, OldOnes, Init
  <1>5. ArchiveInv /\ MigrateInv
    BY DEF Init, ArchiveInv, MigrateInv, Ended
  <1>6. NoOrderLost /\ SchemaIsAPrefix
    BY DEF Init, NoOrderLost, SchemaIsAPrefix
  <1> QED
    BY <1>3, <1>4, <1>5, <1>6 DEF IInv
-----------------------------------------------------------------------------
\* The first pending file is one of them.
LEMMA FirstPending ==
    ASSUME TypeOK, NEW r \in Runners, run[r].pending # {}
    PROVE  /\ Min(run[r].pending) \in run[r].pending
           /\ Min(run[r].pending) \in 1 .. Files
           /\ \A g \in run[r].pending : Min(run[r].pending) <= g
  <1>1. run[r].pending \in SUBSET (1 .. Files)
    BY DEF TypeOK
  <1>2. run[r].pending \in SUBSET Nat
    BY <1>1, ScriptsAssumption
  <1> QED
    BY <1>1, <1>2, HasLeast

LEMMA TypeStep == TypeOK /\ KeyInv /\ MigrateInv /\ [Next]_vars => TypeOK'
  <1> SUFFICES ASSUME TypeOK, KeyInv, MigrateInv, [Next]_vars PROVE TypeOK'
    OBVIOUS
  <1> USE ScriptsAssumption DEF TypeOK
  <1>1. CASE PlaceOrder
    <2> DEFINE order == Order(NextId, 1, Cardinality(rows) + 1)
    <2>1. core' = core \cup {order} /\ rows' = rows \cup {order}
      BY <1>1 DEF PlaceOrder
    <2>2. order \in [id : Nat, day : {0, 1}, row : Nat]
      <3>1. NextId \in Nat
        BY NextIdIsNew
      <3>2. Cardinality(rows) + 1 \in Nat
        BY FS_CardinalityType
      <3> QED
        BY <3>1, <3>2 DEF Order
    <2>3. IsFiniteSet(rows')
      BY <2>1, FS_AddElement
    <2> QED
      BY <1>1, <2>1, <2>2, <2>3 DEF PlaceOrder
  <1>2. ASSUME NEW r \in Runners, Step(r) PROVE TypeOK'
    <2>1. CASE BeginArchive(r)
      <3>1. PICK c \in Cutoffs :
               run' = [run EXCEPT ![r] = [Ended(0) EXCEPT !.at = "opened", !.cutoff = c]]
        BY <2>1 DEF BeginArchive
      <3>2. [Ended(0) EXCEPT !.at = "opened", !.cutoff = c] \in Scripts(rows)
        BY EndedType DEF Scripts
      <3>3. run' \in [Runners -> Scripts(rows)]
        BY <3>1, <3>2, RunType
      <3> QED
        BY <2>1, <3>3 DEF BeginArchive, Scripts
    <2>2. CASE LockAndScan(r)
      <3>1. Scan(run[r].cutoff) \in SUBSET rows
        BY DEF Scan, OldOrders
      <3>2. run' \in [Runners -> Scripts(rows)]
        <4> DEFINE x == [run[r] EXCEPT !.at = "scanned", !.old = Scan(run[r].cutoff)]
        <4>1. x \in Scripts(rows)
          BY <3>1 DEF Scripts
        <4>2. run' = [run EXCEPT ![r] = x]
          BY <2>2 DEF LockAndScan
        <4> QED
          BY <4>1, <4>2, RunType
      <3> QED
        BY <2>2, <3>2 DEF LockAndScan, Scripts
    <2>3. CASE CopyOld(r)
      BY <2>3 DEF CopyOld, Goes
    <2>4. CASE DeleteOld(r)
      BY <2>4, EndedType DEF DeleteOld, Ends, Scripts
    <2>5. CASE BeginMigrate(r)
      BY <2>5, EndedType DEF BeginMigrate, Scripts
    <2>6. CASE Plan(r)
      <3> DEFINE f == run[r].file
                 more == run[r].pending \cup {g \in {f} : ~Applied(g)}
      <3>1. run' = [run EXCEPT ![r].file = f + 1, ![r].pending = more] /\ f <= Files
        BY <2>6 DEF Plan
      <3>2. f + 1 \in 1 .. Files + 1 /\ more \in SUBSET (1 .. Files)
        BY <3>1
      <3> HIDE DEF more
      <3>3. run' \in [Runners -> Scripts(rows)]
        <4> DEFINE x == [run[r] EXCEPT !.file = f + 1, !.pending = more]
        <4>1. x \in Scripts(rows)
          BY <3>2 DEF Scripts
        <4>2. run' = [run EXCEPT ![r] = x]
          BY <3>1
        <4> QED
          BY <4>1, <4>2, RunType
      <3> QED
        BY <2>6, <3>3 DEF Plan, Scripts
    <2>7. CASE Planned(r)
      <3>1. CASE Ends(r, 0)
        BY <2>7, <3>1, EndedType DEF Planned, Ends, Scripts
      <3>2. CASE Goes(r, "migrating")
        BY <2>7, <3>2 DEF Planned, Goes
      <3> QED
        BY <2>7, <3>1, <3>2 DEF Planned
    <2>8. CASE Execute(r)
      <3>1. Min(run[r].pending) \in 1 .. Files
        BY <2>8, FirstPending DEF Execute, At, MigrateInv
      <3> DEFINE f == Min(run[r].pending)
      <3> HIDE DEF f
      <3>2. run[r].statement \in 1 .. Columns + 1 /\ f \in 1 .. Files
        BY <3>1 DEF f
      <3>3. schema' \subseteq Statements
        BY <2>8, <3>2 DEF Execute, f, Statements
      <3>4. \/ run' = [run EXCEPT ![r].statement = run[r].statement + 1]
               /\ run[r].statement <= Columns
            \/ run' = [run EXCEPT ![r] = Ended(0)]
            \/ run' = [run EXCEPT ![r] = Ended(1)]
            \/ run' = [run EXCEPT ![r].pending = run[r].pending \ {f}, ![r].statement = 1]
        BY <2>8 DEF Execute, DuplicateColumn, NextFile, Ends, f
      <3>5. run' \in [Runners -> Scripts(rows)]
        <4>1. [run[r] EXCEPT !.statement = 1, !.pending = run[r].pending \ {f}] \in Scripts(rows)
          <5> DEFINE left == run[r].pending \ {f}
          <5>1. left \in SUBSET (1 .. Files) /\ 1 \in 1 .. Columns + 1
            OBVIOUS
          <5> HIDE DEF left
          <5>2. [run[r] EXCEPT !.statement = 1, !.pending = left] \in Scripts(rows)
            BY <5>1 DEF Scripts
          <5> QED
            BY <5>2 DEF left
        <4>2. run[r].statement <= Columns =>
                 [run[r] EXCEPT !.statement = run[r].statement + 1] \in Scripts(rows)
          BY <3>2 DEF Scripts
        <4> QED
          BY <3>4, <4>1, <4>2, EndedType, RunType DEF Scripts
      <3> QED
        BY <2>8, <3>3, <3>5 DEF Execute, Scripts
    <2>9. CASE Fails(r)
      BY <2>9, EndedType DEF Fails, Ends, Scripts
    <2> QED
      BY <1>2, <2>1, <2>2, <2>3, <2>4, <2>5, <2>6, <2>7, <2>8, <2>9 DEF Step
  <1>3. CASE UNCHANGED vars
    BY <1>3 DEF vars
  <1> QED
    BY <1>1, <1>2, <1>3 DEF Next
-----------------------------------------------------------------------------
(* The archive.                                                            *)

\* What a run is going to move is old: the newest orders, whose ids may be
\* given out again, are not among it.
LEMMA MovesOldOnes ==
    ASSUME TypeOK, ArchiveInv, NEW r \in Runners, run[r].at \in {"scanned", "copied"}
    PROVE  run[r].old \subseteq core /\ run[r].old \subseteq OldOnes
  <1>1. \A o \in run[r].old : o \in core /\ o.day < run[r].cutoff
    BY DEF ArchiveInv, OldOrders
  <1>2. run[r].cutoff \in {0, 1} /\ \A o \in core : o \in rows /\ o.day \in {0, 1}
    BY DEF TypeOK
  <1> QED
    BY <1>1, <1>2 DEF OldOnes

\* The three steps that change the rows of a database; no other does.
LEMMA RowSteps ==
    ASSUME [Next]_vars
    PROVE  \/ PlaceOrder
           \/ \E r \in Runners : CopyOld(r)
           \/ \E r \in Runners : DeleteOld(r)
           \/ UNCHANGED <<core, archive, rows>>
  BY DEF Next, Step, BeginArchive, LockAndScan, BeginMigrate, Plan, Planned, Execute,
     Fails, vars

LEMMA KeyStep ==
    TypeOK /\ KeyInv /\ ArchiveInv /\ [Next]_vars => KeyInv'
  <1> SUFFICES ASSUME TypeOK, KeyInv, ArchiveInv, [Next]_vars PROVE KeyInv'
    OBVIOUS
  <1>1. CASE PlaceOrder
    <2> DEFINE order == Order(NextId, 1, Cardinality(rows) + 1)
    <2>1. core' = core \cup {order} /\ rows' = rows \cup {order} /\ archive' = archive
      BY <1>1 DEF PlaceOrder
    <2>2. order.id = NextId /\ order.day = 1
      BY DEF Order
    <2>3. NextId \in Nat /\ \A o \in core : o.id < NextId /\ o.id \in Nat
      BY NextIdIsNew DEF TypeOK
    <2> HIDE DEF order
    <2>4. OldOnes' = OldOnes
      BY <2>1, <2>2 DEF OldOnes
    <2>5. \A o, p \in core' : o.id = p.id => o = p
      <3>1. \A o, p \in core : o.id = p.id => o = p
        BY DEF KeyInv
      <3>2. \A o \in core : o.id # order.id
        BY <2>2, <2>3
      <3> QED
        BY <2>1, <3>1, <3>2
    <2>6. \E n \in Nat : \A o \in rows' : o.id <= n
      <3>1. PICK n \in Nat : \A o \in rows : o.id <= n
        BY DEF KeyInv
      <3>2. \A o \in rows : o.id \in Nat
        BY DEF TypeOK
      <3>3. \A o \in rows' : o.id <= n + NextId
        BY <2>1, <2>2, <2>3, <3>1, <3>2
      <3> QED
        BY <2>3, <3>3
    <2>7. \A o, p \in OldOnes' : o.id = p.id => o = p
      BY <2>4 DEF KeyInv
    <2>8. archive' \subseteq OldOnes'
      BY <2>1, <2>4 DEF KeyInv
    <2> QED
      BY <2>5, <2>6, <2>7, <2>8 DEF KeyInv
  <1>2. ASSUME NEW r \in Runners, CopyOld(r) PROVE KeyInv'
    <2>1. run[r].old \subseteq OldOnes
      BY <1>2, MovesOldOnes DEF CopyOld, At
    <2>2. archive' \subseteq OldOnes
      BY <1>2, <2>1 DEF CopyOld, KeyInv
    <2>3. UNCHANGED <<core, rows, OldOnes>>
      BY <1>2 DEF CopyOld, OldOnes
    <2> QED
      BY <2>2, <2>3 DEF KeyInv
  <1>3. ASSUME NEW r \in Runners, DeleteOld(r) PROVE KeyInv'
    <2>1. core' \subseteq core /\ UNCHANGED <<rows, archive, OldOnes>>
      BY <1>3 DEF DeleteOld, OldOnes
    <2> QED
      BY <2>1 DEF KeyInv
  <1>4. CASE UNCHANGED <<core, archive, rows>>
    <2>1. UNCHANGED OldOnes
      BY <1>4 DEF OldOnes
    <2> QED
      BY <1>4, <2>1 DEF KeyInv
  <1> QED
    BY <1>1, <1>2, <1>3, <1>4, RowSteps

LEMMA LostStep ==
    TypeOK /\ KeyInv /\ ArchiveInv /\ NoOrderLost /\ [Next]_vars => NoOrderLost'
  <1> SUFFICES ASSUME TypeOK, KeyInv, ArchiveInv, NoOrderLost, [Next]_vars
               PROVE  NoOrderLost'
    OBVIOUS
  <1> USE DEF NoOrderLost
  <1>1. CASE PlaceOrder
    BY <1>1 DEF PlaceOrder
  <1>2. ASSUME NEW r \in Runners, CopyOld(r) PROVE NoOrderLost'
    <2>1. run[r].old \subseteq OldOnes
      BY <1>2, MovesOldOnes DEF CopyOld, At
    <2>2. ASSUME NEW o \in archive, o.id \in Ids(run[r].old) PROVE o \in run[r].old
      <3>1. PICK p \in run[r].old : p.id = o.id
        BY <2>2 DEF Ids
      <3>2. o \in OldOnes /\ p \in OldOnes
        BY <2>1 DEF KeyInv
      <3> QED
        BY <3>1, <3>2 DEF KeyInv
    <2>3. archive \subseteq archive'
      BY <1>2, <2>2 DEF CopyOld
    <2> QED
      BY <1>2, <2>3 DEF CopyOld
  <1>3. ASSUME NEW r \in Runners, DeleteOld(r) PROVE NoOrderLost'
    <2>1. run[r].old \subseteq core /\ run[r].old \subseteq archive
      BY <1>3, MovesOldOnes DEF DeleteOld, At, ArchiveInv
    <2>2. ASSUME NEW o \in core, o.id \in Ids(run[r].old) PROVE o \in archive
      <3>1. PICK p \in run[r].old : p.id = o.id
        BY <2>2 DEF Ids
      <3> QED
        BY <2>1, <3>1 DEF KeyInv
    <2> QED
      BY <1>3, <2>2 DEF DeleteOld
  <1>4. CASE UNCHANGED <<core, archive, rows>>
    BY <1>4
  <1> QED
    BY <1>1, <1>2, <1>3, <1>4, RowSteps

LEMMA ArchiveStep ==
    TypeOK /\ KeyInv /\ ArchiveInv /\ [Next]_vars => ArchiveInv'
  <1> SUFFICES ASSUME TypeOK, KeyInv, ArchiveInv, [Next]_vars,
                      NEW q \in Runners, run'[q].at \in {"scanned", "copied"}
               PROVE  /\ lock' = q
                      /\ run'[q].old = {o \in core' : o.day < run'[q].cutoff}
                      /\ run'[q].at = "copied" => run'[q].old \subseteq archive'
    BY DEF ArchiveInv, OldOrders
  <1>0. run \in [Runners -> Scripts(rows)]
    BY DEF TypeOK, Scripts
  <1>1. CASE PlaceOrder
    BY <1>1, NobodyAssumption DEF PlaceOrder, ArchiveInv, OldOrders
  <1>2. CASE UNCHANGED vars
    BY <1>2 DEF vars, ArchiveInv, OldOrders
  <1>3. ASSUME NEW r \in Runners, Step(r)
        PROVE  /\ lock' = q
               /\ run'[q].old = {o \in core' : o.day < run'[q].cutoff}
               /\ run'[q].at = "copied" => run'[q].old \subseteq archive'
    <2>1. CASE BeginArchive(r) \/ BeginMigrate(r) \/ Plan(r) \/ Planned(r) \/ Execute(r)
      <3>1. UNCHANGED <<core, archive, lock>>
        BY <2>1 DEF BeginArchive, BeginMigrate, Plan, Planned, Execute
      <3>2. q # r /\ run'[q] = run[q]
        <4>1. CASE BeginArchive(r)
          BY <4>1, <1>0 DEF BeginArchive, Ended, Scripts
        <4>2. CASE BeginMigrate(r)
          BY <4>2, <1>0 DEF BeginMigrate, Ended, Scripts
        <4>3. CASE Plan(r)
          BY <4>3, <1>0 DEF Plan, At, Scripts
        <4>4. CASE Planned(r)
          BY <4>4, <1>0 DEF Planned, At, Goes, Ends, Ended, Scripts
        <4>5. CASE Execute(r)
          BY <4>5, <1>0 DEF Execute, At, NextFile, DuplicateColumn, Ends, Ended, Scripts
        <4> QED
          BY <2>1, <4>1, <4>2, <4>3, <4>4, <4>5
      <3> QED
        BY <3>1, <3>2 DEF ArchiveInv, OldOrders
    <2>2. CASE LockAndScan(r)
      <3>1. q = r
        BY <2>2, <1>0, NobodyAssumption DEF LockAndScan, ArchiveInv
      <3> QED
        BY <2>2, <3>1, <1>0 DEF LockAndScan, Scan, OldOrders, Scripts
    <2>3. CASE CopyOld(r)
      <3>1. lock = r
        BY <2>3 DEF CopyOld, At, ArchiveInv
      <3>2. q = r
        BY <2>3, <3>1, <1>0 DEF CopyOld, Goes, ArchiveInv
      <3> QED
        BY <2>3, <3>1, <3>2, <1>0 DEF CopyOld, Goes, At, ArchiveInv, OldOrders, Scripts
    <2>4. CASE DeleteOld(r) \/ Fails(r)
      <3>1. run' = [run EXCEPT ![r] = Ended(0)] \/ run' = [run EXCEPT ![r] = Ended(1)]
        BY <2>4 DEF DeleteOld, Fails, Ends
      <3>2. q # r /\ run'[q] = run[q]
        BY <3>1, <1>0 DEF Ended
      <3>3. lock = q
        BY <3>2 DEF ArchiveInv
      <3>4. ~ DeleteOld(r)
        BY <3>2, <3>3 DEF DeleteOld, At, ArchiveInv
      <3> QED
        BY <2>4, <3>2, <3>3, <3>4 DEF Fails, ArchiveInv, OldOrders
    <2> QED
      BY <1>3, <2>1, <2>2, <2>3, <2>4 DEF Step
  <1> QED
    BY <1>1, <1>2, <1>3 DEF Next
-----------------------------------------------------------------------------
(* The migrations.                                                         *)

\* Statements of migration files only take effect, and one at a time: the one
\* that is next for a run, in its first pending file.
LEMMA SchemaSteps ==
    ASSUME TypeOK, [Next]_vars
    PROVE  \/ schema' = schema
           \/ \E r \in Runners :
                /\ run[r].at = "migrating"
                /\ schema' = schema \cup {<<Min(run[r].pending), run[r].statement>>}
  BY DEF Next, Step, PlaceOrder, BeginArchive, LockAndScan, CopyOld, DeleteOld,
     BeginMigrate, Plan, Planned, Execute, At, Fails, vars

LEMMA PrefixStep ==
    TypeOK /\ MigrateInv /\ SchemaIsAPrefix /\ [Next]_vars => SchemaIsAPrefix'
  <1> SUFFICES ASSUME TypeOK, MigrateInv, SchemaIsAPrefix, [Next]_vars,
                      NEW s \in Statements, NEW t \in schema', Before(s, t)
               PROVE  s \in schema'
    BY DEF SchemaIsAPrefix, Statements, Before
  <1>1. CASE schema' = schema
    BY <1>1 DEF SchemaIsAPrefix
  <1>2. ASSUME NEW r \in Runners, run[r].at = "migrating",
               schema' = schema \cup {<<Min(run[r].pending), run[r].statement>>}
        PROVE  s \in schema'
    <2>1. CASE t \in schema
      BY <1>2, <2>1 DEF SchemaIsAPrefix
    <2>2. CASE t \notin schema
      <3> DEFINE f == Min(run[r].pending)
      <3>1. f \in 1 .. Files /\ \A g \in run[r].pending : f <= g
        BY <1>2, FirstPending DEF MigrateInv
      <3>2. /\ \A g \in 1 .. Files : g \in run[r].pending \/ Applied(g)
            /\ \A k \in 1 .. Columns + 1 : k < run[r].statement => <<f, k>> \in schema
        BY <1>2 DEF MigrateInv
      <3> HIDE DEF f
      <3>3. t[1] = f /\ t[2] = run[r].statement
        BY <1>2, <2>2 DEF f
      <3>4. PICK g \in 1 .. Files, k \in 1 .. Columns + 1 : s = <<g, k>>
        BY DEF Statements
      <3>5. CASE g = f /\ k < run[r].statement
        BY <1>2, <3>2, <3>4, <3>5
      <3>6. CASE g < f
        <4>1. g \notin run[r].pending
          BY <3>1, <3>6, ScriptsAssumption
        <4>2. <<g, Columns + 1>> \in schema
          BY <3>2, <4>1 DEF Applied
        <4>3. k = Columns + 1 \/ Before(s, <<g, Columns + 1>>)
          BY <3>4, ScriptsAssumption DEF Before
        <4>4. s \in schema
          BY <3>4, <4>2, <4>3 DEF SchemaIsAPrefix
        <4> QED
          BY <1>2, <4>4
      <3> QED
        BY <3>3, <3>4, <3>5, <3>6 DEF Before
    <2> QED
      BY <2>1, <2>2
  <1> QED
    BY <1>1, <1>2, SchemaSteps

LEMMA MigrateStep ==
    TypeOK /\ TypeOK' /\ MigrateInv /\ [Next]_vars => MigrateInv'
  <1> SUFFICES ASSUME TypeOK, TypeOK', MigrateInv, [Next]_vars, NEW q \in Runners
               PROVE  /\ run'[q].at = "planning" =>
                           /\ run'[q].statement = 1
                           /\ \A g \in 1 .. Files :
                                 g < run'[q].file => g \in run'[q].pending \/ Applied(g)'
                      /\ run'[q].at = "migrating" =>
                           /\ run'[q].pending # {}
                           /\ \A g \in 1 .. Files : g \in run'[q].pending \/ Applied(g)'
                           /\ \A k \in 1 .. Columns + 1 :
                                 k < run'[q].statement => <<Min(run'[q].pending), k>> \in schema'
    BY DEF MigrateInv, Applied
  <1>0. schema \subseteq schema' /\ \A g : Applied(g) => Applied(g)'
    BY SchemaSteps DEF Applied
  <1>1. run \in [Runners -> Scripts(rows)]
    BY DEF TypeOK, Scripts
  <1>2. CASE run'[q] = run[q]
    BY <1>0, <1>2 DEF MigrateInv
  <1>3. CASE run'[q].at \notin {"planning", "migrating"}
    BY <1>3
  <1>4. CASE run' = [run EXCEPT ![q] = [Ended(0) EXCEPT !.at = "planning"]]
    BY <1>1, <1>4 DEF Ended
  <1>5. CASE Plan(q)
    <2> DEFINE f == run[q].file
    <2>1. /\ run'[q].at = "planning" /\ run'[q].file = f + 1
          /\ run'[q].pending = run[q].pending \cup {g \in {f} : ~Applied(g)}
          /\ run'[q].statement = run[q].statement
      BY <1>1, <1>5 DEF Plan, At, Scripts
    <2>2. /\ run[q].statement = 1
          /\ \A g \in 1 .. Files : g < f => g \in run[q].pending \/ Applied(g)
      BY <1>5 DEF Plan, At, MigrateInv
    <2>3. f \in Nat
      BY ScriptsAssumption DEF TypeOK
    <2>4. \A g \in 1 .. Files : g < f + 1 => g < f \/ g = f
      BY <2>3, ScriptsAssumption
    <2> QED
      BY <1>0, <2>1, <2>2, <2>4
  <1>6. CASE Planned(q)
    <2>1. CASE run[q].pending = {}
      BY <1>1, <1>3, <1>6, <2>1 DEF Planned, Ends, Ended
    <2>2. CASE run[q].pending # {}
      <3>1. /\ run'[q].at = "migrating" /\ run'[q].pending = run[q].pending
            /\ run'[q].statement = run[q].statement
            /\ run[q].at = "planning" /\ run[q].file > Files
        BY <1>1, <1>6, <2>2 DEF Planned, At, Goes, Scripts
      <3>2. /\ run[q].statement = 1
            /\ \A g \in 1 .. Files : g \in run[q].pending \/ Applied(g)
        BY <3>1, ScriptsAssumption DEF MigrateInv, TypeOK
      <3> QED
        BY <1>0, <2>2, <3>1, <3>2, ScriptsAssumption
    <2> QED
      BY <2>1, <2>2
  <1>7. CASE Execute(q)
    <2> DEFINE f == Min(run[q].pending)
               s == run[q].statement
    <2>1. /\ \A g \in 1 .. Files : g \in run[q].pending \/ Applied(g)
          /\ \A k \in 1 .. Columns + 1 : k < s => <<f, k>> \in schema
          /\ run[q].pending # {} /\ run[q].at = "migrating"
      BY <1>7 DEF Execute, At, MigrateInv
    <2>2. s \in 1 .. Columns + 1
      BY DEF TypeOK
    <2>3. CASE s <= Columns /\ <<f, s>> \notin schema
      <3>1. /\ run'[q].at = "migrating" /\ run'[q].pending = run[q].pending
            /\ run'[q].statement = s + 1 /\ schema' = schema \cup {<<f, s>>}
        BY <1>1, <1>7, <2>1, <2>2, <2>3, ScriptsAssumption DEF Execute, Scripts
      <3>2. \A k \in 1 .. Columns + 1 : k < s + 1 => k < s \/ k = s
        BY <2>2, ScriptsAssumption
      <3> HIDE DEF f
      <3>3. \A k \in 1 .. Columns + 1 : k < s + 1 => <<f, k>> \in schema'
        BY <2>1, <3>1, <3>2
      <3> QED
        BY <1>0, <2>1, <3>1, <3>3 DEF f
    <2>4. CASE s <= Columns /\ <<f, s>> \in schema
      BY <1>1, <1>3, <1>7, <2>2, <2>4, ScriptsAssumption
         DEF Execute, DuplicateColumn, Ends, Ended
    <2>5. CASE s = Columns + 1
      <3> DEFINE left == run[q].pending \ {f}
      <3>1. NextFile(q) /\ schema' = schema \cup {<<f, Columns + 1>>}
        BY <1>7, <2>5, ScriptsAssumption DEF Execute
      <3>2. CASE left = {}
        BY <1>1, <1>3, <3>1, <3>2 DEF NextFile, Ends, Ended
      <3>3. CASE left # {}
        <4>1. /\ run'[q].at = "migrating" /\ run'[q].pending = left
              /\ run'[q].statement = 1
          BY <1>1, <2>1, <3>1, <3>3 DEF NextFile, Scripts
        <4>2. <<f, Columns + 1>> \in schema'
          BY <3>1
        <4> HIDE DEF f
        <4>3. \A g \in 1 .. Files : g \in left \/ Applied(g)'
          <5> TAKE g \in 1 .. Files
          <5>1. CASE g = f
            BY <4>2, <5>1 DEF Applied
          <5>2. CASE g # f
            BY <1>0, <2>1, <5>2
          <5> QED
            BY <5>1, <5>2
        <4> QED
          BY <3>3, <4>1, <4>3
      <3> QED
        BY <3>2, <3>3
    <2> QED
      BY <2>2, <2>3, <2>4, <2>5, ScriptsAssumption
  <1>8. CASE BeginArchive(q) \/ LockAndScan(q) \/ CopyOld(q) \/ DeleteOld(q) \/ Fails(q)
    <2>1. CASE BeginArchive(q)
      BY <1>1, <1>3, <2>1 DEF BeginArchive, Ended
    <2>2. CASE LockAndScan(q)
      BY <1>1, <1>3, <2>2 DEF LockAndScan, Scripts
    <2>3. CASE CopyOld(q)
      BY <1>1, <1>3, <2>3 DEF CopyOld, Goes, Scripts
    <2>4. CASE DeleteOld(q) \/ Fails(q)
      <3>1. Ends(q, 0) \/ Ends(q, 1)
        BY <2>4 DEF DeleteOld, Fails
      <3> QED
        BY <1>1, <1>3, <3>1 DEF Ends, Ended
    <2> QED
      BY <1>8, <2>1, <2>2, <2>3, <2>4
  <1>9. ASSUME NEW r \in Runners, Step(r), r # q PROVE run'[q] = run[q]
    BY <1>1, <1>9 DEF Step, BeginArchive, LockAndScan, CopyOld, DeleteOld, BeginMigrate,
       Plan, Planned, Execute, NextFile, DuplicateColumn, Fails, Goes, Ends
  <1> QED
    BY <1>2, <1>4, <1>5, <1>6, <1>7, <1>8, <1>9
       DEF Next, Step, BeginMigrate, PlaceOrder, vars
-----------------------------------------------------------------------------
LEMMA StepInv == IInv /\ [Next]_vars => IInv'
  BY TypeStep, KeyStep, ArchiveStep, MigrateStep, LostStep, PrefixStep DEF IInv

LEMMA Invariance == Spec => []IInv
  BY InitInv, StepInv, PTL DEF Spec

\* Every reachable state is well typed: a pending file is one of the files,
\* and a run that deletes moves orders that were placed.
THEOREM TypeCorrect == Spec => []TypeOK
  <1>1. IInv => TypeOK
    BY DEF IInv
  <1> QED
    BY Invariance, <1>1, PTL

\* However often archive_orders.py is started, stopped or killed beside
\* checkouts and migrations, each order ever placed is in the core database
\* or in the archive, although ids are given out again and the two databases
\* commit one after the other.
THEOREM OrdersAreKept == Spec => []NoOrderLost
  <1>1. IInv => NoOrderLost
    BY DEF IInv
  <1> QED
    BY Invariance, <1>1, PTL

\* Whatever runs of migrate.py do to each other, and wherever they are cut
\* short, the schema is what one run from the start would have left.
THEOREM SchemaStaysAPrefix == Spec => []SchemaIsAPrefix
  <1>1. IInv => SchemaIsAPrefix
    BY DEF IInv
  <1> QED
    BY Invariance, <1>1, PTL

\* When every file has its last statement, every statement took effect.
LEMMA AllApplied ==
    ASSUME TypeOK', SchemaIsAPrefix', \A g \in 1 .. Files : Applied(g)'
    PROVE  schema' = Statements
  <1>1. schema' \subseteq Statements
    BY DEF TypeOK
  <1>2. ASSUME NEW s \in Statements PROVE s \in schema'
    <2>1. PICK g \in 1 .. Files, k \in 1 .. Columns + 1 : s = <<g, k>>
      BY DEF Statements
    <2>2. <<g, Columns + 1>> \in schema'
      BY DEF Applied
    <2>3. k = Columns + 1 \/ Before(s, <<g, Columns + 1>>)
      BY <2>1, ScriptsAssumption DEF Before
    <2> QED
      BY <2>1, <2>2, <2>3 DEF SchemaIsAPrefix
  <1> QED
    BY <1>1, <1>2

LEMMA SuccessStep ==
    ASSUME IInv, IInv', [Next]_vars, NEW q \in Runners, Succeeds(q)
    PROVE  IF run[q].at \in {"planning", "migrating"} THEN schema' = Statements
           ELSE \A o \in core' : o.day >= run[q].cutoff
  <1> USE DEF IInv
  <1>0. run \in [Runners -> Scripts(rows)]
    BY DEF TypeOK, Scripts
  <1>1. run[q].at # "idle" /\ run'[q].at = "idle" /\ run'[q].exit = 0
    BY DEF Succeeds, At
  <1>2. ASSUME NEW r \in Runners, Step(r) PROVE r = q
    BY <1>0, <1>1, <1>2 DEF Step, BeginArchive, LockAndScan, CopyOld, DeleteOld,
       BeginMigrate, Plan, Planned, Execute, NextFile, DuplicateColumn, Fails, Goes, Ends
  <1>3. Step(q)
    BY <1>1, <1>2 DEF Next, PlaceOrder, vars
  <1>4. ~ Fails(q)
    BY <1>0, <1>1 DEF Fails, Ends, Ended
  <1>5. CASE Planned(q)
    <2>1. run[q].at = "planning" /\ run[q].file > Files /\ run[q].pending = {}
      BY <1>0, <1>1, <1>5 DEF Planned, At, Goes, Scripts
    <2>2. \A g \in 1 .. Files : Applied(g)
      BY <2>1, ScriptsAssumption DEF MigrateInv, TypeOK
    <2>3. schema' = schema
      BY <1>5 DEF Planned
    <2> QED
      BY <2>1, <2>2, <2>3, AllApplied DEF Applied
  <1>6. CASE Execute(q)
    <2> DEFINE f == Min(run[q].pending)
    <2>1. /\ run[q].at = "migrating"
          /\ \A g \in 1 .. Files : g \in run[q].pending \/ Applied(g)
      BY <1>6 DEF Execute, At, MigrateInv
    <2>2. /\ run[q].pending \ {f} = {}
          /\ schema' = schema \cup {<<f, Columns + 1>>}
      <3>1. run'[q] # Ended(1) /\ run'[q].at # "migrating"
        BY <1>1 DEF Ended
      <3> HIDE DEF f
      <3>2. CASE NextFile(q) /\ schema' = schema \cup {<<f, Columns + 1>>}
        BY <1>0, <2>1, <3>1, <3>2 DEF NextFile, f, Scripts
      <3>3. CASE run' = [run EXCEPT ![q].statement = run[q].statement + 1]
        BY <1>0, <2>1, <3>1, <3>3 DEF Scripts
      <3>4. CASE DuplicateColumn(q)
        BY <1>0, <3>1, <3>4 DEF DuplicateColumn, Ends
      <3> QED
        BY <1>6, <3>2, <3>3, <3>4 DEF Execute, f
    <2> HIDE DEF f
    <2>3. \A g \in 1 .. Files : Applied(g)'
      BY <2>1, <2>2 DEF Applied
    <2> QED
      BY <2>1, <2>3, AllApplied
  <1>7. CASE DeleteOld(q)
    <2>1. run[q].at = "copied" /\ run[q].old = OldOrders(run[q].cutoff)
      BY <1>7 DEF DeleteOld, At, ArchiveInv
    <2>2. ASSUME NEW o \in core' PROVE o.day >= run[q].cutoff
      <3>1. o \in core /\ o.id \notin Ids(run[q].old)
        BY <1>7 DEF DeleteOld
      <3>2. ~ (o.day < run[q].cutoff)
        BY <2>1, <3>1 DEF Ids, OldOrders
      <3>3. o.day \in {0, 1} /\ run[q].cutoff \in {0, 1}
        BY <3>1 DEF TypeOK
      <3> QED
        BY <3>2, <3>3
    <2> QED
      BY <2>1, <2>2
  <1>8. ~ (BeginArchive(q) \/ LockAndScan(q) \/ CopyOld(q) \/ BeginMigrate(q) \/ Plan(q))
    BY <1>0, <1>1 DEF BeginArchive, LockAndScan, CopyOld, BeginMigrate, Plan, At, Goes,
       Scripts
  <1> QED
    BY <1>3, <1>4, <1>5, <1>6, <1>7, <1>8 DEF Step

\* Exit code 0 of archive_orders.py means that no order older than the
\* cutoff is left in the core database, of migrate.py that every file is
\* applied in full, whatever earlier runs left behind.
THEOREM ExitCodeIsHonest == Spec => SuccessMeansDone
  <1>1. IInv /\ IInv' /\ [Next]_vars =>
           [\A r \in Runners :
              Succeeds(r) =>
                 IF run[r].at \in {"planning", "migrating"} THEN schema' = Statements
                 ELSE \A o \in core' : o.day >= run[r].cutoff]_vars
    BY SuccessStep
  <1> QED
    BY Invariance, <1>1, PTL DEF Spec, SuccessMeansDone
=============================================================================
