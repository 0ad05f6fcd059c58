------------------------------ MODULE Scripts ------------------------------
(***************************************************************************)
(* The two operations scripts that write the core database while the       *)
(* service runs: scripts/archive_orders.py, which moves orders between two *)
(* databases that commit one after the other, and scripts/migrate.py,      *)
(* which runs every pending migration file statement by statement.  cron   *)
(* and the agent's shell may run either of them, at the same time, as      *)
(* often as they like; each may be killed, or get an error from SQLite, at *)
(* any step.                                                               *)
(*                                                                         *)
(* An order is its id, the day it was placed and a row number of the model *)
(* that tells two orders apart that were given the same id.  Day 0 lies    *)
(* before the retention window of a month; day 1 is the day of the         *)
(* incident.  Left out: --retention-days 0, which makes today's orders     *)
(* old; migrate.py without --apply, which changes nothing; the migrations  *)
(* of the ledger, which no script locks.                                   *)
(***************************************************************************)
EXTENDS FiniteSetsExt, Integers

CONSTANTS
    Runners,     \* who runs scripts: cron, the agent's shell
    Cutoffs,     \* the first days to keep that --retention-days asks for
    MaxRows,     \* bound: orders ever placed
    Files,       \* the number of files in migrations/ for the core database
    Columns      \* the number of columns each of them adds

ASSUME ScriptsAssumption ==
    /\ Cutoffs \subseteq {0, 1}
    /\ {MaxRows, Files, Columns} \subseteq Nat

VARIABLES
    core,        \* the orders of the core database
    archive,     \* the orders of data/orders_archive.db
    rows,        \* the orders placed so far
    schema,      \* the statements of the migration files that took effect
    lock,        \* who holds the core database's write lock
    run          \* what each runner's script is doing

vars == <<core, archive, rows, schema, lock, run>>

Nobody == "nobody"

ASSUME NobodyAssumption == Nobody \notin Runners

Ids(orders) == {o.id : o \in orders}

\* orders.id is an INTEGER PRIMARY KEY without AUTOINCREMENT.
NextId == IF core = {} THEN 1 ELSE Max(Ids(core)) + 1

Order(id, day, row) == [id |-> id, day |-> day, row |-> row]

\* A script that has ended with this exit code, or was never started.
Ended(code) ==
    [at |-> "idle", cutoff |-> 0, old |-> {}, pending |-> {}, file |-> 1,
     statement |-> 1, exit |-> code]

\* Statement Columns + 1 of a file records its version.
Statements == (1 .. Files) \X (1 .. Columns + 1)

TypeOK ==
    /\ rows \subseteq [id : Nat, day : {0, 1}, row : Nat] /\ IsFiniteSet(rows)
    /\ core \subseteq rows /\ archive \subseteq rows
    /\ schema \subseteq Statements
    /\ lock \in Runners \cup {Nobody}
    /\ run \in [Runners ->
                [at : {"idle", "opened", "scanned", "copied", "planning", "migrating"},
                 cutoff : {0, 1}, old : SUBSET rows,
                 pending : SUBSET (1 .. Files), file : 1 .. Files + 1,
                 statement : 1 .. Columns + 1, exit : {0, 1}]]

\* The world has orders of 90 days, the latest of them of today.
Init ==
    /\ core = {Order(1, 0, 1), Order(2, 0, 2), Order(3, 1, 3)}
    /\ rows = core
    /\ archive = {} /\ schema = {} /\ lock = Nobody
    /\ run = [r \in Runners |-> Ended(0)]

At(r, place) == run[r].at = place
Goes(r, place) == run' = [run EXCEPT ![r].at = place]
Ends(r, code) == run' = [run EXCEPT ![r] = Ended(code)]

\* A checkout: one transaction, which waits until the lock is free.
PlaceOrder ==
    /\ lock = Nobody
    /\ Cardinality(rows) < MaxRows
    /\ LET order == Order(NextId, 1, Cardinality(rows) + 1)
       IN  core' = core \cup {order} /\ rows' = rows \cup {order}
    /\ UNCHANGED <<archive, schema, lock, run>>
-----------------------------------------------------------------------------
(* archive_orders.py                                                       *)

BeginArchive(r) ==
    /\ At(r, "idle")
    /\ \E c \in Cutoffs :
          run' = [run EXCEPT ![r] = [Ended(0) EXCEPT !.at = "opened", !.cutoff = c]]
    /\ UNCHANGED <<core, archive, rows, schema, lock>>

OldOrders(c) == {o \in core : o.day < c}
OldAndTodays(c) == {o \in core : o.day <= c}           \* mutation: --retention-days 0
\* mutation: what was archived before is passed over
NotYetArchived(c) == {o \in core : o.day < c /\ o.id \notin Ids(archive)}

\* The orders a run is going to move, read under the lock.
Scan(c) == OldOrders(c)

\* BEGIN IMMEDIATE and the verification pass.
LockAndScan(r) ==
    /\ At(r, "opened") /\ lock = Nobody
    /\ lock' = r
    /\ run' = [run EXCEPT ![r].at = "scanned", ![r].old = Scan(run[r].cutoff)]
    /\ UNCHANGED <<core, archive, rows, schema>>

\* INSERT OR REPLACE, and the archive's commit.
CopyOld(r) ==
    /\ At(r, "scanned")
    /\ archive' = {o \in archive : o.id \notin Ids(run[r].old)} \cup run[r].old
    /\ Goes(r, "copied")
    /\ UNCHANGED <<core, rows, schema, lock>>

\* DELETE, the core database's commit, and the end of the script.
DeleteOld(r) ==
    /\ At(r, "copied")
    /\ core' = {o \in core : o.id \notin Ids(run[r].old)}
    /\ lock' = Nobody
    /\ Ends(r, 0)
    /\ UNCHANGED <<archive, rows, schema>>
-----------------------------------------------------------------------------
(* migrate.py --apply                                                      *)

Applied(f) == <<f, Columns + 1>> \in schema

BeginMigrate(r) ==
    /\ At(r, "idle")
    /\ run' = [run EXCEPT ![r] = [Ended(0) EXCEPT !.at = "planning"]]
    /\ UNCHANGED <<core, archive, rows, schema, lock>>

\* One round of the first loop: is this file's version recorded?
Plan(r) ==
    /\ At(r, "planning") /\ run[r].file <= Files
    /\ LET f == run[r].file
       IN  run' = [run EXCEPT ![r].file = f + 1,
                              ![r].pending = @ \cup {g \in {f} : ~Applied(g)}]
    /\ UNCHANGED <<core, archive, rows, schema, lock>>

Planned(r) ==
    /\ At(r, "planning") /\ run[r].file > Files
    /\ IF run[r].pending = {} THEN Ends(r, 0) ELSE Goes(r, "migrating")
    /\ UNCHANGED <<core, archive, rows, schema, lock>>

\* The file is done: the next of the pending ones, if any.
NextFile(r) ==
    LET left == run[r].pending \ {Min(run[r].pending)}
    IN  IF left = {} THEN Ends(r, 0)
        ELSE run' = [run EXCEPT ![r].pending = left, ![r].statement = 1]

\* mutation: the script goes on with the next file
SkipsTheFile(r) == NextFile(r)

\* "duplicate column name": the script gives up.
DuplicateColumn(r) == Ends(r, 1)

\* One statement of executescript; each commits by itself.
Execute(r) ==
    /\ At(r, "migrating") /\ lock = Nobody
    /\ LET f == Min(run[r].pending)
           s == run[r].statement
       IN  \/ /\ s <= Columns /\ <<f, s>> \notin schema
              /\ run' = [run EXCEPT ![r].statement = s + 1]
              /\ schema' = schema \cup {<<f, s>>}
           \/ /\ s <= Columns /\ <<f, s>> \in schema
              /\ DuplicateColumn(r)
              /\ UNCHANGED schema
           \/ /\ s = Columns + 1
              /\ NextFile(r)
              /\ schema' = schema \cup {<<f, s>>}
    /\ UNCHANGED <<core, archive, rows, lock>>
-----------------------------------------------------------------------------
\* A sqlite3.Error, the lock that was not free in time among them, or the
\* death of the process: open transactions are rolled back.
Fails(r) ==
    /\ ~At(r, "idle")
    /\ lock' = IF lock = r THEN Nobody ELSE lock
    /\ Ends(r, 1)
    /\ UNCHANGED <<core, archive, rows, schema>>

Step(r) ==
    \/ BeginArchive(r) \/ LockAndScan(r) \/ CopyOld(r) \/ DeleteOld(r)
    \/ BeginMigrate(r) \/ Plan(r) \/ Planned(r) \/ Execute(r)
    \/ Fails(r)

Next == PlaceOrder \/ \E r \in Runners : Step(r)
Spec == Init /\ [][Next]_vars
-----------------------------------------------------------------------------
(* No order is lost, whatever step of whichever run is the last one of     *)
(* that run: every order ever placed, and not another one that was given   *)
(* its id, is in the core database or in the archive.                      *)
NoOrderLost == rows \subseteq core \cup archive

(* The schema is always what some run of the migration files from the      *)
(* first statement on would have left, however many runs were cut short or *)
(* ran at the same time: no statement took effect before an earlier one    *)
(* did, and a recorded version has all its columns.                        *)
Before(s, t) == s[1] < t[1] \/ (s[1] = t[1] /\ s[2] < t[2])
SchemaIsAPrefix ==
    \A s \in Statements, t \in schema : Before(s, t) => s \in schema

(* A script that exits with 0 has done its work, even if an earlier run    *)
(* died between two commits: after an archive run no order that is older   *)
(* than its cutoff is in the core database, copied before or not; after a  *)
(* migration every file is applied in full.                                *)
Succeeds(r) == ~At(r, "idle") /\ run'[r].at = "idle" /\ run'[r].exit = 0
SuccessMeansDone ==
    [][\A r \in Runners :
          Succeeds(r) =>
             IF run[r].at \in {"planning", "migrating"} THEN schema' = Statements
             ELSE \A o \in core' : o.day >= run[r].cutoff]_vars
=============================================================================
