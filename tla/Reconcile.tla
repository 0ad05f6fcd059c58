----------------------------- MODULE Reconcile ------------------------------
(***************************************************************************)
(* scripts/reconcile_ledger.py beside the running service: it reads the    *)
(* confirmed orders, then the target ledger, then the source, and with     *)
(* --apply copies the payments it found missing, each in a step of its own *)
(* while checkouts, failures and restarts go on.  --since filters the      *)
(* orders and the target's payments by created_at, and never the source's. *)
(***************************************************************************)
EXTENDS Checkout, FiniteSets

CONSTANTS
    NoSource,          \* --source is not given
    MaxRuns,           \* bound: runs of the script
    Times              \* bound: the seconds of the clock that created_at tells apart

ASSUME NoSourceAssumption == NoSource \notin Files /\ MaxRuns \in Nat
ASSUME TimesAssumption == Times \subseteq Nat /\ 0 \in Times

VARIABLES
    created,           \* created_at of a request, which its order and its payment carry
    step,              \* "idle", "orders", "target", "source" (last read), "exited"
    runs,
    args,              \* --target, --source, --since and --apply
    seen,              \* orders: the confirmed ones read from core, those since args.since
    have,              \* have: order ids with a payment in the target
    rows,              \* rows: <<request, copy>> for each payment read from source
    exit               \* the exit code

script == <<step, runs, args, seen, have, rows, exit>>
rvars == <<vars, created, script>>

Args == [target : Files, source : Files \cup {NoSource}, since : Times, apply : BOOLEAN]

RTypeOK ==
    /\ TypeOK
    /\ created \in [Requests -> Times]
    /\ step \in {"idle", "orders", "target", "source", "exited"}
    /\ runs \in 0 .. MaxRuns /\ args \in Args
    /\ seen \subseteq Requests
    /\ have \subseteq {oid[r] : r \in Requests}
    /\ rows \subseteq Requests \X Nat
    /\ exit \in 0 .. 2

RInit ==
    /\ Init
    /\ created = [r \in Requests |-> 0]
    /\ step = "idle" /\ runs = 0
    /\ args = [target |-> Ledger, source |-> NoSource, since |-> 0, apply |-> FALSE]
    /\ seen = {} /\ have = {} /\ rows = {} /\ exit = 0
-----------------------------------------------------------------------------
Exit(code) == step' = "exited" /\ exit' = code

\* created_at = _now_iso() as the handler starts, by a clock that never goes back.
Stamp ==
    \E now \in Times :
        /\ \A q \in Requests : created[q] <= now
        /\ created' = [r \in Requests |->
             IF pc[r] = "new" /\ pc'[r] = "waiting" THEN now ELSE created[r]]

Since(rs) == {r \in rs : created[r] >= args.since}

\* The order ids in a ledger file, and those a run finds there:
\* SELECT DISTINCT order_id FROM payments WHERE created_at >= since
Paid(f) == {p \in Requests : payments[f][p] > 0}
IdsIn(f) == {oid[q] : q \in Paid(f)}
PaidIds(f) == {oid[q] : q \in Since(Paid(f))}

MissingReread == {r \in Since(orders) : oid[r] \notin have}  \* mutation: orders read again
Missing == {r \in seen : oid[r] \notin have}

MissingExit == Exit(IF Missing = {} THEN 0 ELSE 2)

\* Rows: those of the source whose order id is among the missing ones, whatever
\* order they were paid for and whenever (mutation: all of them, SourceRows).
SourceRows == UNION {{q} \X (1 .. payments[args.source][q]) : q \in Requests}
Rows == {w \in SourceRows : oid[w[1]] \in {oid[m] : m \in Missing}}

Begin ==
    /\ step \in {"idle", "exited"} /\ runs < MaxRuns
    /\ step' = "orders" /\ runs' = runs + 1
    /\ args' \in Args
    /\ seen' = {r \in orders : created[r] >= args'.since}
    /\ have' = {} /\ rows' = {} /\ exit' = 0
    /\ UNCHANGED <<vars, created>>

\* Mutation: the ledger at hand is compared with itself.
ReadTargetOfSource ==
    /\ step = "orders"
    /\ step' = "target"
    /\ have' = PaidIds(IF args.source = NoSource THEN args.target ELSE args.source)
    /\ UNCHANGED <<vars, created, runs, args, seen, rows, exit>>

ReadTarget ==
    /\ step = "orders"
    /\ step' = "target"
    /\ have' = PaidIds(args.target)
    /\ UNCHANGED <<vars, created, runs, args, seen, rows, exit>>

\* Without --source the script only reports.
Report ==
    /\ step = "target" /\ args.source = NoSource
    /\ MissingExit
    /\ UNCHANGED <<vars, created, runs, args, seen, have, rows>>

ReadSource ==
    /\ step = "target" /\ args.source # NoSource
    /\ rows' = Rows
    /\ IF args.apply /\ Rows # {}
         THEN step' = "source" /\ UNCHANGED exit
         ELSE MissingExit
    /\ UNCHANGED <<vars, created, runs, args, seen, have>>

\* still = len(missing) - len(rows): the exit code compares two counts.
CopyExit == Exit(IF Cardinality(Missing) = Cardinality(rows) THEN 0 ELSE 2)

\* INSERT of all rows in one transaction.
Apply ==
    /\ step = "source"
    /\ payments' = [payments EXCEPT ![args.target] =
         [q \in Requests |-> @[q] + Cardinality({w \in rows : w[1] = q})]]
    /\ CopyExit
    /\ UNCHANGED <<pc, oid, reply, orders, writer, settled, service, created,
                   runs, args, seen, have, rows>>

\* A database is locked or missing, or the command's timeout kills the script.
Abort ==
    /\ step \in {"orders", "target", "source"}
    /\ Exit(1)
    /\ UNCHANGED <<vars, created, runs, args, seen, have, rows>>

ScriptStep == Begin \/ ReadTarget \/ Report \/ ReadSource \/ Apply \/ Abort

RNext == (Next /\ Stamp /\ UNCHANGED script) \/ ScriptStep

RSpec == RInit /\ [][RNext]_rvars
-----------------------------------------------------------------------------
(* Properties.                                                             *)

\* An order is reported missing only if its payment really is not in the
\* target, although checkouts go on between the script's reads: orders are
\* read first, and a payment is committed before its order.
NoFalseMissing ==
    step \in {"target", "source"} =>
        \A r \in Missing : payments[args.target][r] = 0

\* However often the script runs, beside the service and after being cut
\* short, the payment of a confirmed order is never in a ledger file twice.
\* Only an orphan's may be: one whose id went to an order created in a later
\* second.  --since hides it in the target, and the source is read without.
NoPaymentTwice ==
    \A f \in Files, r \in Requests : payments[f][r] > 1 =>
        r \notin orders /\ \E m \in orders : oid[m] = oid[r] /\ created[r] < created[m]

\* After a complete --apply every order read whose payment is in the source
\* has a payment in the target: the repair the ledger_divergence fault needs.
GapClosed ==
    step = "exited" /\ exit # 1 /\ args.apply /\ args.source # NoSource =>
        \A r \in seen :
            payments[args.source][r] > 0 => oid[r] \in PaidIds(args.target)

\* The script's docstring: "Exit code 0 = consistent, 2 = missing payments".
ExitZeroIsConsistent ==
    step = "exited" /\ exit = 0 =>
        \A r \in seen : oid[r] \in IdsIn(args.target)
=============================================================================
