------------------------------ MODULE Checkout ------------------------------
(***************************************************************************)
(* POST /checkout of the service under incident: one core database and a   *)
(* payments ledger kept in another file, written in two transactions that  *)
(* SQLite cannot commit together.  Requests run in threads of one service  *)
(* process, which may be stopped at any point and reads the ledger's       *)
(* location from .env when it starts; jobs of the host (archive_orders,    *)
(* expire_carts) take the core write lock too.                             *)
(***************************************************************************)
EXTENDS Integers

CONSTANTS
    Requests,          \* POST /checkout requests; each brings its own gateway_ref
    Files,             \* ledger-format databases on disk
    Ledger,            \* the real one
    NoOne,             \* the write lock is free
    Batch              \* a job of the host holds it

ASSUME LedgerAssumption == Ledger \in Files
ASSUME HoldersAssumption == NoOne \notin Requests \cup {Batch} /\ Batch \notin Requests

VARIABLES
    pc,                \* where each request is
    oid,               \* the order id it was given, 0 before
    reply,             \* what its client knows
    orders,            \* requests whose order is committed in the core database
    writer,            \* holder of the core database's write lock
    payments,          \* payments[f][r]: rows of r committed in ledger file f
    settled,           \* requests with a settlement row in a ledger file
    url,               \* LEDGER_DATABASE_URL as the process loaded it
    up                 \* the service process is running

vars == <<pc, oid, reply, orders, writer, payments, settled, url, up>>
service == <<url, up>>

InFlight == {"waiting", "inserted", "paid", "confirmed"}

TypeOK ==
    /\ pc \in [Requests -> InFlight \cup {"new", "done"}]
    /\ oid \in [Requests -> Nat]
    /\ reply \in [Requests -> {"none", "created", "error", "lost"}]
    /\ orders \subseteq Requests
    /\ writer \in Requests \cup {NoOne, Batch}
    /\ payments \in [Files -> [Requests -> Nat]]
    /\ settled \subseteq Requests
    /\ url \in Files /\ up \in BOOLEAN

Init ==
    /\ pc = [r \in Requests |-> "new"]
    /\ oid = [r \in Requests |-> 0]
    /\ reply = [r \in Requests |-> "none"]
    /\ orders = {}
    /\ writer = NoOne
    /\ payments = [f \in Files |-> [r \in Requests |-> 0]]
    /\ settled = {}
    /\ url = Ledger /\ up = TRUE
-----------------------------------------------------------------------------
(* The handler.  Its SELECTs run before any transaction is open; the first *)
(* INSERT takes the write lock, which is held over the ledger transaction. *)

\* A client that has not given up gets the answer.
Answer(r, what) ==
    reply' = [reply EXCEPT ![r] = IF @ = "none" THEN what ELSE @]

\* INTEGER PRIMARY KEY without AUTOINCREMENT: one more than the largest id in
\* the table, so an id given out by a rolled-back insert is given out again.
NextIds == {n \in {oid[o] + 1 : o \in orders} \cup {1} : \A o \in orders : oid[o] < n}

\* The request reaches the process; while there is none the client gets 502.
Post(r) ==
    /\ pc[r] = "new"
    /\ \/ up /\ pc' = [pc EXCEPT ![r] = "waiting"] /\ UNCHANGED reply
       \/ ~up /\ pc' = [pc EXCEPT ![r] = "done"] /\ Answer(r, "lost")
    /\ UNCHANGED <<oid, orders, writer, payments, settled, service>>

CanLockAnyway(r) == TRUE                \* mutation: the write lock is not exclusive
CanLock(r) == writer = NoOne

Insert(r) ==
    /\ up /\ pc[r] = "waiting" /\ CanLock(r)
    /\ writer' = r
    /\ \E n \in NextIds : oid' = [oid EXCEPT ![r] = n]
    /\ pc' = [pc EXCEPT ![r] = "inserted"]
    /\ UNCHANGED <<reply, orders, payments, settled, service>>

Fails(r) ==
    /\ pc' = [pc EXCEPT ![r] = "done"]
    /\ Answer(r, "error")

\* Mutation: without a busy timeout only a free lock lets a request go.
NotInsertedNoTimeout(r) ==
    /\ up /\ pc[r] = "waiting" /\ writer = NoOne
    /\ Fails(r)
    /\ UNCHANGED <<oid, orders, writer, payments, settled, service>>

\* Refused (429, 404, 400), or the insert raised: the lock was not free within
\* the busy timeout, the disk is full, the column is missing.
NotInserted(r) ==
    /\ up /\ pc[r] = "waiting"
    /\ Fails(r)
    /\ UNCHANGED <<oid, orders, writer, payments, settled, service>>

\* The ledger transaction commits on its own, before the order is confirmed.
Capture(r) ==
    /\ up /\ pc[r] = "inserted"
    /\ payments' = [payments EXCEPT ![url][r] = @ + 1]
    /\ pc' = [pc EXCEPT ![r] = "paid"]
    /\ UNCHANGED <<oid, reply, orders, writer, settled, service>>

\* Mutation: the failed ledger write is swallowed and the order confirmed.
NotCapturedGoesOn(r) ==
    /\ up /\ pc[r] = "inserted"
    /\ pc' = [pc EXCEPT ![r] = "paid"]
    /\ UNCHANGED <<oid, reply, orders, writer, payments, settled, service>>

\* The gateway or the ledger write raised: core_db rolls back and re-raises.
NotCaptured(r) ==
    /\ up /\ pc[r] = "inserted"
    /\ Fails(r)
    /\ writer' = NoOne
    /\ UNCHANGED <<oid, orders, payments, settled, service>>

\* UPDATE ... 'confirmed' and the core commit when core_db is left.
Confirm(r) ==
    /\ up /\ pc[r] = "paid"
    /\ orders' = orders \cup {r}
    /\ writer' = NoOne
    /\ pc' = [pc EXCEPT ![r] = "confirmed"]
    /\ UNCHANGED <<oid, reply, payments, settled, service>>

\* Mutation: the session is left without releasing the lock.
NotConfirmedKeepsLock(r) ==
    /\ up /\ pc[r] = "paid"
    /\ Fails(r)
    /\ UNCHANGED <<oid, orders, writer, payments, settled, service>>

\* The core commit raised (a reader outlasted the busy timeout, disk full)
\* after the ledger had committed: the payment stays without its order.
NotConfirmed(r) ==
    /\ up /\ pc[r] = "paid"
    /\ Fails(r)
    /\ writer' = NoOne
    /\ UNCHANGED <<oid, orders, payments, settled, service>>

\* Mutation: 201 is answered before the core transaction is committed.
ReplyEarly(r) ==
    /\ up /\ pc[r] \in {"paid", "confirmed"}
    /\ Answer(r, "created")
    /\ pc' = [pc EXCEPT ![r] = IF @ = "confirmed" THEN "done" ELSE @]
    /\ UNCHANGED <<oid, orders, writer, payments, settled, service>>

Reply(r) ==
    /\ up /\ pc[r] = "confirmed"
    /\ Answer(r, "created")
    /\ pc' = [pc EXCEPT ![r] = "done"]
    /\ UNCHANGED <<oid, orders, writer, payments, settled, service>>

\* The client's own timeout; the handler runs on.
GiveUp(r) ==
    /\ pc[r] \in InFlight /\ reply[r] = "none"
    /\ reply' = [reply EXCEPT ![r] = "lost"]
    /\ UNCHANGED <<pc, oid, orders, writer, payments, settled, service>>

\* mutation: the gateway settles whatever was captured
SettlesCaptured(r) == \E f \in Files : payments[f][r] > 0
Settles(r) == reply[r] = "created"

\* payment_webhook: the gateway confirms a settlement after a 201.  INSERT OR
\* IGNORE: a second delivery changes nothing.  Rejected or lost, it is not
\* sent again, which is the same as never taking this step.
Webhook(r) ==
    /\ up /\ Settles(r)
    /\ settled' = settled \cup {r}
    /\ UNCHANGED <<pc, oid, reply, orders, writer, payments, service>>
-----------------------------------------------------------------------------
(* The process and its host.                                               *)

\* The process ends (restart_service, a crash, SIGKILL): open transactions
\* roll back, their clients get nothing.
Stop ==
    /\ up
    /\ up' = FALSE
    /\ pc' = [r \in Requests |-> IF pc[r] \in InFlight THEN "done" ELSE pc[r]]
    /\ reply' = [r \in Requests |->
                   IF pc[r] \in InFlight /\ reply[r] = "none" THEN "lost" ELSE reply[r]]
    /\ writer' = IF writer = Batch THEN Batch ELSE NoOne
    /\ UNCHANGED <<oid, orders, payments, settled, url>>

\* The process loads what .env says now; a commit or the responder may have
\* edited it since the last start.
Start ==
    /\ ~up
    /\ up' = TRUE
    /\ url' \in Files
    /\ UNCHANGED <<pc, oid, reply, orders, writer, payments, settled>>

\* A job of the host takes the core write lock for its own transaction.
BatchLock ==
    /\ writer \in {NoOne, Batch}
    /\ writer' = IF writer = NoOne THEN Batch ELSE NoOne
    /\ UNCHANGED <<pc, oid, reply, orders, payments, settled, service>>

Handle(r) ==
    \/ Insert(r) \/ NotInserted(r)
    \/ Capture(r) \/ NotCaptured(r)
    \/ Confirm(r) \/ NotConfirmed(r)
    \/ Reply(r)

Next ==
    \/ \E r \in Requests : Post(r) \/ Handle(r) \/ GiveUp(r) \/ Webhook(r)
    \/ Stop \/ Start \/ BatchLock

\* Threads of a running process run on; nothing obliges the service to be
\* restarted, or a batch job ever to let go of the lock.
Spec == Init /\ [][Next]_vars /\ \A r \in Requests : WF_vars(Handle(r))
-----------------------------------------------------------------------------
(* Properties.                                                             *)

\* However requests, failures and restarts interleave, an order the core
\* database confirms has its own payment in the ledger file that was in use
\* (main.py: "record the captured payment before confirming the order").
ConfirmedHasPayment ==
    \A r \in orders : \E f \in Files : payments[f][r] > 0

\* Two confirmed orders never share an id, although ids of rolled-back
\* orders are handed out again.
OrderIdsUnique ==
    \A r, s \in orders : oid[r] = oid[s] => r = s

\* What a client was told, or the gateway settled, is in the core database.
AcknowledgedIsDurable ==
    \A r \in Requests :
        reply[r] = "created" \/ r \in settled => r \in orders

\* A payment without an order comes only from a request that is about to be
\* confirmed or whose client was never told that it succeeded; and never is
\* more than one capture waiting for its order at a time.
OrphansAreFailures ==
    /\ \A f \in Files, r \in Requests :
         payments[f][r] > 0 /\ r \notin orders =>
             pc[r] = "paid" \/ (pc[r] = "done" /\ reply[r] # "created")
    /\ \A r, s \in Requests : pc[r] = "paid" /\ pc[s] = "paid" => r = s

\* A request that reached a worker thread ends, even when a batch job never
\* lets go of the write lock (only the busy timeout saves it) or another
\* request failed half-way.
RequestsEnd ==
    \A r \in Requests : [](pc[r] \in InFlight => <>(pc[r] = "done"))

\* No request keeps the write lock, whichever way its handler is left.
LockIsReleased ==
    \A r \in Requests : writer = r ~> writer # r
=============================================================================
