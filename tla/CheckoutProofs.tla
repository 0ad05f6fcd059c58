--------------------------- MODULE CheckoutProofs ---------------------------
(***************************************************************************)
(* Proofs about Checkout and about Reconcile, which extends it, for any    *)
(* set of requests and of ledger files and any number of script runs: what *)
(* is in the databases, that requests move on, what exit code 0 is worth.  *)
(***************************************************************************)
EXTENDS Reconcile, FiniteSetTheorems, TLAPS

\* A handler between its INSERT and its commit holds the core write lock.
LockInv == \A r \in Requests : pc[r] \in {"inserted", "paid"} => writer = r

\* The id given out under the lock is above every confirmed one, and stays so
\* because nobody else can confirm an order meanwhile.
IdInv ==
    /\ \A r \in Requests : pc[r] \in {"inserted", "paid"} =>
           \A o \in orders : oid[o] < oid[r]
    /\ OrderIdsUnique

\* How far a request has come and what it has left in the two databases.
RowInv ==
    /\ \A r \in Requests : pc[r] \in {"new", "waiting", "inserted"} =>
           \A f \in Files : payments[f][r] = 0
    /\ \A r \in Requests : pc[r] \in {"paid", "confirmed"} =>
           \E f \in Files : payments[f][r] > 0
    /\ \A r \in Requests : r \in orders => pc[r] \in {"confirmed", "done"}
    /\ \A r \in Requests : pc[r] = "confirmed" => r \in orders
    /\ ConfirmedHasPayment

ReplyInv ==
    /\ \A r \in Requests : reply[r] = "created" => r \in orders /\ pc[r] = "done"
    /\ settled \subseteq orders

IInv == TypeOK /\ LockInv /\ IdInv /\ RowInv /\ ReplyInv
-----------------------------------------------------------------------------
LEMMA InitInv == Init => IInv
  BY LedgerAssumption DEF Init, IInv, TypeOK, LockInv, IdInv, RowInv, ReplyInv,
     InFlight, OrderIdsUnique, ConfirmedHasPayment

LEMMA TypeStep == TypeOK /\ [Next]_vars => TypeOK'
  <1> SUFFICES ASSUME TypeOK, [Next]_vars PROVE TypeOK'
    OBVIOUS
  <1> USE DEF TypeOK, InFlight, service, Answer, Fails
  <1>1. ASSUME NEW r \in Requests, Post(r) PROVE TypeOK'
    BY <1>1 DEF Post
  <1>2. ASSUME NEW r \in Requests, Insert(r) PROVE TypeOK'
    BY <1>2 DEF Insert, NextIds
  <1>3. ASSUME NEW r \in Requests, NotInserted(r) PROVE TypeOK'
    BY <1>3 DEF NotInserted
  <1>4. ASSUME NEW r \in Requests, Capture(r) PROVE TypeOK'
    BY <1>4 DEF Capture
  <1>5. ASSUME NEW r \in Requests, NotCaptured(r) PROVE TypeOK'
    BY <1>5 DEF NotCaptured
  <1>6. ASSUME NEW r \in Requests, Confirm(r) PROVE TypeOK'
    BY <1>6 DEF Confirm
  <1>7. ASSUME NEW r \in Requests, NotConfirmed(r) PROVE TypeOK'
    BY <1>7 DEF NotConfirmed
  <1>8. ASSUME NEW r \in Requests, Reply(r) PROVE TypeOK'
    BY <1>8 DEF Reply
  <1>9. ASSUME NEW r \in Requests, GiveUp(r) PROVE TypeOK'
    BY <1>9 DEF GiveUp
  <1>10. ASSUME NEW r \in Requests, Webhook(r) PROVE TypeOK'
    BY <1>10 DEF Webhook
  <1>11. CASE Stop
    BY <1>11 DEF Stop
  <1>12. CASE Start
    BY <1>12 DEF Start
  <1>13. CASE BatchLock
    BY <1>13 DEF BatchLock
  <1>14. CASE UNCHANGED vars
    BY <1>14 DEF vars
  <1> QED
    BY <1>1, <1>2, <1>3, <1>4, <1>5, <1>6, <1>7, <1>8, <1>9, <1>10, <1>11, <1>12, <1>13, <1>14
    DEF Next, Handle

LEMMA StepInv == IInv /\ [Next]_vars => IInv'
  <1> SUFFICES ASSUME IInv, [Next]_vars PROVE IInv'
    OBVIOUS
  <1> TypeOK'
    BY TypeStep DEF IInv
  <1> SUFFICES LockInv' /\ IdInv' /\ RowInv' /\ ReplyInv'
    BY DEF IInv
  <1> USE HoldersAssumption
      DEF IInv, TypeOK, LockInv, IdInv, RowInv, ReplyInv, OrderIdsUnique,
          ConfirmedHasPayment, InFlight, service, Answer, Fails
  <1>1. ASSUME NEW r \in Requests, Post(r) PROVE LockInv' /\ IdInv' /\ RowInv' /\ ReplyInv'
    BY <1>1 DEF Post
  <1>2. ASSUME NEW r \in Requests, Insert(r) PROVE LockInv' /\ IdInv' /\ RowInv' /\ ReplyInv'
    <2> PICK n \in NextIds : oid' = [oid EXCEPT ![r] = n]
      BY <1>2 DEF Insert
    <2>1. r \notin orders /\ \A o \in orders : oid'[o] = oid[o] /\ oid[o] < n
      BY <1>2 DEF Insert, NextIds
    <2>2. LockInv'
      BY <1>2 DEF Insert, CanLock
    <2>3. IdInv'
      <3>1. ASSUME NEW s \in Requests, pc'[s] \in {"inserted", "paid"} PROVE s = r
        BY <1>2, <3>1 DEF Insert, CanLock
      <3> QED
        BY <1>2, <2>1, <3>1 DEF Insert, NextIds
    <2>4. RowInv' /\ ReplyInv'
      BY <1>2 DEF Insert
    <2> QED
      BY <2>2, <2>3, <2>4
  <1>3. ASSUME NEW r \in Requests, NotInserted(r) PROVE LockInv' /\ IdInv' /\ RowInv' /\ ReplyInv'
    BY <1>3 DEF NotInserted
  <1>4. ASSUME NEW r \in Requests, Capture(r) PROVE LockInv' /\ IdInv' /\ RowInv' /\ ReplyInv'
    <2>1. payments'[url][r] > 0
      BY <1>4 DEF Capture
    <2>2. \A f \in Files, s \in Requests : s # r => payments'[f][s] = payments[f][s]
      BY <1>4 DEF Capture
    <2>3. LockInv' /\ IdInv' /\ ReplyInv'
      BY <1>4 DEF Capture
    <2>4. RowInv'
      BY <1>4, <2>1, <2>2 DEF Capture
    <2> QED
      BY <2>3, <2>4
  <1>5. ASSUME NEW r \in Requests, NotCaptured(r) PROVE LockInv' /\ IdInv' /\ RowInv' /\ ReplyInv'
    BY <1>5 DEF NotCaptured
  <1>6. ASSUME NEW r \in Requests, Confirm(r) PROVE LockInv' /\ IdInv' /\ RowInv' /\ ReplyInv'
    BY <1>6 DEF Confirm
  <1>7. ASSUME NEW r \in Requests, NotConfirmed(r) PROVE LockInv' /\ IdInv' /\ RowInv' /\ ReplyInv'
    BY <1>7 DEF NotConfirmed
  <1>8. ASSUME NEW r \in Requests, Reply(r) PROVE LockInv' /\ IdInv' /\ RowInv' /\ ReplyInv'
    BY <1>8 DEF Reply
  <1>9. ASSUME NEW r \in Requests, GiveUp(r) PROVE LockInv' /\ IdInv' /\ RowInv' /\ ReplyInv'
    BY <1>9 DEF GiveUp
  <1>10. ASSUME NEW r \in Requests, Webhook(r) PROVE LockInv' /\ IdInv' /\ RowInv' /\ ReplyInv'
    BY <1>10 DEF Webhook, Settles
  <1>11. CASE Stop
    BY <1>11 DEF Stop
  <1>12. CASE Start
    BY <1>12 DEF Start
  <1>13. CASE BatchLock
    BY <1>13 DEF BatchLock
  <1>14. CASE UNCHANGED vars
    BY <1>14 DEF vars
  <1> QED
    BY <1>1, <1>2, <1>3, <1>4, <1>5, <1>6, <1>7, <1>8, <1>9, <1>10, <1>11, <1>12, <1>13, <1>14
    DEF Next, Handle

LEMMA Invariance == Spec => []IInv
  <1> QED
    BY InitInv, StepInv, PTL DEF Spec
-----------------------------------------------------------------------------
\* Every reachable state of the service and its two databases is well typed.
THEOREM TypeCorrect == Spec => []TypeOK
  <1>1. IInv => TypeOK
    BY DEF IInv
  <1> QED
    BY <1>1, Invariance, PTL

\* For any number of requests and ledger files, a confirmed order has its
\* payment in some ledger file, whatever fails or is restarted in between.
THEOREM PaymentBeforeOrder == Spec => []ConfirmedHasPayment
  <1>1. IInv => ConfirmedHasPayment
    BY DEF IInv, RowInv
  <1> QED
    BY <1>1, Invariance, PTL

\* Confirmed orders have different ids although ids are reused.
THEOREM IdsUnique == Spec => []OrderIdsUnique
  <1>1. IInv => OrderIdsUnique
    BY DEF IInv, IdInv
  <1> QED
    BY <1>1, Invariance, PTL

\* A 201 and a settlement refer to an order that is committed.
THEOREM DurableOnceAcknowledged == Spec => []AcknowledgedIsDurable
  <1>1. IInv => AcknowledgedIsDurable
    BY DEF IInv, ReplyInv, AcknowledgedIsDurable
  <1> QED
    BY <1>1, Invariance, PTL

\* A payment without an order belongs to a request in its last step or to one
\* whose client was not told that it succeeded; only one request at a time
\* can be between its two commits.
THEOREM OrphansExplained == Spec => []OrphansAreFailures
  <1>1. IInv => OrphansAreFailures
    <2> SUFFICES ASSUME IInv PROVE OrphansAreFailures
      OBVIOUS
    <2>1. \A r, s \in Requests : pc[r] = "paid" /\ pc[s] = "paid" => r = s
      BY DEF IInv, LockInv
    <2>2. ASSUME NEW f \in Files, NEW r \in Requests, payments[f][r] > 0, r \notin orders
          PROVE  pc[r] = "paid" \/ (pc[r] = "done" /\ reply[r] # "created")
      BY <2>2 DEF IInv, TypeOK, InFlight, RowInv, ReplyInv
    <2> QED
      BY <2>1, <2>2 DEF OrphansAreFailures
  <1> QED
    BY <1>1, Invariance, PTL
-----------------------------------------------------------------------------
(* What RequestsEnd and LockIsReleased rest on besides fairness.           *)

\* Whoever holds the core write lock for a request is its handler, in a running
\* process and between its insert and its commit, where each way out of it lets
\* go of the lock.
LockHasItsHandler ==
    \A r \in Requests : writer = r => up /\ pc[r] \in {"inserted", "paid"}

\* The places of a handler in the order of its code.
Place(where) ==
    CASE where = "new" -> 0
      [] where = "waiting" -> 1
      [] where = "inserted" -> 2
      [] where = "paid" -> 3
      [] where = "confirmed" -> 4
      [] where = "done" -> 5

\* No step takes a request back, and each step of its own takes it on: a
\* handler that runs is left after five steps, whatever the others do.
Advances ==
    \A r \in Requests :
        /\ Place(pc[r]) <= Place(pc'[r])
        /\ Handle(r) => Place(pc[r]) < Place(pc'[r])
        /\ pc[r] = "done" => pc'[r] = "done" /\ ~Handle(r)

HInv == TypeOK /\ LockHasItsHandler

LEMMA HStep == HInv /\ [Next]_vars => HInv'
  <1> SUFFICES ASSUME HInv, [Next]_vars PROVE LockHasItsHandler'
    BY TypeStep DEF HInv
  <1> USE HoldersAssumption
      DEF HInv, TypeOK, LockHasItsHandler, InFlight, service, Answer, Fails
  <1>1. ASSUME NEW r \in Requests, Post(r) PROVE LockHasItsHandler'
    BY <1>1 DEF Post
  <1>2. ASSUME NEW r \in Requests, Handle(r) PROVE LockHasItsHandler'
    <2>1. CASE Insert(r)
      BY <2>1 DEF Insert
    <2>2. CASE NotInserted(r)
      BY <2>2 DEF NotInserted
    <2>3. CASE Capture(r)
      BY <2>3 DEF Capture
    <2>4. CASE NotCaptured(r)
      BY <2>4 DEF NotCaptured
    <2>5. CASE Confirm(r)
      BY <2>5 DEF Confirm
    <2>6. CASE NotConfirmed(r)
      BY <2>6 DEF NotConfirmed
    <2>7. CASE Reply(r)
      BY <2>7 DEF Reply
    <2> QED
      BY <1>2, <2>1, <2>2, <2>3, <2>4, <2>5, <2>6, <2>7 DEF Handle
  <1>3. ASSUME NEW r \in Requests, GiveUp(r) \/ Webhook(r) PROVE LockHasItsHandler'
    BY <1>3 DEF GiveUp, Webhook
  <1>4. CASE Stop
    BY <1>4 DEF Stop
  <1>5. CASE Start
    BY <1>5 DEF Start
  <1>6. CASE BatchLock
    BY <1>6 DEF BatchLock
  <1>7. CASE UNCHANGED vars
    BY <1>7 DEF vars
  <1> QED
    BY <1>1, <1>2, <1>3, <1>4, <1>5, <1>6, <1>7 DEF Next

\* The write lock is never left with a request that has no handler to release
\* it: neither a failure nor a restart abandons it.
THEOREM LockIsNeverAbandoned == Spec => []LockHasItsHandler
  <1>1. Init => HInv
    BY HoldersAssumption, LedgerAssumption DEF Init, HInv, TypeOK, LockHasItsHandler, InFlight
  <1>2. HInv => LockHasItsHandler
    BY DEF HInv
  <1> QED
    BY <1>1, <1>2, HStep, PTL DEF Spec

LEMMA StepAdvances == TypeOK /\ [Next]_vars => Advances
  <1> SUFFICES ASSUME TypeOK, [Next]_vars, NEW r \in Requests
               PROVE  /\ Place(pc[r]) <= Place(pc'[r])
                      /\ Handle(r) => Place(pc[r]) < Place(pc'[r])
                      /\ pc[r] = "done" => pc'[r] = "done" /\ ~Handle(r)
    BY DEF Advances
  <1> USE DEF TypeOK, InFlight, service, Answer, Fails, Place
  <1>1. Handle(r) => Place(pc[r]) < Place(pc'[r]) /\ pc[r] # "done"
    BY DEF Handle, Insert, NotInserted, Capture, NotCaptured, Confirm, NotConfirmed, Reply
  <1>2. ASSUME NEW s \in Requests, Post(s)
        PROVE  Place(pc[r]) <= Place(pc'[r]) /\ (pc[r] = "done" => pc'[r] = "done")
    BY <1>2 DEF Post
  <1>3. ASSUME NEW s \in Requests, Handle(s)
        PROVE  Place(pc[r]) <= Place(pc'[r]) /\ (pc[r] = "done" => pc'[r] = "done")
    BY <1>3 DEF Handle, Insert, NotInserted, Capture, NotCaptured, Confirm, NotConfirmed, Reply
  <1>4. CASE Stop
    BY <1>1, <1>4 DEF Stop
  <1>5. CASE UNCHANGED pc
    BY <1>1, <1>5
  <1> QED
    BY <1>1, <1>2, <1>3, <1>4, <1>5 DEF Next, GiveUp, Webhook, Start, BatchLock, vars

\* Requests only move on, and a handler's own steps are at most five.
THEOREM RequestsAdvance == Spec => [][Advances]_vars
  <1> QED
    BY TypeCorrect, StepAdvances, PTL DEF Spec
-----------------------------------------------------------------------------
(* Reconcile.  The script has read its orders, then its target, then its   *)
(* source, and none of the three reads is of the present state.            *)

OrdersRead == seen \subseteq Since(orders)

\* What was in the target is there still; no payment that came since bears the
\* id of a missing order: ids given out later are above every confirmed one.
\* Of the payments older than --since nothing is known.
TargetRead ==
    step \in {"target", "source"} =>
        /\ have \subseteq PaidIds(args.target)
        /\ \A p \in Since(Paid(args.target)), m \in Missing : oid[p] # oid[m]

RowsOf(q) == {w \in rows : w[1] = q}

\* The rows to copy are, of some requests, all the payments in the source; each
\* bears the id of a missing order, and no missing order paid there is left out.
SourceRead ==
    step = "source" =>
        /\ args.apply /\ args.source \in Files
        /\ \A w \in rows : w[1] \in Requests /\ \E m \in Missing : oid[w[1]] = oid[m]
        /\ \A q \in Requests :
               RowsOf(q) = {} \/ RowsOf(q) = {q} \X (1 .. payments[args.source][q])
        /\ \A m \in Missing : payments[args.source][m] > 0 => RowsOf(m) # {}

ScriptType ==
    /\ step \in {"idle", "orders", "target", "source", "exited"}
    /\ args \in Args
    /\ created \in [Requests -> Times]

RInv ==
    /\ IInv /\ ScriptType
    /\ OrdersRead /\ TargetRead /\ SourceRead
    /\ NoPaymentTwice /\ GapClosed

\* All that a step of the service does to ids and payments: it captures one
\* payment, once, and confirms one order, each under an id above every
\* confirmed one.
LEMMA ServiceStep ==
  ASSUME IInv, [Next]_vars
  PROVE  /\ orders \subseteq orders'
         /\ \A o \in orders : oid'[o] = oid[o]
         /\ \A f \in Files, o \in orders : payments'[f][o] = payments[f][o]
         /\ \A f \in Files, r \in Requests : payments[f][r] > 0 => oid'[r] = oid[r]
         /\ \A f \in Files, r \in Requests :
                \/ payments'[f][r] = payments[f][r]
                \/ /\ payments[f][r] = 0 /\ payments'[f][r] = 1
                   /\ oid'[r] = oid[r] /\ pc[r] = "inserted"
                   /\ \A o \in orders : oid[o] < oid[r]
         /\ \A r \in orders' \ orders : \A o \in orders : oid[o] < oid[r]
  <1> DEFINE Goal ==
         /\ orders \subseteq orders'
         /\ \A o \in orders : oid'[o] = oid[o]
         /\ \A f \in Files, o \in orders : payments'[f][o] = payments[f][o]
         /\ \A f \in Files, r \in Requests : payments[f][r] > 0 => oid'[r] = oid[r]
         /\ \A f \in Files, r \in Requests :
                \/ payments'[f][r] = payments[f][r]
                \/ /\ payments[f][r] = 0 /\ payments'[f][r] = 1
                   /\ oid'[r] = oid[r] /\ pc[r] = "inserted"
                   /\ \A o \in orders : oid[o] < oid[r]
         /\ \A r \in orders' \ orders : \A o \in orders : oid[o] < oid[r]
  <1> USE DEF IInv, TypeOK, service
  <1>1. ASSUME NEW r \in Requests, Insert(r) PROVE Goal
    BY <1>1 DEF Insert, RowInv
  <1>2. ASSUME NEW r \in Requests, Capture(r) PROVE Goal
    <2>1. /\ orders' = orders /\ oid' = oid
          /\ \A f \in Files, s \in Requests :
                payments'[f][s] = IF f = url /\ s = r THEN payments[f][s] + 1 ELSE payments[f][s]
      BY <1>2 DEF Capture
    <2>2. pc[r] = "inserted" /\ r \notin orders /\ \A f \in Files : payments[f][r] = 0
      BY <1>2 DEF Capture, RowInv
    <2>3. \A o \in orders : oid[o] < oid[r]
      BY <2>2 DEF IdInv
    <2> QED
      BY <2>1, <2>2, <2>3
  <1>3. ASSUME NEW r \in Requests, Confirm(r) PROVE Goal
    <2>1. \A o \in orders : oid[o] < oid[r]
      BY <1>3 DEF Confirm, IdInv
    <2> QED
      BY <1>3, <2>1 DEF Confirm
  <1>4. ASSUME UNCHANGED <<orders, oid, payments>> PROVE Goal
    BY <1>4
  <1> QED
    BY <1>1, <1>2, <1>3, <1>4
    DEF Next, Handle, Post, NotInserted, NotCaptured, NotConfirmed, Reply, GiveUp,
        Webhook, Stop, Start, BatchLock, vars

\* created_at is given once, as a handler starts: before there is any row.
LEMMA StampedOnce ==
  ASSUME IInv, created \in [Requests -> Times], Stamp \/ UNCHANGED created
  PROVE  /\ created' \in [Requests -> Times]
         /\ \A o \in orders : created'[o] = created[o]
         /\ \A r \in Requests : pc[r] = "inserted" => created'[r] = created[r]
         /\ \A f \in Files, r \in Requests : payments[f][r] > 0 => created'[r] = created[r]
  <1>1. \A r \in Requests : pc[r] # "new" => created'[r] = created[r]
    BY DEF Stamp
  <1>2. created' \in [Requests -> Times]
    BY DEF Stamp
  <1>3. \A o \in orders : pc[o] # "new" /\ o \in Requests
    BY DEF IInv, TypeOK, RowInv
  <1>4. \A f \in Files, r \in Requests : payments[f][r] > 0 => pc[r] # "new"
    BY DEF IInv, RowInv
  <1> QED
    BY <1>1, <1>2, <1>3, <1>4

LEMMA RInitInv == RInit => RInv
  <1> SUFFICES ASSUME RInit PROVE RInv
    OBVIOUS
  <1>1. IInv
    BY InitInv DEF RInit
  <1>2. NoPaymentTwice
    <2> Init
      BY DEF RInit
    <2>1. \A f \in Files, r \in Requests : payments[f][r] = 0
      BY DEF Init
    <2>2. \A f \in Files, r \in Requests : ~(payments[f][r] > 1)
      BY <2>1
    <2> QED
      BY <2>2 DEF NoPaymentTwice
  <1>3. ScriptType
    BY LedgerAssumption, TimesAssumption DEF RInit, ScriptType, Args
  <1> QED
    BY <1>1, <1>2, <1>3 DEF RInit, RInv, OrdersRead, TargetRead, SourceRead, GapClosed

\* The service goes on under a script that has read something.
LEMMA ServicePreserves ==
  ASSUME RInv, [Next]_vars, Stamp \/ UNCHANGED created, UNCHANGED script
  PROVE  RInv'
  <1> USE DEF RInv
  <1>1. IInv'
    BY StepInv
  <1>2. created \in [Requests -> Times]
    BY DEF ScriptType
  <1>3. \A o \in orders : o \in Requests /\ created'[o] = created[o] /\ oid'[o] = oid[o]
    BY <1>2, StampedOnce, ServiceStep DEF IInv, TypeOK
  <1>4. args \in Args /\ args' = args /\ step' = step /\ seen' = seen
        /\ have' = have /\ rows' = rows /\ exit' = exit
    BY DEF ScriptType, script
  <1>5. ScriptType' /\ OrdersRead'
    <2>1. created' \in [Requests -> Times]
      BY <1>2, StampedOnce
    <2>2. orders \subseteq orders'
      BY ServiceStep
    <2> QED
      BY <1>3, <1>4, <2>1, <2>2 DEF ScriptType, OrdersRead, Since
  <1>6. Missing' = Missing /\ Missing \subseteq orders
    BY <1>3, <1>4 DEF Missing, OrdersRead, Since
  <1>7. \A f \in Files, q \in Requests : payments[f][q] > 0 =>
           payments'[f][q] > 0 /\ oid'[q] = oid[q] /\ created'[q] = created[q]
    BY <1>2, StampedOnce, ServiceStep
  <1>8. NoPaymentTwice'
    <2> SUFFICES ASSUME NEW f \in Files, NEW r \in Requests, payments'[f][r] > 1
                 PROVE  /\ r \notin orders'
                        /\ \E m \in orders' : oid'[m] = oid'[r] /\ created'[r] < created'[m]
      BY DEF NoPaymentTwice
    <2>1. payments[f][r] > 1 /\ payments[f][r] > 0
      <3>1. payments'[f][r] = payments[f][r] \/ payments'[f][r] = 1
        BY ServiceStep
      <3>2. ~(1 > 1)
        OBVIOUS
      <3>3. payments'[f][r] = payments[f][r]
        BY <3>1, <3>2, Zenon
      <3>4. payments[f][r] > 1 /\ payments[f][r] \in Nat
        BY <3>3, Zenon DEF IInv, TypeOK
      <3> QED
        BY <3>4
    <2>2. PICK m \in orders : oid[m] = oid[r] /\ created[r] < created[m]
      BY <2>1 DEF NoPaymentTwice
    <2>3. r \notin orders
      BY <2>1 DEF NoPaymentTwice
    <2>4. oid'[r] = oid[r] /\ created'[r] = created[r]
      BY <2>1, <1>7
    <2>5. r \notin orders'
      <3>1. ~(oid[m] < oid[r])
        BY <2>2 DEF IInv, TypeOK
      <3> QED
        BY <2>3, <3>1, ServiceStep
    <2>6. m \in orders' /\ oid'[m] = oid[m] /\ created'[m] = created[m]
      BY <1>3, ServiceStep
    <2> QED
      BY <2>2, <2>4, <2>5, <2>6
  <1>9. TargetRead'
    <2> SUFFICES ASSUME step \in {"target", "source"} PROVE TargetRead'
      BY <1>4 DEF TargetRead
    <2> DEFINE t == args.target
    <2>1. t \in Files
      BY <1>4 DEF Args
    <2>2. have \subseteq PaidIds(t)'
      <3> SUFFICES ASSUME NEW i \in have
                   PROVE  \E q \in Requests : /\ payments'[t][q] > 0 /\ oid'[q] = i
                                              /\ created'[q] >= args.since
        BY <1>4 DEF PaidIds, Since, Paid
      <3>1. PICK q \in Requests : payments[t][q] > 0 /\ oid[q] = i /\ created[q] >= args.since
        BY DEF TargetRead, PaidIds, Since, Paid
      <3> QED
        BY <3>1, <2>1, <1>7
    <2>3. ASSUME NEW p \in Requests, NEW m \in Missing, payments'[t][p] > 0,
                 created'[p] >= args.since
          PROVE  oid'[p] # oid'[m]
      <3>1. oid'[m] = oid[m] /\ m \in orders
        BY <1>3, <1>6
      <3>2. CASE payments[t][p] > 0
        <4>1. oid'[p] = oid[p] /\ created[p] >= args.since
          BY <2>1, <2>3, <3>2, <1>7
        <4> QED
          BY <3>1, <3>2, <4>1 DEF TargetRead, Since, Paid
      <3>3. CASE ~(payments[t][p] > 0)
        <4>1. oid'[p] = oid[p] /\ oid[m] < oid[p]
          BY <2>1, <2>3, <3>1, <3>3, ServiceStep
        <4> QED
          BY <4>1, <3>1 DEF IInv, TypeOK
      <3> QED
        BY <3>2, <3>3
    <2> QED
      BY <2>2, <2>3, <1>4, <1>6 DEF TargetRead, Since, Paid
  <1>10. SourceRead'
    <2> SUFFICES ASSUME step = "source" PROVE SourceRead'
      BY <1>4 DEF SourceRead
    <2> DEFINE f == args.source
    <2>1. f \in Files /\ args.apply /\ f' = f
      BY <1>4 DEF SourceRead
    <2>2. \A q : RowsOf(q)' = RowsOf(q)
      BY <1>4 DEF RowsOf
    <2>3. ASSUME NEW q \in Requests, RowsOf(q) # {}
          PROVE  /\ payments[f][q] > 0 /\ payments'[f][q] = payments[f][q]
                 /\ RowsOf(q) = {q} \X (1 .. payments[f][q])
      <3>1. RowsOf(q) = {q} \X (1 .. payments[f][q])
        BY <2>3 DEF SourceRead
      <3>2. payments[f][q] \in Nat /\ 1 .. payments[f][q] # {}
        BY <2>1, <2>3, <3>1 DEF IInv, TypeOK
      <3>3. payments[f][q] > 0
        BY <3>2
      <3> QED
        BY <2>1, <3>1, <3>3, ServiceStep
    <2>4. ASSUME NEW w \in rows
          PROVE  w[1] \in Requests /\ \E m \in Missing : oid'[w[1]] = oid'[m]
      <3>1. PICK m \in Missing : w[1] \in Requests /\ oid[w[1]] = oid[m]
        BY DEF SourceRead
      <3>2. payments[f][w[1]] > 0
        BY <2>3, <3>1 DEF RowsOf
      <3> QED
        BY <2>1, <3>1, <3>2, <1>3, <1>6, <1>7
    <2>5. \A m \in Missing : payments'[f][m] > 0 => RowsOf(m) # {}
      BY <2>1, <1>6, ServiceStep DEF SourceRead
    <2>6. \A q \in Requests : RowsOf(q) = {} \/ RowsOf(q) = {q} \X (1 .. payments'[f][q])
      BY <2>3
    <2> QED
      BY <2>1, <2>2, <2>4, <2>5, <2>6, <1>4, <1>6 DEF SourceRead
  <1>11. GapClosed'
    <2> SUFFICES ASSUME step = "exited", exit # 1, args.apply, args.source # NoSource,
                        NEW r \in seen, payments'[args.source][r] > 0
                 PROVE  \E q \in Requests : /\ payments'[args.target][q] > 0
                                            /\ oid'[q] = oid'[r] /\ created'[q] >= args.since
      BY <1>4 DEF GapClosed, PaidIds, Since, Paid
    <2>1. args.source \in Files /\ args.target \in Files
      BY <1>4 DEF Args
    <2>2. r \in orders /\ oid'[r] = oid[r] /\ payments[args.source][r] > 0
      BY <2>1, <1>3, ServiceStep DEF OrdersRead, Since
    <2>3. PICK q \in Requests : /\ payments[args.target][q] > 0
                                /\ oid[q] = oid[r] /\ created[q] >= args.since
      BY <2>2 DEF GapClosed, PaidIds, Since, Paid
    <2> QED
      BY <2>1, <2>2, <2>3, <1>7
  <1> QED
    BY <1>1, <1>5, <1>8, <1>9, <1>10, <1>11

\* A step of the script that leaves both databases alone keeps what the
\* invariant says of them.
LEMMA ReadOnly ==
  ASSUME RInv, UNCHANGED <<vars, created>>
  PROVE  IInv' /\ NoPaymentTwice'
  <1>1. UNCHANGED vars /\ created' = created
    OBVIOUS
  <1>2. IInv'
    BY <1>1, StepInv DEF RInv
  <1>3. NoPaymentTwice'
    BY <1>1 DEF RInv, NoPaymentTwice, vars
  <1> QED
    BY <1>2, <1>3

\* What the script reads of the target.
LEMMA TargetReading ==
  ASSUME RInv, ReadTarget
  PROVE  RInv'
  <1> USE DEF RInv, ReadTarget
  <1>1. IInv' /\ NoPaymentTwice'
    BY ReadOnly
  <1>2. /\ step' = "target" /\ args' = args /\ seen' = seen /\ have' = PaidIds(args.target)
        /\ orders' = orders /\ oid' = oid /\ payments' = payments /\ created' = created
    BY DEF vars
  <1>3. ScriptType' /\ OrdersRead' /\ SourceRead' /\ GapClosed'
    BY <1>2 DEF ScriptType, OrdersRead, SourceRead, GapClosed, Since
  <1>4. TargetRead'
    <2>1. have' \subseteq PaidIds(args.target)'
      BY <1>2 DEF PaidIds, Since, Paid
    <2>2. ASSUME NEW p \in Since(Paid(args.target)), NEW m \in Missing'
          PROVE  oid[p] # oid[m]
      BY <1>2, <2>2 DEF PaidIds, Missing
    <2> QED
      BY <1>2, <2>1, <2>2 DEF TargetRead, Since, Paid
  <1> QED
    BY <1>1, <1>3, <1>4

\* What the script reads of the source: every row once, whoever paid it.
LEMMA SourceReading ==
  ASSUME RInv, ReadSource
  PROVE  RInv'
  <1> USE DEF RInv
  <1>1. IInv' /\ NoPaymentTwice'
    BY ReadOnly DEF ReadSource
  <1>2. /\ step = "target" /\ args' = args /\ seen' = seen /\ have' = have /\ rows' = Rows
        /\ orders' = orders /\ oid' = oid /\ payments' = payments /\ created' = created
        /\ args.source # NoSource
    BY DEF ReadSource, vars
  <1>3. \/ step' = "source" /\ args.apply
        \/ step' = "exited" /\ (args.apply => Rows = {})
    BY DEF ReadSource, MissingExit, Exit, ScriptType, Args
  <1>4. args.source \in Files /\ args.target \in Files
    BY <1>2 DEF ScriptType, Args
  <1>5. Missing' = Missing /\ Missing \subseteq Requests
    BY <1>2 DEF Missing, OrdersRead, Since, IInv, TypeOK
  <1> DEFINE source == args.source
             Of(q) == {w \in Rows : w[1] = q}
             All(q) == {q} \X (1 .. payments[source][q])
  <1>6. \A w \in Rows : w[1] \in Requests /\ \E m \in Missing : oid[w[1]] = oid[m]
    BY DEF Rows, SourceRows
  <1>7. \A q \in Requests :
           Of(q) = IF \E m \in Missing : oid[q] = oid[m] THEN All(q) ELSE {}
    BY DEF Rows, SourceRows
  <1>8. ASSUME NEW m \in Missing, payments[source][m] > 0 PROVE Of(m) # {}
    <2>1. m \in Requests /\ payments[source][m] \in Nat
      BY <1>4, <1>5 DEF IInv, TypeOK
    <2>2. <<m, 1>> \in All(m)
      BY <2>1, <1>8
    <2> HIDE DEF Of, All
    <2> QED
      BY <2>1, <2>2, <1>7
  <1>9. ScriptType' /\ OrdersRead'
    BY <1>2, <1>3 DEF ScriptType, OrdersRead, Since
  <1>10. TargetRead'
    BY <1>2, <1>5 DEF TargetRead, PaidIds, Since, Paid
  <1>11. SourceRead'
    <2>1. \A q : RowsOf(q)' = Of(q)
      BY <1>2 DEF RowsOf
    <2>2. step' = "source" => args.apply
      BY <1>3
    <2>3. \A q \in Requests : Of(q) = {} \/ Of(q) = {q} \X (1 .. payments[source][q])
      BY <1>7, Zenon
    <2> HIDE DEF Of, All
    <2> QED
      BY <1>2, <1>4, <1>5, <1>6, <1>8, <2>1, <2>2, <2>3 DEF SourceRead
  <1>12. GapClosed'
    <2> SUFFICES ASSUME step' = "exited", args.apply, NEW r \in seen,
                        payments[args.source][r] > 0
                 PROVE  oid[r] \in PaidIds(args.target)
      BY <1>2 DEF GapClosed, PaidIds, Since, Paid
    <2>1. Rows = {}
      BY <1>3
    <2>2. oid[r] \in have
      BY <2>1, <1>8 DEF Missing
    <2> QED
      BY <2>2, <1>2 DEF TargetRead
  <1> QED
    BY <1>1, <1>9, <1>10, <1>11, <1>12

\* The rows of one request are as many as their copies are numbered.
LEMMA OneRowEach ==
  ASSUME NEW q, NEW n \in Nat
  PROVE  Cardinality({q} \X (1 .. n)) = n
  <1>1. IsFiniteSet(1 .. n) /\ Cardinality(1 .. n) = n
    BY FS_Interval
  <1>2. IsFiniteSet({q}) /\ Cardinality({q}) = 1
    BY FS_Singleton
  <1>3. Cardinality({q} \X (1 .. n)) = Cardinality({q}) * Cardinality(1 .. n)
    BY <1>1, <1>2, FS_Product, Zenon
  <1> QED
    BY <1>1, <1>2, <1>3

\* Apply adds to the target, of each request with rows, the source's rows.
LEMMA Copied ==
  ASSUME RInv, Apply
  PROVE  /\ args.target \in Files /\ args.source \in Files
         /\ payments' \in [Files -> [Requests -> Nat]]
         /\ \A f \in Files, q \in Requests :
               payments'[f][q] =
                 IF f = args.target /\ RowsOf(q) # {}
                   THEN payments[f][q] + payments[args.source][q] ELSE payments[f][q]
         /\ \A q \in Requests : RowsOf(q) # {} =>
               /\ payments[args.source][q] > 0
               /\ \E m \in Missing : oid[q] = oid[m]
  <1> USE DEF RInv, IInv, TypeOK
  <1> DEFINE t == args.target
             n(q) == payments[args.source][q]
  <1>1. t \in Files /\ args.source \in Files /\ step = "source"
    BY DEF Apply, ScriptType, Args, SourceRead
  <1>2. \A q \in Requests : RowsOf(q) = {} \/ RowsOf(q) = {q} \X (1 .. n(q))
    BY <1>1, Zenon DEF SourceRead
  <1>3. \A q \in Requests : Cardinality(RowsOf(q)) = IF RowsOf(q) = {} THEN 0 ELSE n(q)
    <2>1. ASSUME NEW q \in Requests, RowsOf(q) # {} PROVE Cardinality(RowsOf(q)) = n(q)
      <3>1. n(q) \in Nat
        BY <1>1
      <3>2. RowsOf(q) = {q} \X (1 .. n(q))
        BY <1>2, <2>1, Zenon
      <3> HIDE DEF n
      <3> QED
        BY <3>1, <3>2, OneRowEach
    <2> QED
      BY <2>1, FS_EmptySet, Zenon
  <1> DEFINE After == [q \in Requests |->
                         IF RowsOf(q) # {} THEN payments[t][q] + n(q) ELSE payments[t][q]]
  <1>4. payments' = [payments EXCEPT ![t] = After]
    <2>1. payments' = [payments EXCEPT ![t] =
                        [q \in Requests |-> payments[t][q] + Cardinality(RowsOf(q))]]
      BY DEF Apply, RowsOf
    <2>2. \A q \in Requests : payments[t][q] + Cardinality(RowsOf(q)) = After[q]
      <3>1. ASSUME NEW q \in Requests
            PROVE  payments[t][q] + Cardinality(RowsOf(q)) = After[q]
        <4>1. payments[t][q] \in Nat
          BY <1>1
        <4> QED
          BY <1>3, <4>1
      <3> HIDE DEF After
      <3> QED
        BY <3>1
    <2>3. [q \in Requests |-> payments[t][q] + Cardinality(RowsOf(q))] = After
      BY <2>2
    <2> QED
      BY <2>1, <2>3
  <1>5. \A f \in Files, q \in Requests :
           payments'[f][q] =
             IF f = t /\ RowsOf(q) # {} THEN payments[f][q] + n(q) ELSE payments[f][q]
    BY <1>1, <1>4
  <1>6. payments' \in [Files -> [Requests -> Nat]]
    <2>1. After \in [Requests -> Nat]
      BY <1>1
    <2> HIDE DEF After
    <2> QED
      BY <1>1, <1>4, <2>1
  <1>7. ASSUME NEW q \in Requests, RowsOf(q) # {}
        PROVE  n(q) > 0 /\ \E m \in Missing : oid[q] = oid[m]
    <2>1. PICK w \in rows : w[1] = q
      BY <1>7 DEF RowsOf
    <2>2. \E m \in Missing : oid[q] = oid[m]
      BY <1>1, <2>1 DEF SourceRead
    <2>3. n(q) \in Nat /\ 1 .. n(q) # {}
      BY <1>1, <1>2, <1>7
    <2> HIDE DEF n
    <2> QED
      BY <2>2, <2>3
  <1> QED
    BY <1>1, <1>5, <1>6, <1>7

\* A payment once copied is there, and the service's own invariant is kept.
LEMMA AppliedRows ==
  ASSUME RInv, Apply
  PROVE  /\ IInv'
         /\ \A f \in Files, q \in Requests : payments[f][q] > 0 => payments'[f][q] > 0
  <1> USE DEF RInv
  <1>1. /\ orders' = orders /\ oid' = oid /\ pc' = pc /\ reply' = reply
        /\ writer' = writer /\ settled' = settled /\ url' = url /\ up' = up
    BY DEF Apply, service
  <1>2. \A f \in Files, q \in Requests : payments[f][q] > 0 => payments'[f][q] > 0
    <2> SUFFICES ASSUME NEW f \in Files, NEW q \in Requests, payments[f][q] > 0
                 PROVE  payments'[f][q] > 0
      OBVIOUS
    <2>1. payments[f][q] \in Nat /\ payments[args.source][q] \in Nat
      BY Copied DEF IInv, TypeOK
    <2>2. \/ payments'[f][q] = payments[f][q]
          \/ payments'[f][q] = payments[f][q] + payments[args.source][q]
      BY Copied
    <2> QED
      BY <2>1, <2>2
  <1>3. TypeOK'
    BY <1>1, Copied DEF IInv, TypeOK
  <1>4. LockInv' /\ IdInv' /\ ReplyInv'
    BY <1>1 DEF IInv, LockInv, IdInv, ReplyInv, OrderIdsUnique
  <1>5. ASSUME NEW r \in Requests, pc[r] \in {"new", "waiting", "inserted"},
               NEW f \in Files
        PROVE  payments'[f][r] = 0
    <2>1. \A g \in Files : payments[g][r] = 0
      BY <1>5 DEF IInv, RowInv
    <2>2. RowsOf(r) = {}
      BY <2>1, Copied
    <2> QED
      BY <2>1, <2>2, Copied
  <1>6. RowInv'
    BY <1>1, <1>2, <1>5 DEF IInv, TypeOK, RowInv, ConfirmedHasPayment
  <1> QED
    BY <1>2, <1>3, <1>4, <1>6 DEF IInv

\* Copying doubles only an orphan that --since hides in the target.
LEMMA AppliedOnce ==
  ASSUME RInv, Apply
  PROVE  NoPaymentTwice'
  <1> USE DEF RInv
  <1>1. step = "source" /\ orders' = orders /\ oid' = oid /\ created' = created
    BY DEF Apply
  <1>2. args.target \in Files /\ args.source \in Files /\ args.since \in Nat
    BY TimesAssumption DEF ScriptType, Args, Copied, SourceRead, Apply
  <1> SUFFICES ASSUME NEW f \in Files, NEW q \in Requests, payments'[f][q] > 1
               PROVE  q \notin orders /\ \E m \in orders : oid[m] = oid[q] /\ created[q] < created[m]
    BY <1>1 DEF NoPaymentTwice
  <1>3. CASE payments'[f][q] = payments[f][q]
    BY <1>3 DEF NoPaymentTwice
  <1>4. CASE payments'[f][q] # payments[f][q]
    <2>1. /\ f = args.target /\ RowsOf(q) # {}
          /\ payments'[f][q] = payments[f][q] + payments[args.source][q]
      BY <1>4, Copied
    <2>2. PICK m \in Missing : oid[q] = oid[m]
      BY <2>1, Copied
    <2>3. m \in orders /\ m \in Requests /\ created[m] >= args.since
      BY DEF Missing, OrdersRead, Since, IInv, TypeOK
    <2>4. created[q] \in Nat /\ created[m] \in Nat
      BY <2>3, TimesAssumption DEF ScriptType
    <2>5. CASE created[q] < args.since
      <3>1. created[q] < created[m]
        BY <1>2, <2>3, <2>4, <2>5
      <3>2. q # m
        BY <3>1, <2>4
      <3>3. q \notin orders
        BY <2>2, <2>3, <3>2 DEF IInv, IdInv, OrderIdsUnique
      <3> QED
        BY <2>2, <2>3, <3>1, <3>3
    <2>6. CASE ~(created[q] < args.since)
      <3>1. ~(payments[args.target][q] > 0)
        <4>1. created[q] >= args.since
          BY <1>2, <2>4, <2>6
        <4> QED
          BY <4>1, <1>1, <2>2 DEF TargetRead, Since, Paid
      <3>2. payments[args.target][q] \in Nat /\ payments[args.source][q] \in Nat
        BY <1>2 DEF IInv, TypeOK
      <3>3. payments[args.source][q] > 1
        BY <2>1, <3>1, <3>2
      <3> QED
        BY <3>3, <1>2 DEF NoPaymentTwice
    <2> QED
      BY <2>5, <2>6
  <1> QED
    BY <1>3, <1>4

LEMMA Applied ==
  ASSUME RInv, Apply
  PROVE  RInv'
  <1> USE DEF RInv
  <1>1. /\ step = "source" /\ step' = "exited" /\ args' = args /\ seen' = seen
        /\ orders' = orders /\ oid' = oid /\ created' = created
    BY DEF Apply, CopyExit, Exit
  <1>2. args.target \in Files /\ args.source \in Files
    BY Copied
  <1>3. ScriptType' /\ OrdersRead' /\ TargetRead' /\ SourceRead'
    BY <1>1 DEF ScriptType, OrdersRead, TargetRead, SourceRead, Since
  <1>4. GapClosed'
    <2> SUFFICES ASSUME NEW r \in seen, payments'[args.source][r] > 0
                 PROVE  \E q \in Requests : /\ payments'[args.target][q] > 0
                                            /\ oid[q] = oid[r] /\ created[q] >= args.since
      BY <1>1 DEF GapClosed, PaidIds, Since, Paid
    <2>1. r \in Requests /\ created[r] >= args.since
      BY DEF OrdersRead, Since, IInv, TypeOK
    <2>2. CASE args.source = args.target
      BY <2>1, <2>2
    <2>3. CASE args.source # args.target /\ r \in Missing
      <3>1. payments[args.source][r] > 0
        BY <1>2, <2>1, <2>3, Copied
      <3>2. RowsOf(r) # {}
        BY <3>1, <2>3, <1>1 DEF SourceRead
      <3>3. payments'[args.target][r] = payments[args.target][r] + payments[args.source][r]
        BY <1>2, <2>1, <3>2, Copied
      <3>4. payments[args.target][r] \in Nat /\ payments[args.source][r] \in Nat
        BY <1>2, <2>1 DEF IInv, TypeOK
      <3>5. payments'[args.target][r] > 0
        BY <3>1, <3>3, <3>4
      <3> QED
        BY <3>5, <2>1
    <2>4. CASE oid[r] \in have
      <3>1. PICK q \in Requests : /\ payments[args.target][q] > 0
                                  /\ oid[q] = oid[r] /\ created[q] >= args.since
        BY <1>1, <2>4 DEF TargetRead, PaidIds, Since, Paid
      <3> QED
        BY <3>1, <1>2, AppliedRows
    <2> QED
      BY <2>2, <2>3, <2>4 DEF Missing
  <1> QED
    BY <1>3, <1>4, AppliedRows, AppliedOnce

LEMMA RStepInv ==
  ASSUME RInv, [RNext]_rvars
  PROVE  RInv'
  <1>1. CASE Next /\ Stamp /\ UNCHANGED script
    BY <1>1, ServicePreserves
  <1>2. CASE Begin
    <2>1. IInv' /\ NoPaymentTwice'
      BY <1>2, ReadOnly DEF Begin
    <2>2. /\ step' = "orders" /\ args' \in Args /\ created' = created
          /\ seen' = Since(orders)'
      BY <1>2 DEF Begin, Since, vars
    <2> QED
      BY <2>1, <2>2
      DEF RInv, ScriptType, OrdersRead, TargetRead, SourceRead, GapClosed
  <1>3. CASE ReadTarget
    BY <1>3, TargetReading
  <1>4. CASE Report
    <2>1. IInv' /\ NoPaymentTwice'
      BY <1>4, ReadOnly DEF Report
    <2>2. /\ step' = "exited" /\ args' = args /\ seen' = seen /\ orders' = orders
          /\ created' = created /\ args.source = NoSource
      BY <1>4 DEF Report, MissingExit, Exit, vars
    <2> QED
      BY <2>1, <2>2
      DEF RInv, ScriptType, OrdersRead, TargetRead, SourceRead, GapClosed, Since
  <1>5. CASE ReadSource
    BY <1>5, SourceReading
  <1>6. CASE Apply
    BY <1>6, Applied
  <1>7. CASE Abort
    <2>1. IInv' /\ NoPaymentTwice'
      BY <1>7, ReadOnly DEF Abort
    <2>2. /\ step' = "exited" /\ exit' = 1 /\ args' = args /\ seen' = seen
          /\ orders' = orders /\ created' = created
      BY <1>7 DEF Abort, Exit, vars
    <2> QED
      BY <2>1, <2>2
      DEF RInv, ScriptType, OrdersRead, TargetRead, SourceRead, GapClosed, Since
  <1>8. CASE UNCHANGED rvars
    BY <1>8, ServicePreserves DEF rvars
  <1> QED
    BY <1>1, <1>2, <1>3, <1>4, <1>5, <1>6, <1>7, <1>8 DEF RNext, ScriptStep

LEMMA RInvariance == RSpec => []RInv
  <1> QED
    BY RInitInv, RStepInv, PTL DEF RSpec
-----------------------------------------------------------------------------
\* Whatever checkouts, failures and restarts come between the script's reads,
\* an order it reports missing has no payment in the target ledger.
THEOREM MissingIsMissing == RSpec => []NoFalseMissing
  <1>1. RInv => NoFalseMissing
    <2> SUFFICES ASSUME RInv, step \in {"target", "source"}, NEW r \in Missing
                 PROVE  payments[args.target][r] = 0
      BY DEF NoFalseMissing
    <2>1. r \in Requests /\ created[r] >= args.since
      BY DEF Missing, RInv, OrdersRead, Since, IInv, TypeOK
    <2>2. ~(payments[args.target][r] > 0)
      BY <2>1 DEF RInv, TargetRead, Since, Paid
    <2>3. payments[args.target][r] \in Nat
      BY <2>1 DEF RInv, ScriptType, Args, IInv, TypeOK
    <2> QED
      BY <2>2, <2>3
  <1> QED
    BY <1>1, RInvariance, PTL

\* However often the script runs, with whatever --since, and wherever it is cut
\* short, no ledger file holds the payment of a confirmed order twice; nor that
\* of an orphan, unless an order created in a later second took its id.
THEOREM CopiedOnce == RSpec => []NoPaymentTwice
  <1>1. RInv => NoPaymentTwice
    BY DEF RInv
  <1> QED
    BY <1>1, RInvariance, PTL

\* A complete run with --apply leaves no order it read without a payment in
\* the target when the source has one.
THEOREM RepairCloses == RSpec => []GapClosed
  <1>1. RInv => GapClosed
    BY DEF RInv
  <1> QED
    BY <1>1, RInvariance, PTL

\* The script never breaks what the service promises: a confirmed order has
\* its payment, also while rows are copied from file to file.
THEOREM PaymentBeforeOrderStill == RSpec => []ConfirmedHasPayment
  <1>1. RInv => ConfirmedHasPayment
    BY DEF RInv, IInv, RowInv
  <1> QED
    BY <1>1, RInvariance, PTL
-----------------------------------------------------------------------------
(* What the exit code of reconcile_ledger.py is worth.                     *)

\* Exit code 0 is honest unless two of the rows copied are payments of the same
\* order id, one of an order that was rolled back and one of the order the id
\* was given to next: the count is the only thing that can deceive the script.
ExitZeroUnlessReused ==
    /\ step = "exited" /\ exit = 0
    /\ \A v, x \in rows : oid[v[1]] = oid[x[1]] => v = x
    => \A r \in seen : oid[r] \in IdsIn(args.target)

FiniteInv == IsFiniteSet(orders) /\ IsFiniteSet(seen)

\* The rows read are payments, so the ids they bear do not change any more.
RowsPaid == \A w \in rows : w[1] \in Requests /\ \E f \in Files : payments[f][w[1]] > 0

EInv == RInv /\ FiniteInv /\ RowsPaid /\ ExitZeroUnlessReused

LEMMA FiniteStays == RInv /\ FiniteInv /\ [RNext]_rvars => FiniteInv'
  <1> SUFFICES ASSUME FiniteInv, [RNext]_rvars PROVE FiniteInv'
    OBVIOUS
  <1> USE DEF FiniteInv
  <1>1. ASSUME NEW r \in Requests, Confirm(r), UNCHANGED script PROVE FiniteInv'
    BY <1>1, FS_AddElement DEF Confirm, script
  <1>2. CASE UNCHANGED <<orders, seen>>
    BY <1>2
  <1>3. CASE Begin
    <2>1. orders' = orders /\ seen' \in SUBSET orders
      BY <1>3 DEF Begin, vars
    <2> QED
      BY <2>1, FS_Subset
  <1> QED
    BY <1>1, <1>2, <1>3
    DEF RNext, ScriptStep, ReadTarget, Report, ReadSource, Apply, Abort, Next, Handle, Post,
        Insert, NotInserted, Capture, NotCaptured, NotConfirmed, Reply, GiveUp, Webhook,
        Stop, Start, BatchLock, vars, script, rvars

\* As many rows as missing orders, no two of one id and each of a missing one:
\* then every missing order has a row of its id.
LEMMA RowsCover ==
  ASSUME RInv, FiniteInv, step = "source", Cardinality(Missing) = Cardinality(rows),
         \A v, x \in rows : oid[v[1]] = oid[x[1]] => v = x
  PROVE  \A m \in Missing : \E w \in rows : oid[w[1]] = oid[m]
  <1>1. Missing \in SUBSET seen /\ Missing \subseteq orders
    BY DEF Missing, RInv, OrdersRead, Since
  <1>2. IsFiniteSet(Missing)
    BY <1>1, FS_Subset DEF FiniteInv
  <1>3. \A w \in rows : \E m \in Missing : oid[w[1]] = oid[m]
    BY DEF RInv, SourceRead
  <1>4. \A m, n \in Missing : oid[m] = oid[n] => m = n
    BY <1>1 DEF RInv, IInv, IdInv, OrderIdsUnique
  <1> DEFINE orderOf == [w \in rows |-> CHOOSE m \in Missing : oid[w[1]] = oid[m]]
  <1>5. \A w \in rows : orderOf[w] \in Missing /\ oid[orderOf[w]] = oid[w[1]]
    BY <1>3
  <1>6. orderOf \in Injection(rows, Missing)
    <2>1. orderOf \in [rows -> Missing]
      BY <1>5
    <2>2. ASSUME NEW v \in rows, NEW x \in rows, orderOf[v] = orderOf[x] PROVE v = x
      BY <1>5, <2>2
    <2> HIDE DEF orderOf
    <2> QED
      BY <2>1, <2>2 DEF Injection, IsInjective
  <1> HIDE DEF orderOf
  <1>7. orderOf \in Surjection(rows, Missing)
    BY <1>2, <1>6, FS_Injection
  <1> QED
    BY <1>5, <1>7 DEF Surjection

\* A step of the service takes no payment away and changes the id of none.
LEMMA PaymentsStay ==
  ASSUME RInv, [Next]_vars, NEW f \in Files, NEW q \in Requests, payments[f][q] > 0
  PROVE  payments'[f][q] > 0 /\ oid'[q] = oid[q]
  BY ServiceStep DEF RInv

LEMMA RowsStay == RInv /\ RowsPaid /\ [RNext]_rvars => RowsPaid'
  <1> SUFFICES ASSUME RInv, RowsPaid, [RNext]_rvars PROVE RowsPaid'
    OBVIOUS
  <1>1. CASE [Next]_vars /\ UNCHANGED script
    BY <1>1, PaymentsStay DEF RowsPaid, script
  <1>2. CASE ReadSource
    <2>1. rows' = Rows /\ payments' = payments /\ args.source \in Files
      BY <1>2 DEF ReadSource, RInv, ScriptType, Args, vars
    <2>2. ASSUME NEW w \in Rows PROVE w[1] \in Requests /\ payments[args.source][w[1]] > 0
      <3>1. PICK q \in Requests : w \in {q} \X (1 .. payments[args.source][q])
        BY DEF Rows, SourceRows
      <3>2. payments[args.source][q] \in Nat
        BY <2>1 DEF RInv, IInv, TypeOK
      <3> QED
        BY <3>1, <3>2
    <2> QED
      BY <2>1, <2>2 DEF RowsPaid
  <1>3. CASE Apply
    <2>1. rows' = rows
      BY <1>3 DEF Apply
    <2>2. ASSUME NEW f \in Files, NEW q \in Requests, payments[f][q] > 0
          PROVE  payments'[f][q] > 0
      BY <1>3, <2>2, AppliedRows
    <2> QED
      BY <2>1, <2>2 DEF RowsPaid
  <1>4. CASE Begin
    BY <1>4 DEF Begin, RowsPaid
  <1>5. CASE ReadTarget \/ Report \/ Abort
    BY <1>5 DEF ReadTarget, Report, Abort, RowsPaid, vars
  <1> QED
    BY <1>1, <1>2, <1>3, <1>4, <1>5 DEF RNext, ScriptStep, rvars

LEMMA ExitStays ==
  ASSUME EInv, [RNext]_rvars
  PROVE  ExitZeroUnlessReused'
  <1> USE DEF EInv
  <1>1. CASE [Next]_vars /\ UNCHANGED script
    <2> SUFFICES ASSUME step = "exited", exit = 0,
                        \A v, x \in rows : oid'[v[1]] = oid'[x[1]] => v = x,
                        NEW r \in seen
                 PROVE  \E q \in Requests : payments'[args.target][q] > 0 /\ oid'[q] = oid'[r]
      BY <1>1 DEF ExitZeroUnlessReused, IdsIn, Paid, script
    <2>1. args.target \in Files
      BY DEF RInv, ScriptType, Args
    <2>2. \A w \in rows : oid'[w[1]] = oid[w[1]]
      BY <1>1, PaymentsStay DEF RowsPaid
    <2>3. oid[r] \in IdsIn(args.target)
      BY <2>2 DEF ExitZeroUnlessReused
    <2>4. PICK q \in Requests : payments[args.target][q] > 0 /\ oid[q] = oid[r]
      BY <2>3 DEF IdsIn, Paid
    <2>5. payments'[args.target][q] > 0 /\ oid'[q] = oid[q]
      BY <1>1, <2>1, <2>4, PaymentsStay
    <2>6. oid'[r] = oid[r]
      BY <1>1, ServiceStep DEF RInv, OrdersRead, Since
    <2> QED
      BY <2>4, <2>5, <2>6
  <1>2. CASE Report \/ ReadSource
    <2> SUFFICES ASSUME step' = "exited", exit' = 0, NEW r \in seen
                 PROVE  oid[r] \in IdsIn(args.target)
      BY <1>2 DEF Report, ReadSource, ExitZeroUnlessReused, IdsIn, Paid, vars
    <2>1. Missing = {} /\ step = "target"
      BY <1>2 DEF Report, ReadSource, MissingExit, Exit
    <2> QED
      BY <2>1 DEF Missing, RInv, TargetRead, PaidIds, IdsIn, Since
  <1>3. CASE Apply
    <2>0. /\ step' = "exited" /\ rows' = rows /\ seen' = seen /\ args' = args /\ oid' = oid
      BY <1>3 DEF Apply, CopyExit, Exit
    <2> SUFFICES ASSUME exit' = 0,
                        \A v, x \in rows : oid[v[1]] = oid[x[1]] => v = x,
                        NEW r \in seen
                 PROVE  \E q \in Requests : payments'[args.target][q] > 0 /\ oid[q] = oid[r]
      BY <2>0 DEF ExitZeroUnlessReused, IdsIn, Paid
    <2>1. step = "source" /\ Cardinality(Missing) = Cardinality(rows)
      BY <1>3 DEF Apply, CopyExit, Exit
    <2>2. args.target \in Files
      BY DEF RInv, ScriptType, Args
    <2>3. CASE oid[r] \in have
      <3>1. PICK q \in Requests : payments[args.target][q] > 0 /\ oid[q] = oid[r]
        BY <2>1, <2>3 DEF RInv, TargetRead, PaidIds, Since, Paid
      <3> QED
        BY <1>3, <2>2, <3>1, AppliedRows
    <2>4. CASE r \in Missing
      <3>1. PICK w \in rows : oid[w[1]] = oid[r]
        BY <2>1, <2>4, RowsCover
      <3>2. w[1] \in Requests /\ RowsOf(w[1]) # {}
        BY <2>1, <3>1 DEF RInv, SourceRead, RowsOf
      <3>3. /\ payments'[args.target][w[1]] =
                 payments[args.target][w[1]] + payments[args.source][w[1]]
            /\ payments[args.source][w[1]] > 0 /\ args.source \in Files
        BY <1>3, <2>2, <3>2, Copied
      <3>4. payments[args.target][w[1]] \in Nat /\ payments[args.source][w[1]] \in Nat
        BY <2>2, <3>2, <3>3 DEF RInv, IInv, TypeOK
      <3>5. payments'[args.target][w[1]] > 0
        BY <3>3, <3>4
      <3> QED
        BY <3>1, <3>2, <3>5
    <2> QED
      BY <2>3, <2>4 DEF Missing
  <1>4. CASE Begin \/ ReadTarget \/ Abort
    BY <1>4 DEF Begin, ReadTarget, Abort, Exit, ExitZeroUnlessReused
  <1> QED
    BY <1>1, <1>2, <1>3, <1>4 DEF RNext, ScriptStep, rvars

\* The exit code of reconcile_ledger.py, beside a live service and for any
\* number of orders and files: 0 means that every order the script read has a
\* payment in the target, unless it copied two payments of one order id.
THEOREM ExitZeroIsHonest == RSpec => []ExitZeroUnlessReused
  <1>1. RInit => EInv
    <2>1. RInit => RInv /\ orders = {} /\ seen = {}
      BY RInitInv DEF RInit, Init
    <2>2. RInit => FiniteInv
      BY <2>1, FS_EmptySet, Zenon DEF FiniteInv
    <2> QED
      BY <2>1, <2>2 DEF RInit, EInv, RowsPaid, ExitZeroUnlessReused
  <1>2. EInv /\ [RNext]_rvars => EInv'
    BY RStepInv, FiniteStays, RowsStay, ExitStays DEF EInv
  <1>3. EInv => ExitZeroUnlessReused
    BY DEF EInv
  <1> QED
    BY <1>1, <1>2, <1>3, PTL DEF RSpec
=============================================================================
