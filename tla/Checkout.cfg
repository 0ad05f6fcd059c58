\* Three requests: one left half done, one reusing its order id, one more.
\* Two ledger files: the real one and a stale snapshot.
CONSTANTS
    Requests = {r1, r2, r3}
    Files = {ledger, snapshot}
    Ledger = ledger
    NoOne = NoOne
    Batch = Batch
SPECIFICATION Spec
INVARIANTS
    ConfirmedHasPayment
    OrderIdsUnique
    AcknowledgedIsDurable
    OrphansAreFailures
PROPERTIES
    RequestsEnd
    LockIsReleased
