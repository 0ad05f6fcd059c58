\* A failed capture, the order that reuses its id and one more order, over the
\* ledger and two snapshots (ledger_divergence leaves one or two); one run,
\* within one second (--since then leaves nothing out).
CONSTANTS
    Requests = {r1, r2, r3}
    Files = {ledger, snapshot1, snapshot2}
    Ledger = ledger
    NoOne = NoOne
    Batch = Batch
    NoSource = NoSource
    MaxRuns = 1
    Times = {0}
SYMMETRY Symmetry
SPECIFICATION RSpec
INVARIANT
    ExitZeroIsConsistent
