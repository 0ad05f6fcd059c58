\* Two requests, so that an order id can be used twice, created in the same second
\* or in two; two files; two runs.
CONSTANTS
    Requests = {r1, r2}
    Files = {ledger, snapshot}
    Ledger = ledger
    NoOne = NoOne
    Batch = Batch
    NoSource = NoSource
    MaxRuns = 2
    Times = {0, 1}
SYMMETRY Symmetry
SPECIFICATION RSpec
INVARIANTS
    NoFalseMissing
    NoPaymentTwice
    GapClosed
