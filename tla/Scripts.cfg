\* Two runners, two orders that may be archived and two checkouts; two
\* migration files of two columns.
SPECIFICATION Spec
CONSTANTS
    Runners = {cron, shell}
    Cutoffs = {0, 1}
    MaxRows = 5
    Files = 2
    Columns = 2
INVARIANTS
    NoOrderLost
    SchemaIsAPrefix
PROPERTIES
    SuccessMeansDone
