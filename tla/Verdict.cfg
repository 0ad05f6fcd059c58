\* Every fault and every vetted pair, with all their variants.  The longest
\* repair of one fault takes three calls, of a pair four.
\* Only customers go on after the verdict.
CONSTANTS
    Incidents <- Vetted
    MaxCalls = 5
SPECIFICATION Spec
CHECK_DEADLOCK FALSE
INVARIANTS
    RepairIsRewarded
    MaskedScoresLow
    NoMoneyLeftBehind
    NothingForNothing
