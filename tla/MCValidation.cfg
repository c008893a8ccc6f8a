SPECIFICATION Spec
CONSTANTS
    Stocks <- MCStocks
    Spans = 7
    Tries = 3
INVARIANTS
    PassIsEarned
    FailsForAReason
    CleanedUp
PROPERTIES
    ScriptEnds
\* The script ends.
CHECK_DEADLOCK FALSE
