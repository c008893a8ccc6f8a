SPECIFICATION FairSpec
CONSTANTS
    r1 = r1
    r2 = r2
    h = h
    Requests = {r1, r2, h}
    Traced = {r1, r2}
    Hung = {h}
    QueueSize = 1
    BatchSize = 1
    DrainTimeout = 2
    FlushTimeout = 1
INVARIANTS
    CleanReturnServesAll
    CleanExitKeepsSpans
PROPERTIES
    StopEnds
    RequestsNeverWait
\* The process ends.
CHECK_DEADLOCK FALSE
