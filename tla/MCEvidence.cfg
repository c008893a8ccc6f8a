SPECIFICATION FairEvidenceSpec
CONSTANTS
    None = None
    Blank = Blank
    t1 = t1
    p1 = p1
    p2 = p2
    c1 = c1
    c2 = c2
    c3 = c3
    m0 = m0
    a = a
    b = b
    TraceIds = {t1}
    SpanIds = {p1, p2, c1, c2, c3, m0}
    Services = {a, b}
    Spans <- MCSpans
    SourceDiagnostics = {}
    MaxSpans = 5
    Windows <- MCWindows
    MaxFloat = 2
INVARIANTS
    CyclesFound
    EvidenceIsSound
    NothingDroppedSilently
    WindowsAddUp
    AgreesWithGraph
    LatencyIsAccounted
    PercentilesAreNearestRank
PROPERTY
    EveryBatchAnalysed
\* The analysis of a batch ends.
CHECK_DEADLOCK FALSE
