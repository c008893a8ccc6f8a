SPECIFICATION Spec
CONSTANTS
    Malformed = Malformed
    Unusable = Unusable
    None = None
    Absent = Absent
    t1 = t1
    t2 = t2
    i1 = i1
    p1 = p1
    p2 = p2
    svc = svc
    TraceId = t1
    RawSpans <- MCRawSpans
    Tags <- MCTags
    References <- MCReferences
    MaxTags = 2
    MaxReferences = 2
    MaxSpans = 2
INVARIANTS
    ExportIsAccepted
    OrderDoesNotMatter
    NothingLostSilently
\* The record ends.
CHECK_DEADLOCK FALSE
