------------------------------ MODULE MCJaeger ------------------------------
(***************************************************************************)
(* An instance of Jaeger for TLC: two spans, each with up to two different *)
(* tags and two different references, any of them repeated in any order.   *)
(***************************************************************************)
EXTENDS Replay

CONSTANTS t1, t2, i1, p1, p2, svc

MCTags ==
    {Malformed}
    \cup [key : {"span.kind"}, value : {"client", "other"}]
    \cup [key : {"error"}, value : {"true"}]
    \cup [key : {"otel.status_code"}, value : {"OK", Unusable}]

MCReferences ==
    {Malformed}
    \cup [type : {"CHILD_OF"}, trace : {t1}, span : {p1, p2}]
    \cup [type : {"CHILD_OF"}, trace : {t2}, span : {p1}]
    \cup [type : {"FOLLOWS_FROM"}, trace : {t1}, span : {p1}]

MCRaw(id, trace, service, operation, start) ==
    [id |-> id, trace |-> trace, service |-> service, operation |-> operation,
     start |-> start, duration |-> 0]

MCRawSpans ==
    {Malformed,
     MCRaw(i1, t1, svc, "op", 0),
     MCRaw(i1, t1, Unusable, Unusable, -1),
     MCRaw(i1, t2, svc, "op", 0),
     MCRaw(Unusable, t1, svc, "op", Unusable)}
=============================================================================
