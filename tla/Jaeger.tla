------------------------------- MODULE Jaeger -------------------------------
(***************************************************************************)
(* The Jaeger adapter of the analyzer: normalize_jaeger in                 *)
(* analysis/src/aegis_analysis/jaeger.py.                                  *)
(*                                                                         *)
(* Jaeger gives a span as lists of tags and of references, which repeat    *)
(* and contradict each other in any order.  The adapter folds each list in *)
(* one pass.  A step reads one element; the lists are whatever sequence of *)
(* elements is read.  Tags or references that are no list at all are like  *)
(* one malformed element.  The module follows the spans of one trace       *)
(* record; a record without a usable frame is refused before any of them   *)
(* is read.                                                                *)
(***************************************************************************)
EXTENDS Integers, FiniteSets

CONSTANTS
    TraceId,        \* traceID of the record
    RawSpans,       \* what its spans say besides their tags and references
    Tags,           \* [key, value] records, or Malformed
    References,     \* [type, trace, span] records, or Malformed
    MaxTags,        \* different tags of a span, for model checking
    MaxReferences,  \* different references of a span, for model checking
    MaxSpans,       \* spans of the record, for model checking
    Malformed,      \* an element that is not an object, or has no key
    Unusable,       \* a value of the wrong type, blank, or not finite
    None,           \* what a normalized span has for an unusable value
    Absent          \* what an absent key has for an attribute

Keys == {t.key : t \in Tags \ {Malformed}}
Values == {t.value : t \in Tags \ {Malformed}}
SpanKinds == {"server", "client", "internal", "producer", "consumer"}

ASSUME TagsAssumption ==
    /\ {"span.kind", "error", "otel.status_code"} \subseteq Keys
    /\ Absent \notin Values
ASSUME ReferencesAssumption ==
    \A f \in References \ {Malformed} : f.span # None
ASSUME RawAssumption ==
    \A r \in RawSpans \ {Malformed} :
        {r.start, r.duration} \subseteq Int \cup {Unusable}
ASSUME TimesAssumption == None \notin Int /\ Unusable \notin Int

VARIABLES
    phase,          \* what is read next: "spans", "tags" or "references"
    raw,            \* the span being read
    attributes,     \* attributes[k]: the value last accepted for key k
    rejected,       \* rejected_tags
    parents,        \* the usable CHILD_OF references
    invalidParent,  \* "yes" or "no"
    diagnostics,
    spans,          \* the normalized spans
    tagsRead,       \* history: the tags of the span being read
    refsRead,       \* history: its references
    finished        \* history: every span of the record that was read

lists == <<attributes, rejected, parents, invalidParent, tagsRead, refsRead>>
vars == <<phase, raw, lists, diagnostics, spans, finished>>

Init ==
    /\ phase = "spans"
    /\ raw = Malformed
    /\ attributes = [k \in Keys |-> Absent]
    /\ rejected = {}
    /\ parents = {}
    /\ invalidParent = "no"
    /\ tagsRead = {}
    /\ refsRead = {}
    /\ diagnostics = {}
    /\ spans = {}
    /\ finished = {}

Warning(code, id) == [code |-> code, span |-> id]

Warn(codes) ==
    diagnostics' = diagnostics \cup {Warning(code, raw.id) : code \in codes}

-----------------------------------------------------------------------------
Identified(r) == r.id # Unusable /\ r.trace = TraceId

\* An object with a usable identity is read, anything else is skipped.
BeginSpan(r) ==
    /\ phase = "spans"
    /\ Cardinality(finished) < MaxSpans
    /\ \/ /\ r # Malformed
          /\ Identified(r)
          /\ phase' = "tags"
          /\ raw' = r
          /\ UNCHANGED <<diagnostics, finished>>
       \/ /\ r # Malformed
          /\ ~Identified(r)
          /\ diagnostics' = diagnostics \cup {Warning("invalid_identity", r.id)}
          /\ finished' = finished \cup {[raw |-> r, tags |-> {}, refs |-> {}]}
          /\ UNCHANGED <<phase, raw>>
       \/ /\ r = Malformed
          /\ diagnostics' = diagnostics \cup {Warning("invalid_span", Unusable)}
          /\ finished' = finished \cup {[raw |-> r, tags |-> {}, refs |-> {}]}
          /\ UNCHANGED <<phase, raw>>
    /\ UNCHANGED <<lists, spans>>

-----------------------------------------------------------------------------
(* Tags.                                                                   *)

\* Whether a tag contradicts an earlier one.  Values of different types are
\* different values.
Contradicts(t) == attributes[t.key] \notin {Absent, t.value}

\* (Mutant: a contradicted key is dropped at once, for a later tag to set.)
ReadTagDropping(t) ==
    /\ phase = "tags"
    /\ Cardinality(tagsRead \cup {t}) <= MaxTags
    /\ tagsRead' = tagsRead \cup {t}
    /\ IF t = Malformed \/ (t # Malformed /\ t.value = Unusable)
       THEN Warn({"invalid_tags"}) /\ UNCHANGED <<attributes, rejected>>
       ELSE /\ attributes' = [attributes EXCEPT ![t.key] =
                                 IF Contradicts(t) THEN Absent ELSE t.value]
            /\ Warn(IF Contradicts(t) THEN {"invalid_tags"} ELSE {})
            /\ UNCHANGED rejected
    /\ UNCHANGED <<phase, raw, parents, invalidParent, refsRead, spans, finished>>

ReadTag(t) ==
    /\ phase = "tags"
    /\ Cardinality(tagsRead \cup {t}) <= MaxTags
    /\ tagsRead' = tagsRead \cup {t}
    /\ \/ /\ t = Malformed
          /\ Warn({"invalid_tags"})
          /\ UNCHANGED <<attributes, rejected>>
       \/ /\ t # Malformed
          /\ t.value = Unusable \/ Contradicts(t)
          /\ Warn({"invalid_tags"})
          /\ rejected' = rejected \cup {t.key}
          /\ UNCHANGED attributes
       \/ /\ t # Malformed
          /\ t.value # Unusable
          /\ ~Contradicts(t)
          /\ attributes' = [attributes EXCEPT ![t.key] = t.value]
          /\ UNCHANGED <<rejected, diagnostics>>
    /\ UNCHANGED <<phase, raw, parents, invalidParent, refsRead, spans, finished>>

TagsEnd ==
    /\ phase = "tags"
    /\ phase' = "references"
    /\ UNCHANGED <<raw, lists, diagnostics, spans, finished>>

\* The rejected keys are removed when all tags are read.
Accepted == [k \in Keys |-> IF k \in rejected THEN Absent ELSE attributes[k]]

KindOf(a) == IF a["span.kind"] \in SpanKinds THEN a["span.kind"] ELSE "unknown"

StatusOf(a) ==
    IF a["error"] = "true" \/ a["otel.status_code"] = "ERROR" THEN "error"
    ELSE IF a["otel.status_code"] = "OK" THEN "ok"
    ELSE "unset"

-----------------------------------------------------------------------------
(* References.                                                             *)

UsableParent(f) == f.trace = TraceId /\ f.span # Unusable

ReadReference(f) ==
    /\ phase = "references"
    /\ Cardinality(refsRead \cup {f}) <= MaxReferences
    /\ refsRead' = refsRead \cup {f}
    /\ \/ /\ \/ f = Malformed
             \/ f # Malformed /\ f.type = "CHILD_OF" /\ ~UsableParent(f)
          /\ invalidParent' = "yes"
          /\ UNCHANGED <<parents, diagnostics>>
       \/ /\ f # Malformed
          /\ f.type = "CHILD_OF"
          /\ UsableParent(f)
          /\ parents' = parents \cup {f.span}
          /\ UNCHANGED <<invalidParent, diagnostics>>
       \/ /\ f # Malformed
          /\ f.type # "CHILD_OF"
          /\ Warn({"unsupported_reference"})
          /\ UNCHANGED <<parents, invalidParent>>
    /\ UNCHANGED <<phase, raw, attributes, rejected, tagsRead, spans, finished>>

\* (Mutant: any usable parent will do.)
AmbiguousIfNone == invalidParent = "yes" /\ parents = {}

Ambiguous == invalidParent = "yes" \/ Cardinality(parents) > 1

ParentOf ==
    IF Ambiguous \/ parents = {} THEN None ELSE CHOOSE p \in parents : TRUE

-----------------------------------------------------------------------------
\* (Mutant: times before the epoch are taken for valid.)
ValidTimeSigned(value) == value \in Int

ValidTime(value) == value \in Nat

Timestamp(value) == IF ValidTime(value) THEN value ELSE None

EndSpan ==
    /\ phase = "references"
    /\ spans' = spans \cup
        {[trace |-> TraceId, id |-> raw.id, parent |-> ParentOf,
          service |-> IF raw.service = Unusable THEN None ELSE raw.service,
          operation |-> IF raw.operation = Unusable THEN "" ELSE raw.operation,
          kind |-> KindOf(Accepted), status |-> StatusOf(Accepted),
          start |-> Timestamp(raw.start), duration |-> Timestamp(raw.duration),
          attributes |-> Accepted]}
    /\ Warn({code \in {"ambiguous_parent", "invalid_operation", "invalid_timing"} :
                \/ code = "ambiguous_parent" /\ Ambiguous
                \/ code = "invalid_operation" /\ raw.operation = Unusable
                \/ code = "invalid_timing"
                   /\ ~(ValidTime(raw.start) /\ ValidTime(raw.duration))})
    /\ finished' = finished \cup {[raw |-> raw, tags |-> tagsRead, refs |-> refsRead]}
    /\ phase' = "spans"
    /\ attributes' = [k \in Keys |-> Absent]
    /\ rejected' = {}
    /\ parents' = {}
    /\ invalidParent' = "no"
    /\ tagsRead' = {}
    /\ refsRead' = {}
    /\ UNCHANGED raw

Next ==
    \/ \E r \in RawSpans : BeginSpan(r)
    \/ \E t \in Tags : ReadTag(t)
    \/ TagsEnd
    \/ \E f \in References : ReadReference(f)
    \/ EndSpan

Spec == Init /\ [][Next]_vars

-----------------------------------------------------------------------------
(* What the result should be, said of the sets of what was read.           *)

\* The values that tags give for a key.
Given(tags, k) == {t.value : t \in {u \in tags \ {Malformed} : u.key = k}}

\* One usable value, however often repeated, is an attribute; else there is
\* none.
Agreed(tags, k) ==
    IF \E v \in Values \ {Unusable} : Given(tags, k) = {v}
    THEN CHOOSE v \in Values : Given(tags, k) = {v}
    ELSE Absent

\* The parents that references name.
Named(refs) ==
    {f.span : f \in {g \in refs \ {Malformed} : g.type = "CHILD_OF" /\ UsableParent(g)}}

ParentsClear(refs) ==
    /\ Malformed \notin refs
    /\ \A f \in refs : f.type = "CHILD_OF" => UsableParent(f)
    /\ \A p, q \in Named(refs) : p = q

\* The spans read that should be normalized.
Usable == {d \in finished : d.raw # Malformed /\ d.raw.id # Unusable
                            /\ d.raw.trace = TraceId}

Warned(code, d) == Warning(code, d.raw.id) \in diagnostics

\* The span that the adapter should make of d.
Normalized(d, s) ==
    /\ s.id = d.raw.id
    /\ s.attributes = [k \in Keys |-> Agreed(d.tags, k)]
    /\ s.parent = IF ParentsClear(d.refs) /\ Named(d.refs) # {}
                  THEN CHOOSE p \in Named(d.refs) : TRUE ELSE None
    /\ s.kind = KindOf(s.attributes)
    /\ s.status = StatusOf(s.attributes)

-----------------------------------------------------------------------------
(* Properties.                                                             *)

\* What the extractor assumes of its input: spans of the record's own trace
\* with a usable identity, times that are valid or None.
TypeOK ==
    /\ phase \in {"spans", "tags", "references"}
    /\ phase # "spans" => raw \in RawSpans \ {Malformed}
    /\ invalidParent \in {"yes", "no"}
    /\ rejected \subseteq Keys
    /\ \A s \in spans :
        /\ s.trace = TraceId /\ s.id # Unusable
        /\ {s.start, s.duration} \subseteq Nat \cup {None}
        /\ s.kind \in SpanKinds \cup {"unknown"}
        /\ s.status \in {"unset", "ok", "error"}

\* The result depends on what the tags and references say and not on their
\* order: a key is an attribute exactly if its tags agree on a usable value,
\* a parent is given exactly if no reference is unusable or names another,
\* kind and status follow from such attributes only.
OrderDoesNotMatter ==
    /\ \A d \in Usable : \E s \in spans : Normalized(d, s)
    /\ \A s \in spans : \E d \in Usable : Normalized(d, s)

\* Nothing is lost silently: a span that was skipped, and every tag, reference,
\* time or operation that did not make it into the normalized span, is reported
\* for it.  (A missing service is left for the extractor to report.)
NothingLostSilently ==
    \A d \in finished :
        IF d.raw = Malformed THEN Warning("invalid_span", Unusable) \in diagnostics
        ELSE IF d \notin Usable THEN Warned("invalid_identity", d)
        ELSE /\ \A t \in d.tags :
                   t = Malformed \/ Agreed(d.tags, t.key) # t.value
                   => Warned("invalid_tags", d)
             /\ ParentsClear(d.refs) \/ Warned("ambiguous_parent", d)
             /\ d.raw.operation = Unusable => Warned("invalid_operation", d)
             /\ \A f \in d.refs \ {Malformed} :
                   f.type # "CHILD_OF" => Warned("unsupported_reference", d)
             /\ d.raw.start \notin Nat \/ d.raw.duration \notin Nat
                   => Warned("invalid_timing", d)

-----------------------------------------------------------------------------
(* The inductive invariant behind OrderDoesNotMatter: what the one pass    *)
(* keeps of the tags and references that it has read.                      *)

\* G are the values given for a key, a is its attribute so far.
FoldOf(G, a, isRejected) ==
    /\ IF a = Absent THEN G \subseteq {Unusable} ELSE a \in G \ {Unusable}
    /\ isRejected <=> Unusable \in G \/ \E v, w \in G : v # w

TagsFolded ==
    /\ attributes \in [Keys -> Values \cup {Absent}]
    /\ rejected \subseteq Keys
    /\ \A k \in Keys :
        FoldOf(Given(tagsRead, k), attributes[k], k \in rejected)

ReferencesFolded ==
    /\ parents = Named(refsRead)
    /\ IsFiniteSet(parents)
    /\ invalidParent = "no" <=>
        /\ Malformed \notin refsRead
        /\ \A f \in refsRead : f.type = "CHILD_OF" => UsableParent(f)

BeingRead ==
    /\ tagsRead \subseteq Tags
    /\ refsRead \subseteq References
    /\ phase # "spans" => Identified(raw)

JaegerInv ==
    /\ TypeOK
    /\ TagsFolded
    /\ ReferencesFolded
    /\ BeingRead
    /\ OrderDoesNotMatter

=============================================================================
