---------------------------- MODULE Jaeger_proofs ----------------------------
(***************************************************************************)
(* Proofs about Jaeger and Replay: for lists of any length and in any      *)
(* order, what the adapter makes of a span is what its tags and references *)
(* agree on, and may be kept in a fixture.                                 *)
(***************************************************************************)
EXTENDS Replay, FiniteSetTheorems, TLAPS

\* The values given for a key once t is read too.
LEMMA GivenOneMore ==
    ASSUME NEW tags, NEW t, NEW k
    PROVE  /\ t = Malformed => Given(tags \cup {t}, k) = Given(tags, k)
           /\ t # Malformed /\ t.key # k => Given(tags \cup {t}, k) = Given(tags, k)
           /\ t # Malformed /\ t.key = k =>
                 Given(tags \cup {t}, k) = Given(tags, k) \cup {t.value}
  BY DEF Given

\* A usable value that contradicts nothing is the attribute from then on.
LEMMA FoldAccepts ==
    ASSUME NEW G, NEW a, NEW v, NEW b, FoldOf(G, a, b),
           v # Unusable, v # Absent, a \in {Absent, v}
    PROVE  FoldOf(G \cup {v}, v, b)
  <1>1. CASE a = Absent
    BY <1>1 DEF FoldOf
  <1>2. CASE a = v
    BY <1>2 DEF FoldOf
  <1> QED BY <1>1, <1>2

\* Reading a tag keeps the fold.
LEMMA TagKeepsFold ==
    ASSUME TagsFolded, NEW t \in Tags, ReadTag(t)
    PROVE  TagsFolded'
  <1>1. /\ tagsRead' = tagsRead \cup {t}
        /\ t # Malformed => t.key \in Keys /\ t.value \in Values
    BY DEF ReadTag, Keys, Values
  <1>2. /\ attributes \in [Keys -> Values \cup {Absent}]
        /\ rejected \subseteq Keys
        /\ \A k \in Keys : FoldOf(Given(tagsRead, k), attributes[k], k \in rejected)
    BY DEF TagsFolded
  <1>3. SUFFICES
            /\ attributes' \in [Keys -> Values \cup {Absent}]
            /\ rejected' \subseteq Keys
            /\ \A k \in Keys :
                  FoldOf(Given(tagsRead', k), attributes'[k], k \in rejected')
    BY DEF TagsFolded
  <1>4. CASE t = Malformed
    <2>1. ASSUME NEW k \in Keys PROVE Given(tagsRead', k) = Given(tagsRead, k)
      BY <1>1, <1>4, GivenOneMore
    <2>2. attributes' = attributes /\ rejected' = rejected
      BY <1>4 DEF ReadTag
    <2> QED BY <1>2, <2>1, <2>2
  <1>5. ASSUME t # Malformed, NEW k \in Keys, k # t.key
        PROVE  Given(tagsRead', k) = Given(tagsRead, k)
    BY <1>1, <1>5, GivenOneMore
  <1>6. ASSUME t # Malformed
        PROVE  Given(tagsRead', t.key) = Given(tagsRead, t.key) \cup {t.value}
    BY <1>1, <1>6 DEF Given
  <1>7. CASE t # Malformed /\ (t.value = Unusable \/ Contradicts(t))
    <2>1. rejected' = rejected \cup {t.key} /\ attributes' = attributes
      BY <1>7 DEF ReadTag
    <2> DEFINE G == Given(tagsRead, t.key)
    <2>0. FoldOf(G, attributes[t.key], t.key \in rejected)
      BY <1>1, <1>2, <1>7
    <2>2. FoldOf(Given(tagsRead', t.key), attributes[t.key], TRUE)
      <3>1. t.value = Unusable \/ attributes[t.key] \notin {Absent, t.value}
        BY <1>7 DEF Contradicts
      <3>2. Given(tagsRead', t.key) = G \cup {t.value}
        BY <1>6, <1>7
      <3> HIDE DEF G
      <3> QED BY <2>0, <3>1, <3>2 DEF FoldOf
    <2>3. ASSUME NEW k \in Keys
          PROVE  FoldOf(Given(tagsRead', k), attributes'[k], k \in rejected')
      <3>1. CASE k = t.key
        <4>1. (k \in rejected') = TRUE
          BY <2>1, <3>1
        <4> QED BY <2>1, <2>2, <3>1, <4>1
      <3>2. CASE k # t.key
        <4>1. (k \in rejected') = (k \in rejected)
          BY <2>1, <3>2
        <4> QED BY <1>2, <1>5, <1>7, <2>1, <3>2, <4>1
      <3> QED BY <3>1, <3>2
    <2> QED BY <1>1, <1>2, <1>7, <2>1, <2>3
  <1>8. CASE t # Malformed /\ t.value # Unusable /\ ~Contradicts(t)
    <2>1. /\ rejected' = rejected
          /\ attributes' = [attributes EXCEPT ![t.key] = t.value]
      BY <1>8 DEF ReadTag
    <2>2. t.value # Absent
      BY <1>1, <1>8, TagsAssumption
    <2> DEFINE G == Given(tagsRead, t.key)
    <2>0. FoldOf(G, attributes[t.key], t.key \in rejected)
      BY <1>1, <1>2, <1>8
    <2>3. FoldOf(Given(tagsRead', t.key), t.value, t.key \in rejected)
      <3>1. t.value # Unusable /\ attributes[t.key] \in {Absent, t.value}
        BY <1>8 DEF Contradicts
      <3>2. Given(tagsRead', t.key) = G \cup {t.value}
        BY <1>6, <1>8
      <3> HIDE DEF G
      <3> QED BY <2>0, <2>2, <3>1, <3>2, FoldAccepts
    <2>4. /\ attributes' \in [Keys -> Values \cup {Absent}]
          /\ attributes'[t.key] = t.value
          /\ \A k \in Keys : k # t.key => attributes'[k] = attributes[k]
      BY <1>1, <1>2, <1>8, <2>1
    <2>5. ASSUME NEW k \in Keys
          PROVE  FoldOf(Given(tagsRead', k), attributes'[k], k \in rejected')
      <3>1. CASE k = t.key
        BY <2>1, <2>3, <2>4, <3>1
      <3>2. CASE k # t.key
        BY <1>2, <1>5, <1>8, <2>1, <2>4, <3>2
      <3> QED BY <3>1, <3>2
    <2> QED BY <1>2, <2>1, <2>4, <2>5
  <1> QED BY <1>4, <1>7, <1>8

\* What the fold accepts is what the tags agree on.
LEMMA AcceptedIsAgreed ==
    ASSUME TagsFolded
    PROVE  Accepted = [k \in Keys |-> Agreed(tagsRead, k)]
  <1>1. ASSUME NEW k \in Keys
        PROVE  Accepted[k] = Agreed(tagsRead, k)
    <2> DEFINE G == Given(tagsRead, k)
    <2>1. /\ FoldOf(G, attributes[k], k \in rejected)
          /\ attributes[k] \in Values \cup {Absent}
      BY DEF TagsFolded
    <2> HIDE DEF G
    <2>2. CASE k \in rejected
      <3>1. ~ \E v \in Values \ {Unusable} : G = {v}
        BY <2>1, <2>2 DEF FoldOf
      <3> QED BY <2>2, <3>1 DEF Accepted, Agreed, G
    <2>3. CASE k \notin rejected /\ attributes[k] = Absent
      <3>1. ~ \E v \in Values \ {Unusable} : G = {v}
        BY <2>1, <2>3 DEF FoldOf
      <3> QED BY <2>3, <3>1 DEF Accepted, Agreed, G
    <2>4. CASE k \notin rejected /\ attributes[k] # Absent
      <3>1. attributes[k] \in Values \ {Unusable} /\ G = {attributes[k]}
        BY <2>1, <2>4 DEF FoldOf
      <3>2. (CHOOSE v \in Values : G = {v}) = attributes[k]
        BY <3>1
      <3> QED BY <2>4, <3>1, <3>2 DEF Accepted, Agreed, G
    <2> QED BY <2>2, <2>3, <2>4
  <1> QED BY <1>1 DEF Accepted

\* Reading a reference keeps the fold.
LEMMA ReferenceKeepsFold ==
    ASSUME ReferencesFolded, invalidParent \in {"yes", "no"},
           NEW f \in References, ReadReference(f)
    PROVE  ReferencesFolded' /\ invalidParent' \in {"yes", "no"}
  <1>1. refsRead' = refsRead \cup {f}
    BY DEF ReadReference
  <1>2. CASE f = Malformed
    BY <1>1, <1>2 DEF ReadReference, ReferencesFolded, Named
  <1>3. CASE f # Malformed /\ f.type # "CHILD_OF"
    BY <1>1, <1>3 DEF ReadReference, ReferencesFolded, Named, UsableParent
  <1>4. CASE f # Malformed /\ f.type = "CHILD_OF" /\ UsableParent(f)
    <2>1. parents' = parents \cup {f.span} /\ invalidParent' = invalidParent
      BY <1>4 DEF ReadReference
    <2>2. Named(refsRead') = Named(refsRead) \cup {f.span}
      BY <1>1, <1>4 DEF Named
    <2>3. IsFiniteSet(parents')
      BY <2>1, FS_AddElement DEF ReferencesFolded
    <2> QED BY <1>1, <1>4, <2>1, <2>2, <2>3 DEF ReferencesFolded, UsableParent
  <1>5. CASE f # Malformed /\ f.type = "CHILD_OF" /\ ~UsableParent(f)
    BY <1>1, <1>5 DEF ReadReference, ReferencesFolded, Named, UsableParent
  <1> QED BY <1>2, <1>3, <1>4, <1>5

\* A set has more than one element if two of its elements differ.
LEMMA SeveralDiffer ==
    ASSUME NEW S, IsFiniteSet(S), S # {}
    PROVE  Cardinality(S) > 1 <=> ~ \A p, q \in S : p = q
  <1>1. Cardinality(S) \in Nat /\ Cardinality(S) # 0
    BY FS_CardinalityType, FS_EmptySet
  <1>2. Cardinality(S) = 1 <=> \E x : S = {x}
    BY FS_Singleton
  <1> QED BY <1>1, <1>2

\* The parent that is kept is the one that the references name.
LEMMA ParentIsNamed ==
    ASSUME ReferencesFolded, invalidParent \in {"yes", "no"}
    PROVE  ParentOf = IF ParentsClear(refsRead) /\ Named(refsRead) # {}
                      THEN CHOOSE p \in Named(refsRead) : TRUE ELSE None
  <1>1. Ambiguous \/ parents = {} <=>
            ~(ParentsClear(refsRead) /\ Named(refsRead) # {})
    <2>1. CASE parents = {}
      BY <2>1 DEF ReferencesFolded
    <2>2. CASE parents # {} /\ invalidParent = "yes"
      BY <2>2 DEF ReferencesFolded, Ambiguous, ParentsClear
    <2>3. CASE parents # {} /\ invalidParent = "no"
      <3>1. Ambiguous <=> Cardinality(parents) > 1
        BY <2>3 DEF Ambiguous
      <3>2. ParentsClear(refsRead) <=> \A p, q \in parents : p = q
        BY <2>3 DEF ReferencesFolded, ParentsClear
      <3>3. Cardinality(parents) > 1 <=> ~ \A p, q \in parents : p = q
        BY <2>3, SeveralDiffer DEF ReferencesFolded
      <3> QED BY <2>3, <3>1, <3>2, <3>3 DEF ReferencesFolded
    <2> QED BY <2>1, <2>2, <2>3
  <1> QED BY <1>1 DEF ParentOf, ReferencesFolded

\* The span that a step adds.
Ends(s) ==
    /\ spans' = spans \cup {s}
    /\ s.trace = TraceId /\ s.id = raw.id
    /\ s.attributes = Accepted
    /\ s.parent = ParentOf
    /\ s.service = IF raw.service = Unusable THEN None ELSE raw.service
    /\ s.operation = IF raw.operation = Unusable THEN "" ELSE raw.operation
    /\ s.kind = KindOf(Accepted)
    /\ s.status = StatusOf(Accepted)
    /\ s.start = Timestamp(raw.start)
    /\ s.duration = Timestamp(raw.duration)

\* EndSpan adds one span.
LEMMA EndAddsOne ==
    ASSUME EndSpan
    PROVE  \E s : Ends(s)
  <1> DEFINE s ==
        [trace |-> TraceId, id |-> raw.id, parent |-> ParentOf,
         service |-> IF raw.service = Unusable THEN None ELSE raw.service,
         operation |-> IF raw.operation = Unusable THEN "" ELSE raw.operation,
         kind |-> KindOf(Accepted), status |-> StatusOf(Accepted),
         start |-> Timestamp(raw.start), duration |-> Timestamp(raw.duration),
         attributes |-> Accepted]
  <1>1. spans' = spans \cup {s}
    BY DEF EndSpan
  <1>2. /\ s.trace = TraceId /\ s.id = raw.id
        /\ s.attributes = Accepted
        /\ s.parent = ParentOf
        /\ s.service = IF raw.service = Unusable THEN None ELSE raw.service
        /\ s.operation = IF raw.operation = Unusable THEN "" ELSE raw.operation
        /\ s.kind = KindOf(Accepted)
        /\ s.status = StatusOf(Accepted)
        /\ s.start = Timestamp(raw.start)
        /\ s.duration = Timestamp(raw.duration)
    OBVIOUS
  <1> HIDE DEF s
  <1> QED BY <1>1, <1>2 DEF Ends

\* A finished span adds what it should to the result.
LEMMA EndKeepsOrder ==
    ASSUME JaegerInv, EndSpan
    PROVE  OrderDoesNotMatter'
  <1> DEFINE d == [raw |-> raw, tags |-> tagsRead, refs |-> refsRead]
  <1>1. PICK s : Ends(s)
    BY EndAddsOne
  <1>2. finished' = finished \cup {d}
    BY DEF EndSpan
  <1>3. d.raw # Malformed /\ d.raw.id # Unusable /\ d.raw.trace = TraceId
    BY DEF JaegerInv, TypeOK, BeingRead, Identified, EndSpan
  <1>4. Usable' = Usable \cup {d}
    BY <1>2, <1>3 DEF Usable
  <1>5. Normalized(d, s)
    <2>1. Accepted = [k \in Keys |-> Agreed(d.tags, k)]
      BY AcceptedIsAgreed DEF JaegerInv
    <2>2. ParentOf = IF ParentsClear(d.refs) /\ Named(d.refs) # {}
                     THEN CHOOSE p \in Named(d.refs) : TRUE ELSE None
      BY ParentIsNamed DEF JaegerInv, TypeOK
    <2> QED BY <1>1, <2>1, <2>2 DEF Normalized, Ends
  <1>6. /\ \A e \in Usable : \E x \in spans : Normalized(e, x)
        /\ \A x \in spans : \E e \in Usable : Normalized(e, x)
    BY DEF JaegerInv, OrderDoesNotMatter
  <1> HIDE DEF d
  <1>7. /\ \A e \in Usable' : \E x \in spans' : Normalized(e, x)
        /\ \A x \in spans' : \E e \in Usable' : Normalized(e, x)
    BY <1>1, <1>4, <1>5, <1>6 DEF Ends
  <1> QED BY <1>7 DEF OrderDoesNotMatter, Normalized

\* With empty lists the folds are trivial.
LEMMA EmptyFolds ==
    /\ attributes = [k \in Keys |-> Absent] /\ rejected = {} /\ tagsRead = {}
           => TagsFolded
    /\ parents = {} /\ invalidParent = "no" /\ refsRead = {}
           => ReferencesFolded
  <1>1. ASSUME tagsRead = {} PROVE \A k \in Keys : Given(tagsRead, k) = {}
    BY <1>1 DEF Given
  <1>2. ASSUME refsRead = {} PROVE Named(refsRead) = {}
    BY <1>2 DEF Named
  <1> QED BY <1>1, <1>2, FS_EmptySet DEF TagsFolded, FoldOf, ReferencesFolded

LEMMA InitInv == Init => JaegerInv
  <1> SUFFICES ASSUME Init PROVE JaegerInv
    OBVIOUS
  <1>1. TypeOK /\ BeingRead /\ OrderDoesNotMatter
    BY DEF Init, TypeOK, BeingRead, OrderDoesNotMatter, Usable
  <1>2. TagsFolded /\ ReferencesFolded
    BY EmptyFolds DEF Init
  <1> QED BY <1>1, <1>2 DEF JaegerInv

\* What is folded and finished depends on these variables only.
LEMMA KeepTags ==
    ASSUME TagsFolded, UNCHANGED <<attributes, rejected, tagsRead>>
    PROVE  TagsFolded'
  BY DEF TagsFolded, FoldOf

LEMMA KeepReferences ==
    ASSUME ReferencesFolded, UNCHANGED <<parents, invalidParent, refsRead>>
    PROVE  ReferencesFolded'
  BY DEF ReferencesFolded

LEMMA KeepOrder ==
    ASSUME OrderDoesNotMatter, spans' = spans, Usable' = Usable
    PROVE  OrderDoesNotMatter'
  BY DEF OrderDoesNotMatter, Normalized

\* Every step keeps the invariant.
LEMMA NextInv ==
    ASSUME JaegerInv, [Next]_vars
    PROVE  JaegerInv'
  <1> USE DEF JaegerInv
  <1>1. ASSUME NEW r \in RawSpans, BeginSpan(r) PROVE JaegerInv'
    <2>1. Usable' = Usable
      BY <1>1 DEF BeginSpan, Usable, Identified
    <2>2. TypeOK' /\ BeingRead'
      BY <1>1 DEF BeginSpan, lists, TypeOK, BeingRead
    <2>3. UNCHANGED <<lists, spans>>
      BY <1>1 DEF BeginSpan
    <2> QED BY <2>1, <2>2, <2>3, KeepTags, KeepReferences, KeepOrder DEF lists
  <1>2. ASSUME NEW t \in Tags, ReadTag(t) PROVE JaegerInv'
    <2>1. UNCHANGED <<phase, raw, parents, invalidParent, refsRead, spans, finished>>
      BY <1>2 DEF ReadTag
    <2>2. TagsFolded'
      BY <1>2, TagKeepsFold
    <2>3. ReferencesFolded' /\ OrderDoesNotMatter'
      BY <2>1, KeepReferences, KeepOrder DEF Usable
    <2>4. BeingRead'
      BY <1>2, <2>1 DEF ReadTag, BeingRead, Identified
    <2>5. TypeOK'
      BY <2>1, <2>2 DEF TypeOK, TagsFolded
    <2> QED BY <2>2, <2>3, <2>4, <2>5
  <1>3. CASE TagsEnd
    <2>1. UNCHANGED <<raw, lists, spans, finished>>
      BY <1>3 DEF TagsEnd
    <2>2. TypeOK' /\ BeingRead'
      BY <1>3 DEF TagsEnd, lists, TypeOK, BeingRead, Identified
    <2> QED BY <2>1, <2>2, KeepTags, KeepReferences, KeepOrder DEF lists, Usable
  <1>4. ASSUME NEW f \in References, ReadReference(f) PROVE JaegerInv'
    <2>1. UNCHANGED <<phase, raw, attributes, rejected, tagsRead, spans, finished>>
      BY <1>4 DEF ReadReference
    <2>2. ReferencesFolded' /\ invalidParent' \in {"yes", "no"}
      BY <1>4, ReferenceKeepsFold DEF TypeOK
    <2>3. TagsFolded' /\ OrderDoesNotMatter'
      BY <2>1, KeepTags, KeepOrder DEF Usable
    <2>4. BeingRead'
      BY <1>4, <2>1 DEF ReadReference, BeingRead, Identified
    <2>5. TypeOK'
      BY <2>1, <2>2 DEF TypeOK
    <2> QED BY <2>2, <2>3, <2>4, <2>5
  <1>5. CASE EndSpan
    <2>1. OrderDoesNotMatter'
      BY <1>5, EndKeepsOrder
    <2>2. TagsFolded' /\ ReferencesFolded'
      <3>1. /\ attributes' = [k \in Keys |-> Absent] /\ rejected' = {}
            /\ parents' = {} /\ invalidParent' = "no"
            /\ tagsRead' = {} /\ refsRead' = {}
        BY <1>5 DEF EndSpan
      <3>2. \A k \in Keys : Given(tagsRead', k) = {}
        BY <3>1 DEF Given
      <3>3. Named(refsRead') = {}
        BY <3>1 DEF Named
      <3>4. TagsFolded'
        BY <3>1, <3>2 DEF TagsFolded, FoldOf
      <3>5. ReferencesFolded'
        BY <3>1, <3>3, FS_EmptySet DEF ReferencesFolded
      <3> QED BY <3>4, <3>5
    <2>3. BeingRead'
      BY <1>5 DEF EndSpan, BeingRead
    <2>4. TypeOK'
      <3>1. PICK s : Ends(s)
        BY <1>5, EndAddsOne
      <3>2. /\ KindOf(Accepted) \in SpanKinds \cup {"unknown"}
            /\ StatusOf(Accepted) \in {"unset", "ok", "error"}
        BY DEF KindOf, StatusOf
      <3>3. \A v : Timestamp(v) \in Nat \cup {None}
        BY DEF Timestamp, ValidTime
      <3>4. raw.id # Unusable
        BY <1>5 DEF EndSpan, BeingRead, Identified
      <3>5. phase' = "spans" /\ invalidParent' = "no" /\ rejected' = {}
        BY <1>5 DEF EndSpan
      <3>6. /\ s.trace = TraceId /\ s.id # Unusable
            /\ {s.start, s.duration} \subseteq Nat \cup {None}
            /\ s.kind \in SpanKinds \cup {"unknown"}
            /\ s.status \in {"unset", "ok", "error"}
        BY <3>1, <3>2, <3>3, <3>4 DEF Ends
      <3>7. spans' = spans \cup {s}
        BY <3>1 DEF Ends
      <3> QED BY <3>5, <3>6, <3>7 DEF TypeOK
    <2> QED BY <2>1, <2>2, <2>3, <2>4
  <1>6. CASE UNCHANGED vars
    <2>1. TypeOK' /\ BeingRead'
      BY <1>6 DEF vars, lists, TypeOK, BeingRead, Identified
    <2> QED BY <1>6, <2>1, KeepTags, KeepReferences, KeepOrder DEF vars, lists, Usable
  <1> QED BY <1>1, <1>2, <1>3, <1>4, <1>5, <1>6 DEF Next

THEOREM InductiveInvariant == Spec => []JaegerInv
  BY InitInv, NextInv, PTL DEF Spec

\* The extractor gets what it assumes: usable identities, valid times.
THEOREM TypeCorrect == Spec => []TypeOK
  <1>1. JaegerInv => TypeOK
    BY DEF JaegerInv
  <1> QED BY <1>1, InductiveInvariant, PTL

\* However tags and references repeat, contradict each other or are ordered,
\* the span is what they agree on (jaeger.py, normalize_jaeger).
THEOREM OrderIsIrrelevant == Spec => []OrderDoesNotMatter
  <1>1. JaegerInv => OrderDoesNotMatter
    BY DEF JaegerInv
  <1> QED BY <1>1, InductiveInvariant, PTL

-----------------------------------------------------------------------------
(* Diagnostics.                                                            *)

\* What NothingLostSilently says of one of the spans read, of a set W of
\* diagnostics.
Reported(d, W) ==
    IF d.raw = Malformed THEN Warning("invalid_span", Unusable) \in W
    ELSE IF d.raw.id = Unusable \/ d.raw.trace # TraceId
    THEN Warning("invalid_identity", d.raw.id) \in W
    ELSE /\ \A t \in d.tags :
               t = Malformed \/ Agreed(d.tags, t.key) # t.value
               => Warning("invalid_tags", d.raw.id) \in W
         /\ ParentsClear(d.refs) \/ Warning("ambiguous_parent", d.raw.id) \in W
         /\ d.raw.operation = Unusable => Warning("invalid_operation", d.raw.id) \in W
         /\ \A f \in d.refs \ {Malformed} :
               f.type # "CHILD_OF" => Warning("unsupported_reference", d.raw.id) \in W
         /\ d.raw.start \notin Nat \/ d.raw.duration \notin Nat
               => Warning("invalid_timing", d.raw.id) \in W

\* What is reported stays reported.
LEMMA MoreIsReported ==
    ASSUME NEW d, NEW W, NEW X, W \subseteq X, Reported(d, W)
    PROVE  Reported(d, X)
  BY DEF Reported

LEMMA ReportedIsNotLost ==
    NothingLostSilently <=> \A d \in finished : Reported(d, diagnostics)
  BY DEF NothingLostSilently, Reported, Usable, Warned

\* What is wrong with the span being read is reported so far.
ReportedSoFar ==
    /\ phase = "spans" => tagsRead = {} /\ refsRead = {} /\ rejected = {}
    /\ rejected # {} \/ Malformed \in tagsRead
           => Warning("invalid_tags", raw.id) \in diagnostics
    /\ \A f \in refsRead \ {Malformed} :
           f.type # "CHILD_OF"
           => Warning("unsupported_reference", raw.id) \in diagnostics

LostInv ==
    /\ ReportedSoFar
    /\ \A d \in finished : Reported(d, diagnostics)

\* A tag that the result does not show has rejected its key.
LEMMA LostIsRejected ==
    ASSUME JaegerInv, NEW t \in tagsRead, t # Malformed,
           Agreed(tagsRead, t.key) # t.value
    PROVE  t.key \in rejected
  <1>1. t.key \in Keys /\ t.value \in Values /\ t.value \in Given(tagsRead, t.key)
    BY DEF JaegerInv, BeingRead, Keys, Values, Given
  <1> DEFINE G == Given(tagsRead, t.key)
  <1>2. FoldOf(G, attributes[t.key], t.key \in rejected)
    BY <1>1 DEF JaegerInv, TagsFolded
  <1>3. ASSUME t.key \notin rejected PROVE FALSE
    <2>1. t.value \in G
      BY <1>1
    <2> HIDE DEF G
    <2>2. G = {t.value} /\ t.value # Unusable
      BY <1>2, <1>3, <2>1 DEF FoldOf
    <2>3. (CHOOSE v \in Values : G = {v}) = t.value
      BY <1>1, <2>2
    <2>4. \E v \in Values \ {Unusable} : G = {v}
      BY <1>1, <2>2
    <2> QED BY <2>3, <2>4 DEF Agreed, G
  <1> QED BY <1>3

\* Where the parent is not clear, it is ambiguous.
LEMMA UnclearIsAmbiguous ==
    ASSUME JaegerInv, ~ParentsClear(refsRead)
    PROVE  Ambiguous
  <1>1. ReferencesFolded /\ invalidParent \in {"yes", "no"}
    BY DEF JaegerInv, TypeOK
  <1>2. CASE invalidParent = "yes"
    BY <1>2 DEF Ambiguous
  <1>3. CASE invalidParent = "no"
    <2>1. ~ \A p, q \in parents : p = q
      BY <1>1, <1>3 DEF ReferencesFolded, ParentsClear
    <2>2. parents # {}
      BY <2>1
    <2> QED BY <1>1, <2>1, <2>2, SeveralDiffer DEF Ambiguous, ReferencesFolded
  <1> QED BY <1>1, <1>2, <1>3

\* A span that is finished is reported as far as needed.
LEMMA EndReports ==
    ASSUME JaegerInv, ReportedSoFar, EndSpan
    PROVE  Reported([raw |-> raw, tags |-> tagsRead, refs |-> refsRead], diagnostics')
  <1> DEFINE d == [raw |-> raw, tags |-> tagsRead, refs |-> refsRead]
  <1>1. d.raw = raw /\ d.tags = tagsRead /\ d.refs = refsRead
    OBVIOUS
  <1>2. raw # Malformed /\ raw.id # Unusable /\ raw.trace = TraceId
    BY DEF JaegerInv, TypeOK, BeingRead, Identified, EndSpan
  <1> DEFINE codes ==
        {code \in {"ambiguous_parent", "invalid_operation", "invalid_timing"} :
            \/ code = "ambiguous_parent" /\ Ambiguous
            \/ code = "invalid_operation" /\ raw.operation = Unusable
            \/ code = "invalid_timing"
               /\ ~(ValidTime(raw.start) /\ ValidTime(raw.duration))}
  <1>3. diagnostics' = diagnostics \cup {Warning(code, raw.id) : code \in codes}
    BY DEF EndSpan, Warn
  <1>4. \A t \in tagsRead :
            t = Malformed \/ Agreed(tagsRead, t.key) # t.value
            => Warning("invalid_tags", raw.id) \in diagnostics
    BY LostIsRejected DEF ReportedSoFar
  <1>5. ParentsClear(refsRead) \/ "ambiguous_parent" \in codes
    BY UnclearIsAmbiguous
  <1>6. raw.operation = Unusable => "invalid_operation" \in codes
    OBVIOUS
  <1>7. raw.start \notin Nat \/ raw.duration \notin Nat => "invalid_timing" \in codes
    BY DEF ValidTime
  <1> HIDE DEF d, codes
  <1> QED BY <1>1, <1>2, <1>3, <1>4, <1>5, <1>6, <1>7 DEF Reported, ReportedSoFar

\* Skips, tags and references are reported when they are read, the rest when
\* the span is finished: nothing is dropped without a diagnostic (jaeger.py,
\* normalize_jaeger).
THEOREM NothingIsLostSilently == Spec => []NothingLostSilently
  <1>1. Init => LostInv
    BY DEF Init, LostInv, ReportedSoFar
  <1>2. ASSUME JaegerInv, LostInv, [Next]_vars
        PROVE  LostInv'
    <2> USE DEF LostInv
    <2>0. \A W : diagnostics \subseteq W => \A d \in finished : Reported(d, W)
      BY <1>2, MoreIsReported
    <2>1. ASSUME NEW r \in RawSpans, BeginSpan(r) PROVE LostInv'
      <3>1. UNCHANGED <<rejected, tagsRead, refsRead>> /\ phase = "spans"
        BY <2>1 DEF BeginSpan, lists
      <3>2. tagsRead = {} /\ refsRead = {} /\ rejected = {}
        BY <1>2, <3>1 DEF ReportedSoFar
      <3>3. ReportedSoFar'
        BY <3>1, <3>2 DEF ReportedSoFar
      <3>4. diagnostics \subseteq diagnostics'
        BY <2>1 DEF BeginSpan
      <3> DEFINE d == [raw |-> r, tags |-> {}, refs |-> {}]
      <3>5. finished' \in {finished, finished \cup {d}}
        BY <2>1 DEF BeginSpan
      <3>6. finished' # finished => Reported(d, diagnostics')
        <4>1. d.raw = r
          OBVIOUS
        <4> HIDE DEF d
        <4> QED BY <2>1, <4>1 DEF BeginSpan, Reported, Identified
      <3> HIDE DEF d
      <3> QED BY <2>0, <3>3, <3>4, <3>5, <3>6
    <2>2. ASSUME NEW t \in Tags, ReadTag(t) PROVE LostInv'
      <3>1. /\ UNCHANGED <<phase, raw, refsRead, finished>>
            /\ phase = "tags" /\ tagsRead' = tagsRead \cup {t}
            /\ diagnostics \subseteq diagnostics'
        BY <2>2 DEF ReadTag, Warn
      <3>2. \/ Warning("invalid_tags", raw.id) \in diagnostics'
            \/ t # Malformed /\ rejected' = rejected
        BY <2>2 DEF ReadTag, Warn
      <3>3. ReportedSoFar'
        BY <1>2, <3>1, <3>2 DEF ReportedSoFar
      <3> QED BY <2>0, <3>1, <3>3
    <2>3. CASE TagsEnd
      <3>1. /\ UNCHANGED <<raw, rejected, tagsRead, refsRead, diagnostics, finished>>
            /\ phase' = "references"
        BY <2>3 DEF TagsEnd, lists
      <3>2. ReportedSoFar'
        BY <1>2, <3>1 DEF ReportedSoFar
      <3> QED BY <2>0, <3>1, <3>2
    <2>4. ASSUME NEW f \in References, ReadReference(f) PROVE LostInv'
      <3>1. /\ UNCHANGED <<phase, raw, rejected, tagsRead, finished>>
            /\ phase = "references" /\ refsRead' = refsRead \cup {f}
            /\ diagnostics \subseteq diagnostics'
        BY <2>4 DEF ReadReference, Warn
      <3>2. f # Malformed /\ f.type # "CHILD_OF"
              => Warning("unsupported_reference", raw.id) \in diagnostics'
        BY <2>4 DEF ReadReference, Warn
      <3>3. ReportedSoFar'
        BY <1>2, <3>1, <3>2 DEF ReportedSoFar
      <3> QED BY <2>0, <3>1, <3>3
    <2>5. CASE EndSpan
      <3> DEFINE d == [raw |-> raw, tags |-> tagsRead, refs |-> refsRead]
      <3>1. /\ finished' = finished \cup {d}
            /\ tagsRead' = {} /\ refsRead' = {} /\ rejected' = {}
            /\ diagnostics \subseteq diagnostics'
        BY <2>5 DEF EndSpan, Warn
      <3>2. Reported(d, diagnostics')
        BY <1>2, <2>5, EndReports
      <3>3. ReportedSoFar'
        BY <3>1 DEF ReportedSoFar
      <3> HIDE DEF d
      <3> QED BY <2>0, <3>1, <3>2, <3>3
    <2>6. CASE UNCHANGED vars
      <3>1. /\ UNCHANGED <<phase, raw, rejected, tagsRead, refsRead>>
            /\ UNCHANGED <<diagnostics, finished>>
        BY <2>6 DEF vars, lists
      <3>2. ReportedSoFar'
        BY <1>2, <3>1 DEF ReportedSoFar
      <3> QED BY <2>0, <3>1, <3>2
    <2> QED BY <1>2, <2>1, <2>2, <2>3, <2>4, <2>5, <2>6 DEF Next
  <1>3. LostInv => NothingLostSilently
    BY ReportedIsNotLost DEF LostInv
  <1> QED BY <1>1, <1>2, <1>3, InductiveInvariant, PTL DEF Spec

-----------------------------------------------------------------------------
(* Replay.                                                                 *)

\* The attributes and the parent that are kept are usable.
LEMMA KeptIsUsable ==
    ASSUME JaegerInv
    PROVE  /\ \A k \in DOMAIN Accepted : Accepted[k] # Unusable
           /\ ParentOf # Unusable
  <1>1. ASSUME NEW k \in Keys PROVE Accepted[k] # Unusable
    <2> DEFINE G == Given(tagsRead, k)
    <2>1. FoldOf(G, attributes[k], k \in rejected)
      BY DEF JaegerInv, TagsFolded
    <2> HIDE DEF G
    <2>2. attributes[k] # Unusable
      BY <2>1, UsableAssumption DEF FoldOf
    <2> QED BY <2>2, UsableAssumption DEF Accepted
  <1>2. DOMAIN Accepted = Keys
    BY DEF Accepted
  <1>3. \A p \in parents : p # Unusable
    BY DEF JaegerInv, ReferencesFolded, Named, UsableParent
  <1>4. ParentOf \in parents \cup {None}
    BY DEF ParentOf
  <1> QED BY <1>1, <1>2, <1>3, <1>4, UsableAssumption

\* A span that a step adds may be kept in a fixture.
LEMMA EndIsAccepted ==
    ASSUME JaegerInv, EndSpan, NEW s, Ends(s)
    PROVE  File!ValidSpan(TraceId, s)
  <1>1. s.id # Unusable
    BY DEF Ends, EndSpan, JaegerInv, BeingRead, Identified
  <1>2. File!Owned(TraceId, s)
    BY <1>1 DEF File!Owned, Ends
  <1>3. s.service # Unusable /\ s.operation # Unusable
    BY UsableAssumption DEF Ends
  <1>4. /\ s.parent # Unusable
        /\ \A k \in DOMAIN s.attributes : s.attributes[k] # Unusable
    BY KeptIsUsable DEF Ends
  <1>5. s.kind \in File!FixtureKinds
    BY DEF Ends, KindOf, SpanKinds, File!FixtureKinds
  <1>6. s.status \in File!FixtureStatuses
    BY DEF Ends, StatusOf, File!FixtureStatuses
  <1>7. File!FixtureTime(s.start) /\ File!FixtureTime(s.duration)
    BY DEF Ends, Timestamp, ValidTime, File!FixtureTime
  <1> QED BY <1>2, <1>3, <1>4, <1>5, <1>6, <1>7 DEF File!ValidSpan

\* A fixture that is written from normalized spans is accepted when it is read
\* (validate-evidence.py:127-131, sources.py), whatever Jaeger has answered.
THEOREM ExportsAreAccepted == Spec => []ExportIsAccepted
  <1> USE DEF ExportIsAccepted, Exported
  <1>1. Init => ExportIsAccepted
    BY UsableAssumption DEF Init
  <1>2. ASSUME JaegerInv, ExportIsAccepted, [Next]_vars
        PROVE  ExportIsAccepted'
    <2>1. CASE EndSpan
      <3>1. PICK s : Ends(s)
        BY <2>1, EndAddsOne
      <3>2. File!ValidSpan(TraceId, s)
        BY <1>2, <2>1, <3>1, EndIsAccepted
      <3>3. spans' = spans \cup {s}
        BY <3>1 DEF Ends
      <3> QED BY <1>2, <3>2, <3>3
    <2>2. CASE ~EndSpan
      <3>1. spans' = spans
        BY <1>2, <2>2 DEF Next, BeginSpan, ReadTag, TagsEnd, ReadReference, vars
      <3> QED BY <1>2, <3>1
    <2> QED BY <2>1, <2>2
  <1> QED BY <1>1, <1>2, InductiveInvariant, PTL DEF Spec
=============================================================================
