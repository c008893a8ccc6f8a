--------------------------- MODULE Evidence_proofs ---------------------------
(***************************************************************************)
(* Proofs about Observations, for any batch of traces, and about Evidence, *)
(* for any windows and any number of latency samples.                      *)
(***************************************************************************)
EXTENDS Evidence, FunctionTheorems, FiniteSetTheorems, WellFoundedInduction,
        TLAPS

-----------------------------------------------------------------------------
(* Facts about rings and about what the steps leave unchanged.             *)

LEMMA KeysFinite == IsFiniteSet(Keys)
BY IdsAssumption, FS_Product DEF Keys

LEMMA IndexFinite ==
    ASSUME TypeOK, NEW S \in SUBSET DOMAIN indexed
    PROVE  IsFiniteSet(S)
BY KeysFinite, FS_Subset DEF TypeOK

\* On a ring no two spans have the same parent.
LEMMA RingInjective ==
    ASSUME TypeOK, NEW C \in SUBSET DOMAIN indexed, Ring(C),
           NEW a \in C, NEW b \in C, Parent(a) = Parent(b)
    PROVE  a = b
<1> DEFINE f == [k \in C |-> Parent(k)]
<1>1. f \in Surjection(C, C)
  BY DEF Ring, Surjection
<1>2. f \in Injection(C, C)
  BY <1>1, IndexFinite, FS_SurjSameCardinalityImpliesInj
<1>3. f[a] = f[b]
  OBVIOUS
<1> QED
  BY <1>2, <1>3 DEF Injection, IsInjective

LEMMA RingUnion ==
    ASSUME NEW C, NEW D, Ring(C), Ring(D)
    PROVE  Ring(C \cup D)
BY DEF Ring

LEMMA RingParent ==
    ASSUME NEW C, Ring(C), NEW k \in C
    PROVE  /\ Parent(k) \in C
           /\ \E j \in C : Parent(j) = k
BY DEF Ring

\* Rings and cycles are a matter of the index alone.
LEMMA SameRings ==
    ASSUME indexed' = indexed
    PROVE  /\ \A k : Parent(k)' = Parent(k)
           /\ \A C : Ring(C)' <=> Ring(C)
BY DEF Parent, Ring

LEMMA RootHasNoRing ==
    ASSUME TypeOK, NEW k \in DOMAIN indexed, indexed[k].parent = None
    PROVE  Parent(k) \notin DOMAIN indexed
<1>1. Parent(k)[2] = None /\ None \notin SpanIds
  BY IdsAssumption DEF Parent
<1> QED
  BY <1>1 DEF TypeOK, Keys

\* Spans have parents that the walk can look up.
LEMMA ParentType ==
    ASSUME TypeOK, NEW k \in DOMAIN indexed
    PROVE  Parent(k) \in TraceIds \X (SpanIds \cup {None})
BY SpansAssumption DEF TypeOK, Keys, Parent

-----------------------------------------------------------------------------
(* Reading and indexing.                                                   *)

LEMMA InitInv == Init => IInv
<1> SUFFICES ASSUME Init PROVE IInv
  OBVIOUS
<1>1. TypeOK
  <2>1. DOMAIN indexed = {} /\ DOMAIN path = {} /\ path \in [DOMAIN path -> Nat]
    BY DEF Init
  <2>2. count \in 0 .. MaxSpans
    BY MaxSpansAssumption DEF Init
  <2> QED
    BY <2>1, <2>2 DEF Init, TypeOK
<1>2. PathIsChain /\ Accounted /\ WalkStaysOnRing /\ IndexIsFaithful /\ Phases
  BY FS_EmptySet DEF Init, PathIsChain, Accounted, WalkStaysOnRing,
     IndexIsFaithful, Phases
<1>3. VisitedIsSettled
  BY DEF Init, VisitedIsSettled, Ring
<1> QED
  BY <1>1, <1>2, <1>3 DEF IInv

LEMMA ReadInv ==
    ASSUME IInv, NEW t \in TraceIds \cup {Blank}, NEW s \in Spans, Read(t, s)
    PROVE  IInv'
<1> USE DEF Read, walk, output
<1>1. TypeOK'
  <2> USE MaxSpansAssumption
  <2>1. CASE t = Blank \/ s.id = Blank \/ s.trace # t
    BY <2>1 DEF IInv, TypeOK
  <2>2. CASE ~(t = Blank \/ s.id = Blank \/ s.trace # t)
    <3>1. <<t, s.id>> \in Keys
      BY <2>2, SpansAssumption DEF Keys
    <3> QED
      BY <2>2, <3>1 DEF IInv, TypeOK
  <2> QED
    BY <2>1, <2>2
<1>2. (PathIsChain /\ Accounted /\ WalkStaysOnRing /\ VisitedIsSettled)'
  BY SameRings DEF IInv, PathIsChain, Accounted, WalkStaysOnRing, VisitedIsSettled
<1>3. (IndexIsFaithful /\ Phases)'
  BY DEF IInv, IndexIsFaithful, Phases
<1> QED
  BY <1>1, <1>2, <1>3 DEF IInv

LEMMA IndexInv ==
    ASSUME IInv, Index
    PROVE  IInv'
<1> USE DEF Index, input, output
<1>1. /\ DOMAIN indexed' = {k \in Keys : Uncontested(k)}
      /\ \A k \in DOMAIN indexed' :
            indexed'[k] \in Spans /\ records[k] = {indexed'[k]}
  BY DEF Uncontested
<1>2. /\ DOMAIN path = {} /\ cursor = None /\ visited = {} /\ cyclic = {}
      /\ observations = {} /\ UNCHANGED <<records, path, cursor, visited, cyclic>>
  BY DEF IInv, Phases
<1>3. TypeOK'
  BY <1>1 DEF IInv, TypeOK
<1>4. (PathIsChain /\ Accounted /\ WalkStaysOnRing /\ Phases)'
  BY <1>2, FS_EmptySet DEF PathIsChain, Accounted, WalkStaysOnRing, Phases
<1>5. VisitedIsSettled'
  BY <1>2 DEF VisitedIsSettled, Ring
<1>6. IndexIsFaithful'
  BY <1>1, <1>2 DEF IndexIsFaithful, Uncontested
<1> QED
  BY <1>3, <1>4, <1>5, <1>6 DEF IInv

-----------------------------------------------------------------------------
(* The walks.                                                              *)

\* What the steps of a walk do not touch.
LEMMA WalkFrame ==
    ASSUME IInv, phase = "walking",
           UNCHANGED <<phase, input, diagnostics, indexed, output>>
    PROVE  IndexIsFaithful'
BY DEF IInv, IndexIsFaithful, input, Uncontested

LEMMA WalkPhase ==
    ASSUME IInv, cursor # None
    PROVE  phase = "walking"
BY DEF IInv, Phases, TypeOK

LEMMA StartWalkInv ==
    ASSUME IInv, NEW k \in Keys, StartWalk(k)
    PROVE  IInv'
<1> USE DEF StartWalk, input, output
<1>1. DOMAIN path = {} /\ k \in Keys /\ k # None /\ k \in DOMAIN indexed
  BY IdsAssumption DEF IInv, PathIsChain, TypeOK, Keys
<1>2. TypeOK'
  BY <1>1 DEF IInv, TypeOK, Keys
<1>3. (PathIsChain /\ WalkStaysOnRing)'
  BY <1>1 DEF PathIsChain, WalkStaysOnRing
<1>4. (Accounted /\ Phases)'
  <2>1. None \notin DOMAIN indexed
    BY IdsAssumption DEF IInv, TypeOK, Keys
  <2> QED
    BY <1>1, <2>1 DEF IInv, Accounted, Phases
<1>5. VisitedIsSettled'
  BY SameRings DEF IInv, VisitedIsSettled
<1> QED
  BY <1>2, <1>3, <1>4, <1>5, WalkFrame DEF IInv

\* The path after a step that adds cursor to it.
LEMMA ExtendedPath ==
    ASSUME IInv, cursor # None, cursor \notin DOMAIN path
    PROVE  /\ Cardinality(DOMAIN path) \in Nat
           /\ DOMAIN Extended = DOMAIN path \cup {cursor}
           /\ Cardinality(DOMAIN Extended) = Cardinality(DOMAIN path) + 1
           /\ Extended[cursor] = Cardinality(DOMAIN path)
           /\ \A k \in DOMAIN path : Extended[k] = path[k] /\ path[k] \in Nat
           /\ Extended \in [DOMAIN Extended -> Nat]
<1>1. IsFiniteSet(DOMAIN path)
  BY IndexFinite DEF IInv, PathIsChain
<1>2. Cardinality(DOMAIN path) \in Nat
  BY <1>1, FS_CardinalityType
<1>3. Cardinality(DOMAIN path \cup {cursor}) = Cardinality(DOMAIN path) + 1
  BY <1>1, FS_AddElement
<1>4. \A k \in DOMAIN path : path[k] \in Nat
  BY DEF IInv, TypeOK
<1> QED
  BY <1>2, <1>3, <1>4 DEF Extended

LEMMA FollowInv ==
    ASSUME IInv, Follow
    PROVE  IInv'
<1> USE DEF Follow, OnTheWay, input, output
<1> DEFINE n == Cardinality(DOMAIN path)
<1>1. /\ cursor \in DOMAIN indexed /\ cursor # None
      /\ cursor \notin DOMAIN path /\ cursor \notin visited
      /\ cursor' = Parent(cursor) /\ path' = Extended
      /\ indexed' = indexed /\ visited' = visited
  OBVIOUS
<1>2. /\ n \in Nat
      /\ DOMAIN path' = DOMAIN path \cup {cursor}
      /\ Cardinality(DOMAIN path') = n + 1
      /\ path'[cursor] = n
      /\ \A k \in DOMAIN path : path'[k] = path[k] /\ path[k] \in Nat
      /\ path' \in [DOMAIN path' -> Nat]
  BY <1>1, ExtendedPath
<1> HIDE DEF n
<1>3. TypeOK'
  <2>1. cursor' \in TraceIds \X (SpanIds \cup {None})
    BY <1>1, ParentType DEF IInv
  <2> QED
    BY <1>2, <2>1 DEF IInv, TypeOK
<1>4. PathIsChain'
  <2>1. cursor' # None
    BY <1>1, ParentType, IdsAssumption DEF IInv, Parent, TypeOK, Keys
  <2>2. DOMAIN path' \subseteq DOMAIN indexed' \ visited'
    BY <1>1, <1>2 DEF IInv, PathIsChain
  <2>3. \A k \in DOMAIN path : path[k] < n
    BY DEF IInv, PathIsChain, n
  <2>4. \A k \in DOMAIN path' : path'[k] < Cardinality(DOMAIN path')
    BY <1>2, <2>3
  <2>5. \A j, k \in DOMAIN path' : path'[j] = path'[k] => j = k
    <3>1. \A j, k \in DOMAIN path : path[j] = path[k] => j = k
      BY DEF IInv, PathIsChain
    <3> QED
      BY <1>2, <2>3, <3>1
  <2>6. \E k \in DOMAIN path' : path'[k] = Cardinality(DOMAIN path') - 1
    BY <1>2
  <2>7. ASSUME NEW k \in DOMAIN path'
        PROVE  \/ /\ path'[k] = Cardinality(DOMAIN path') - 1
                  /\ Parent(k)' = cursor'
               \/ \E j \in DOMAIN path' :
                        path'[j] = path'[k] + 1 /\ Parent(k)' = j
    <3>1. CASE k = cursor
      BY <1>1, <1>2, <3>1, SameRings
    <3>2. CASE k \in DOMAIN path
      <4>1. \/ path[k] = n - 1 /\ Parent(k) = cursor
            \/ \E j \in DOMAIN path : path[j] = path[k] + 1 /\ Parent(k) = j
        BY <3>2 DEF IInv, PathIsChain, n
      <4>2. CASE path[k] = n - 1 /\ Parent(k) = cursor
        <5>1. path'[cursor] = path'[k] + 1 /\ Parent(k)' = cursor
          BY <1>1, <1>2, <3>2, <4>2, SameRings
        <5> QED
          BY <1>2, <5>1
      <4>3. CASE \E j \in DOMAIN path : path[j] = path[k] + 1 /\ Parent(k) = j
        BY <1>1, <1>2, <3>2, <4>3, SameRings
      <4> QED
        BY <4>1, <4>2, <4>3
    <3> QED
      BY <1>2, <3>1, <3>2
  <2>8. ASSUME NEW k \in DOMAIN path', path'[k] > 0
        PROVE  \E j \in DOMAIN path' : path'[j] = path'[k] - 1 /\ Parent(j)' = k
    <3>1. CASE k = cursor
      <4>1. DOMAIN path # {}
        <5> SUFFICES ASSUME DOMAIN path = {} PROVE FALSE
          OBVIOUS
        <5>1. n = 0
          BY FS_EmptySet DEF n
        <5> QED
          BY <1>2, <2>8, <3>1, <5>1
      <4>2. PICK j \in DOMAIN path : path[j] = n - 1
        BY <4>1 DEF IInv, PathIsChain, n
      <4>3. \/ path[j] = n - 1 /\ Parent(j) = cursor
            \/ \E i \in DOMAIN path : path[i] = path[j] + 1
        BY DEF IInv, PathIsChain, n
      <4>4. Parent(j) = cursor
        BY <1>2, <2>3, <4>2, <4>3
      <4> QED
        BY <1>1, <1>2, <3>1, <4>2, <4>4, SameRings
    <3>2. CASE k \in DOMAIN path
      <4>1. \E j \in DOMAIN path : path[j] = path[k] - 1 /\ Parent(j) = k
        BY <1>2, <2>8, <3>2 DEF IInv, PathIsChain
      <4> QED
        BY <1>1, <1>2, <3>2, <4>1, SameRings
    <3> QED
      BY <1>2, <3>1, <3>2
  <2> QED
    BY <2>1, <2>2, <2>4, <2>5, <2>6, <2>7, <2>8 DEF PathIsChain
<1>5. Accounted'
  BY <1>1, <1>2 DEF IInv, Accounted
<1>6. VisitedIsSettled'
  BY <1>1, SameRings DEF IInv, VisitedIsSettled
<1>7. WalkStaysOnRing'
  <2> SUFFICES ASSUME NEW C \in SUBSET DOMAIN indexed, Ring(C),
                      NEW k \in DOMAIN path' \cap C
               PROVE  /\ cursor' \in C
                      /\ \A j \in DOMAIN path' : path'[j] >= path'[k] => j \in C
    BY <1>1, SameRings DEF WalkStaysOnRing
  <2>1. cursor \in C
    BY <1>2 DEF IInv, WalkStaysOnRing
  <2>2. cursor' \in C
    BY <1>1, <2>1, RingParent
  <2>3. ASSUME NEW j \in DOMAIN path', path'[j] >= path'[k]
        PROVE  j \in C
    <3>1. CASE j = cursor
      BY <2>1, <3>1
    <3>2. CASE j \in DOMAIN path /\ k = cursor
      <4>1. path[j] < n
        BY <3>2 DEF IInv, PathIsChain, n
      <4> QED
        BY <1>2, <2>3, <3>2, <4>1
    <3>3. CASE j \in DOMAIN path /\ k \in DOMAIN path
      BY <1>2, <2>3, <3>3 DEF IInv, WalkStaysOnRing
    <3> QED
      BY <1>2, <3>1, <3>2, <3>3
  <2> QED
    BY <2>2, <2>3
<1>8. Phases'
  BY WalkPhase DEF IInv, Phases
<1> QED
  BY <1>3, <1>4, <1>5, <1>6, <1>7, <1>8, WalkFrame, WalkPhase DEF IInv

-----------------------------------------------------------------------------
(* The end of a walk.                                                      *)

\* A walk may end once its keys are settled.
LEMMA EndWalkInv ==
    ASSUME IInv, cursor # None, NEW W \in SUBSET DOMAIN indexed,
           EndWalk(W), DOMAIN path \subseteq W,
           cursor \in DOMAIN indexed => cursor \in visited \cup W,
           cyclic \subseteq cyclic', cyclic' \subseteq visited \cup W,
           Ring(cyclic'),
           \A k \in W : Parent(k) \in DOMAIN indexed => Parent(k) \in visited \cup W,
           \A C \in SUBSET DOMAIN indexed : Ring(C) => C \cap W \subseteq cyclic'
    PROVE  IInv'
<1> USE DEF EndWalk, input, output
<1>1. TypeOK'
  BY DEF IInv, TypeOK
<1>2. (PathIsChain /\ WalkStaysOnRing)'
  BY FS_EmptySet DEF PathIsChain, WalkStaysOnRing
<1>3. Accounted'
  BY DEF IInv, Accounted
<1>4. VisitedIsSettled'
  BY SameRings DEF IInv, VisitedIsSettled
<1>5. Phases'
  BY WalkPhase DEF IInv, Phases
<1> QED
  BY <1>1, <1>2, <1>3, <1>4, <1>5, WalkFrame, WalkPhase DEF IInv

\* The last key of a path, whose parent is cursor.
LEMMA PathEnd ==
    ASSUME IInv, DOMAIN path # {}
    PROVE  \E z \in DOMAIN path :
                /\ Parent(z) = cursor
                /\ \A k \in DOMAIN path : path[k] <= path[z]
<1> DEFINE n == Cardinality(DOMAIN path)
<1>1. n \in Nat /\ \A k \in DOMAIN path : path[k] \in Nat /\ path[k] < n
  BY IndexFinite, FS_CardinalityType DEF IInv, PathIsChain, TypeOK
<1>2. PICK z \in DOMAIN path : path[z] = n - 1
  BY DEF IInv, PathIsChain
<1>3. \/ Parent(z) = cursor
      \/ \E j \in DOMAIN path : path[j] = path[z] + 1
  BY DEF IInv, PathIsChain
<1> HIDE DEF n
<1> QED
  BY <1>1, <1>2, <1>3

\* The parents of the keys on a path.
LEMMA PathParents ==
    ASSUME IInv, NEW k \in DOMAIN path
    PROVE  Parent(k) \in DOMAIN path \cup {cursor}
BY DEF IInv, PathIsChain

LEMMA ReachRootInv ==
    ASSUME IInv, ReachRoot
    PROVE  IInv'
<1> USE DEF ReachRoot, OnTheWay
<1> DEFINE W == DOMAIN path \cup {cursor}
<1>1. W \subseteq DOMAIN indexed /\ cursor # None /\ cyclic' = cyclic
  BY DEF IInv, PathIsChain
<1>2. Parent(cursor) \notin DOMAIN indexed
  BY RootHasNoRing DEF IInv
<1>3. ASSUME NEW C \in SUBSET DOMAIN indexed, Ring(C)
      PROVE  C \cap W = {}
  <2>1. cursor \notin C
    BY <1>2, <1>3, RingParent
  <2> QED
    BY <1>3, <2>1 DEF IInv, WalkStaysOnRing
<1>4. Ring(cyclic) /\ cyclic \subseteq visited
  BY DEF IInv, VisitedIsSettled
<1>5. \A k \in W : Parent(k) \in DOMAIN indexed => Parent(k) \in visited \cup W
  BY <1>2, PathParents
<1> HIDE DEF W
<1>6. EndWalk(W) /\ DOMAIN path \subseteq W /\ cursor \in W
  BY DEF W
<1> QED
  BY <1>1, <1>3, <1>4, <1>5, <1>6, EndWalkInv

LEMMA LeaveInv ==
    ASSUME IInv, Leave
    PROVE  IInv'
<1> USE DEF Leave, OnTheWay
<1>1. /\ DOMAIN path \subseteq DOMAIN indexed \ visited
      /\ cursor # None /\ cyclic' = cyclic
      /\ cursor \in DOMAIN indexed => cursor \in visited
  BY DEF IInv, PathIsChain
<1>2. /\ Ring(cyclic) /\ cyclic \subseteq visited /\ visited \subseteq DOMAIN indexed
      /\ \A C \in SUBSET DOMAIN indexed : Ring(C) => C \cap visited \subseteq cyclic
  BY DEF IInv, VisitedIsSettled
<1>3. ASSUME NEW C \in SUBSET DOMAIN indexed, Ring(C), NEW x \in DOMAIN path \cap C
      PROVE  FALSE
  <2>1. cursor \in C /\ \A j \in DOMAIN path : path[j] >= path[x] => j \in C
    BY <1>3 DEF IInv, WalkStaysOnRing
  <2>2. PICK z \in DOMAIN path : /\ Parent(z) = cursor
                                 /\ \A k \in DOMAIN path : path[k] <= path[z]
    BY PathEnd
  <2>3. path[x] \in Nat /\ path[z] \in Nat
    BY DEF IInv, TypeOK
  <2>4. z \in C
    BY <2>1, <2>2, <2>3
  <2>5. cursor \in cyclic
    BY <1>1, <1>2, <1>3, <2>1
  <2>6. PICK w \in cyclic : Parent(w) = cursor
    BY <1>2, <2>5, RingParent
  <2>7. Ring(C \cup cyclic) /\ C \cup cyclic \subseteq DOMAIN indexed
    BY <1>2, <1>3, RingUnion
  <2>8. w = z
    BY <2>2, <2>4, <2>6, <2>7, RingInjective DEF IInv
  <2> QED
    BY <1>1, <1>2, <2>6, <2>8
<1>4. \A k \in DOMAIN path :
            Parent(k) \in DOMAIN indexed => Parent(k) \in visited \cup DOMAIN path
  BY <1>1, PathParents
<1> QED
  BY <1>1, <1>2, <1>3, <1>4, EndWalkInv

\* From the first visit of cursor on, the path is one ring.
LEMMA FoundIsRing ==
    ASSUME IInv, cursor \in DOMAIN path
    PROVE  Ring(RingFound)
<1>1. \A k \in DOMAIN path : path[k] \in Nat
  BY DEF IInv, TypeOK
<1>2. RingFound \subseteq DOMAIN path /\ cursor \in RingFound
  BY <1>1 DEF RingFound
<1>3. ASSUME NEW k \in RingFound
      PROVE  Parent(k) \in RingFound
  <2>1. CASE Parent(k) = cursor
    BY <1>2, <2>1
  <2>2. CASE \E j \in DOMAIN path : path[j] = path[k] + 1 /\ Parent(k) = j
    BY <1>1, <1>2, <1>3, <2>2 DEF RingFound
  <2> QED
    BY <1>2, <2>1, <2>2 DEF IInv, PathIsChain
<1>4. ASSUME NEW k \in RingFound
      PROVE  \E j \in RingFound : Parent(j) = k
  <2>1. CASE k = cursor
    <3>1. PICK z \in DOMAIN path : /\ Parent(z) = cursor
                                   /\ \A i \in DOMAIN path : path[i] <= path[z]
      BY PathEnd
    <3>2. z \in RingFound
      BY <1>1, <3>1 DEF RingFound
    <3> QED
      BY <2>1, <3>1, <3>2
  <2>2. CASE k # cursor
    <3>1. path[k] # path[cursor]
      BY <1>2, <2>2 DEF IInv, PathIsChain
    <3>2. path[k] > path[cursor] /\ path[k] > 0
      BY <1>1, <1>2, <3>1 DEF RingFound
    <3>3. PICK j \in DOMAIN path : path[j] = path[k] - 1 /\ Parent(j) = k
      BY <1>2, <3>2 DEF IInv, PathIsChain
    <3>4. j \in RingFound
      BY <1>1, <1>2, <3>2, <3>3 DEF RingFound
    <3> QED
      BY <3>3, <3>4
  <2> QED
    BY <2>1, <2>2
<1> QED
  BY <1>3, <1>4 DEF Ring

LEMMA CloseCycleInv ==
    ASSUME IInv, CloseCycle
    PROVE  IInv'
<1> USE DEF CloseCycle, OnTheWay
<1>1. DOMAIN path \subseteq DOMAIN indexed \ visited
  BY DEF IInv, PathIsChain
<1>2. /\ Ring(cyclic) /\ cyclic \subseteq visited
      /\ RingFound \subseteq DOMAIN path
      /\ \A k \in DOMAIN path : path[k] \in Nat
  BY DEF IInv, VisitedIsSettled, RingFound, TypeOK
<1>3. Ring(cyclic \cup RingFound)
  BY <1>2, FoundIsRing, RingUnion
<1>4. ASSUME NEW C \in SUBSET DOMAIN indexed, Ring(C), NEW x \in DOMAIN path \cap C
      PROVE  x \in RingFound
  <2>1. SUFFICES ASSUME path[x] < path[cursor] PROVE FALSE
    BY <1>2 DEF RingFound
  <2>2. \A j \in DOMAIN path : path[j] >= path[x] => j \in C
    BY <1>4 DEF IInv, WalkStaysOnRing
  <2>3. PICK y \in DOMAIN path : path[y] = path[cursor] - 1 /\ Parent(y) = cursor
    BY <1>2, <2>1 DEF IInv, PathIsChain
  <2>4. PICK z \in DOMAIN path : /\ Parent(z) = cursor
                                 /\ \A k \in DOMAIN path : path[k] <= path[z]
    BY PathEnd
  <2>5. y \in C /\ z \in C
    BY <1>2, <2>1, <2>2, <2>3, <2>4
  <2>6. path[y] # path[z]
    BY <1>2, <2>3, <2>4
  <2> QED
    BY <1>4, <2>3, <2>4, <2>5, <2>6, RingInjective DEF IInv
<1>5. \A k \in DOMAIN path : Parent(k) \in visited \cup DOMAIN path
  BY PathParents
<1> QED
  BY <1>1, <1>2, <1>3, <1>4, <1>5, EndWalkInv

-----------------------------------------------------------------------------
(* Pairing.                                                                *)

LEMMA EmitInv ==
    ASSUME IInv, Emit
    PROVE  IInv'
<1> USE DEF Emit, input, walk
<1>1. TypeOK'
  <2>1. nodes' \subseteq Services
    BY SpansAssumption DEF IInv, TypeOK
  <2>2. \A o \in observations' : o.parent \in Spans /\ o.child \in Spans
    BY DEF IInv, TypeOK, ParentFound
  <2> QED
    BY <2>1, <2>2 DEF IInv, TypeOK
<1>2. (PathIsChain /\ WalkStaysOnRing /\ VisitedIsSettled)'
  BY SameRings DEF IInv, PathIsChain, WalkStaysOnRing, VisitedIsSettled
<1>3. (Accounted /\ Phases)'
  BY DEF IInv, Accounted, Phases
<1>4. IndexIsFaithful'
  BY DEF IInv, IndexIsFaithful, Uncontested
<1> QED
  BY <1>1, <1>2, <1>3, <1>4 DEF IInv

LEMMA NextInv == IInv /\ [Next]_vars => IInv'
<1> SUFFICES ASSUME IInv, [Next]_vars PROVE IInv'
  OBVIOUS
<1>1. CASE \E t \in TraceIds \cup {Blank}, s \in Spans : Read(t, s)
  BY <1>1, ReadInv
<1>2. CASE Index
  BY <1>2, IndexInv
<1>3. CASE \E k \in Keys : StartWalk(k)
  BY <1>3, StartWalkInv
<1>4. CASE Follow
  BY <1>4, FollowInv
<1>5. CASE ReachRoot \/ CloseCycle \/ Leave
  BY <1>5, ReachRootInv, CloseCycleInv, LeaveInv
<1>6. CASE Emit
  BY <1>6, EmitInv
<1>7. CASE UNCHANGED vars
  <2> USE <1>7 DEF vars, input, walk, output
  <2>1. (TypeOK /\ Accounted /\ Phases)'
    BY DEF IInv, TypeOK, Accounted, Phases
  <2>2. (PathIsChain /\ WalkStaysOnRing /\ VisitedIsSettled)'
    BY SameRings DEF IInv, PathIsChain, WalkStaysOnRing, VisitedIsSettled
  <2>3. IndexIsFaithful'
    BY DEF IInv, IndexIsFaithful, Uncontested
  <2> QED
    BY <2>1, <2>2, <2>3 DEF IInv
<1> QED
  BY <1>1, <1>2, <1>3, <1>4, <1>5, <1>6, <1>7 DEF Next, Step

\* The inductive invariant holds for every batch, however large.
THEOREM InductiveInvariant == Spec => []IInv
<1> QED
  BY InitInv, NextInv, PTL DEF Spec

LEMMA CyclesKnown == IInv => CyclesFound
<1> SUFFICES ASSUME IInv, Walked
             PROVE  cyclic = {k \in DOMAIN indexed : OnCycle(k)}
  BY DEF CyclesFound
<1>1. DOMAIN indexed \subseteq visited
  <2>1. phase # "reading" /\ todo = {} /\ cursor = None /\ DOMAIN path = {}
    BY DEF IInv, Walked, Phases, PathIsChain
  <2>2. None \notin DOMAIN indexed
    BY IdsAssumption DEF IInv, TypeOK, Keys
  <2> QED
    BY <2>1, <2>2 DEF IInv, Accounted
<1>2. cyclic \subseteq DOMAIN indexed /\ Ring(cyclic)
  BY DEF IInv, VisitedIsSettled
<1>3. ASSUME NEW k \in DOMAIN indexed, OnCycle(k)
      PROVE  k \in cyclic
  BY <1>1, <1>3 DEF OnCycle, IInv, VisitedIsSettled
<1>4. \A k \in cyclic : OnCycle(k)
  BY <1>2 DEF OnCycle
<1> QED
  BY <1>2, <1>3, <1>4

\* Whatever the batch and its order of arrival, exactly the spans that are
\* their own ancestors are found to be cyclic.
THEOREM CyclesAreFound == Spec => []CyclesFound
<1> QED
  BY CyclesKnown, InductiveInvariant, PTL

-----------------------------------------------------------------------------
(* How long the walks take.                                                *)

\* The keys that no walk has seen, and how many steps are left at most.
Unseen == DOMAIN indexed \ (visited \cup DOMAIN path)

Remaining ==
    2 * Cardinality(todo) + Cardinality(Unseen)
        + (IF cursor # None THEN 1 ELSE 0) + (IF phase = "walking" THEN 1 ELSE 0)

Counts ==
    /\ IsFiniteSet(todo) /\ IsFiniteSet(Unseen)
    /\ Cardinality(todo) \in Nat /\ Cardinality(Unseen) \in Nat

LEMMA CountsKnown == IInv => Counts
<1> SUFFICES ASSUME IInv PROVE Counts
  OBVIOUS
<1>1. IsFiniteSet(todo) /\ IsFiniteSet(Unseen)
  BY IndexFinite DEF IInv, TypeOK, Unseen
<1> QED
  BY <1>1, FS_CardinalityType DEF Counts

\* A span is seen by one walk only.
LEMMA SeenOnce ==
    ASSUME IInv, Step
    PROVE  Remaining' < Remaining
<1>1. /\ IsFiniteSet(todo) /\ IsFiniteSet(Unseen)
      /\ Cardinality(todo) \in Nat /\ Cardinality(Unseen) \in Nat
  BY CountsKnown DEF Counts
<1>2. ASSUME NEW k \in Keys, StartWalk(k)
      PROVE  Remaining' < Remaining
  <2>1. Cardinality(todo') = Cardinality(todo) - 1
    BY <1>1, <1>2, FS_RemoveElement DEF StartWalk
  <2>2. Unseen' = Unseen /\ phase' = phase /\ cursor = None
    BY <1>2 DEF StartWalk, Unseen
  <2> QED
    BY <1>1, <2>1, <2>2 DEF Remaining
<1>3. ASSUME Follow \/ ReachRoot
      PROVE  Remaining' < Remaining
  <2>1. cursor \in Unseen /\ cursor # None
    BY <1>3 DEF Follow, ReachRoot, OnTheWay, Unseen
  <2>2. Unseen' = Unseen \ {cursor}
    BY <1>3 DEF Follow, ReachRoot, EndWalk, Extended, Unseen
  <2>3. Cardinality(Unseen') = Cardinality(Unseen) - 1
    BY <1>1, <2>1, <2>2, FS_RemoveElement
  <2>4. todo' = todo /\ phase' = phase
    BY <1>3 DEF Follow, ReachRoot, EndWalk
  <2> QED
    BY <1>1, <2>1, <2>3, <2>4 DEF Remaining
<1>4. ASSUME CloseCycle \/ Leave
      PROVE  Remaining' < Remaining
  <2>1. /\ Unseen' = Unseen /\ todo' = todo /\ phase' = phase
        /\ cursor # None /\ cursor' = None
    BY <1>4 DEF CloseCycle, Leave, OnTheWay, EndWalk, Unseen
  <2> QED
    BY <1>1, <2>1 DEF Remaining
<1>5. ASSUME Emit
      PROVE  Remaining' < Remaining
  <2>1. /\ Unseen' = Unseen /\ todo' = todo /\ cursor' = cursor
        /\ phase = "walking" /\ phase' = "done"
    BY <1>5 DEF Emit, walk, Unseen
  <2> QED
    BY <1>1, <2>1 DEF Remaining
<1> QED
  BY <1>2, <1>3, <1>4, <1>5 DEF Step

\* What EveryBatchAnalysed rests on besides fairness: the analysis of a batch
\* takes at most three steps for each span and one more, however the parents
\* chain and whatever cycles they close; without `visited' of observations.py:71 a chain
\* would be walked from each of its spans.
WalksAreLinear ==
    /\ Index => Remaining' = 3 * Cardinality(DOMAIN indexed') + 1
    /\ Step => Remaining' \in Nat /\ Remaining' < Remaining

THEOREM WalksTakeLinearTime == Spec => [][WalksAreLinear]_vars
<1>1. IInv /\ Counts' /\ [Next]_vars => [WalksAreLinear]_vars
  <2> SUFFICES ASSUME IInv, Counts', Next PROVE WalksAreLinear
    OBVIOUS
  <2>1. ASSUME Step
        PROVE  Remaining' \in Nat /\ Remaining' < Remaining
    <3>1. Remaining' \in Nat
      BY DEF Counts, Remaining
    <3> QED
      BY <2>1, <3>1, SeenOnce
  <2>2. ASSUME Index
        PROVE  Remaining' = 3 * Cardinality(DOMAIN indexed') + 1
    <3>1. /\ visited' = {} /\ DOMAIN path' = {} /\ cursor' = None
          /\ phase' = "walking" /\ todo' = DOMAIN indexed'
      BY <2>2 DEF Index, IInv, Phases
    <3>2. Unseen' = DOMAIN indexed'
      BY <3>1 DEF Unseen
    <3>3. Cardinality(DOMAIN indexed') \in Nat
      BY <3>1 DEF Counts
    <3> QED
      BY <3>1, <3>2, <3>3 DEF Remaining
  <2> QED
    BY <2>1, <2>2 DEF WalksAreLinear
<1> QED
  BY <1>1, CountsKnown, InductiveInvariant, PTL DEF Spec

-----------------------------------------------------------------------------
(* What is observed, and what is not.                                      *)

\* After the walks are over nothing changes but for Emit.
LEMMA EvidenceStep == IInv /\ EvidenceIsSound /\ [Next]_vars => EvidenceIsSound'
<1> SUFFICES ASSUME IInv, EvidenceIsSound, [Next]_vars
             PROVE  EvidenceIsSound'
  OBVIOUS
<1>1. CASE Emit
  <2>1. /\ UNCHANGED <<records, indexed, cyclic>>
        /\ cyclic = {k \in DOMAIN indexed : OnCycle(k)}
    BY <1>1, CyclesKnown DEF Emit, CyclesFound, Walked, walk, input
  <2>2. SUFFICES ASSUME NEW o \in observations'
                 PROVE  \E k \in DOMAIN indexed :
                          /\ o.child = indexed[k] /\ records[k] = {o.child}
                          /\ /\ o.parent = indexed[Parent(k)]
                             /\ records[Parent(k)] = {o.parent}
                          /\ ~OnCycle(k) /\ ~OnCycle(Parent(k))
                          /\ o.parent.service # o.child.service
                          /\ {o.parent.service, o.child.service} \subseteq nodes'
    BY <2>1, SameRings DEF EvidenceIsSound, OnCycle, Parent
  <2>3. PICK k \in DOMAIN indexed :
                /\ o.parent = indexed[Parent(k)] /\ o.child = indexed[k]
                /\ ParentFound(k) /\ Supported(k) /\ Crosses(k)
    BY <1>1, <2>2 DEF Emit
  <2>4. /\ Parent(k) \in DOMAIN indexed
        /\ ~OnCycle(k) /\ ~OnCycle(Parent(k))
    BY <2>1, <2>3 DEF ParentFound, Supported
  <2>5. records[k] = {o.child} /\ records[Parent(k)] = {o.parent}
    BY <1>1, <2>3, <2>4 DEF Emit, IInv, IndexIsFaithful
  <2>6. /\ o.parent.service # o.child.service
        /\ {o.parent.service, o.child.service} \subseteq nodes'
    BY <1>1, <2>3, <2>4 DEF Emit, Crosses
  <2> QED
    BY <2>3, <2>4, <2>5, <2>6
<1>2. CASE phase # "done" /\ phase' # "done"
  <2>1. observations' = {}
    BY <1>2, NextInv DEF IInv, Phases
  <2> QED
    BY <2>1 DEF EvidenceIsSound
<1>3. CASE UNCHANGED vars
  <2>1. UNCHANGED <<records, indexed, nodes, observations>>
    BY <1>3 DEF vars, input, output
  <2> QED
    BY <2>1, SameRings DEF EvidenceIsSound, OnCycle, Parent
<1> QED
  BY <1>1, <1>2, <1>3, WalkPhase DEF Next, Step, Read, Index, StartWalk, Follow,
     OnTheWay, ReachRoot, CloseCycle, Leave, EndWalk

\* Every observation rests on uncontested spans that are not cyclic.
THEOREM SoundEvidence == Spec => []EvidenceIsSound
<1>1. Init => EvidenceIsSound
  BY DEF Init, EvidenceIsSound
<1> QED
  BY <1>1, EvidenceStep, InductiveInvariant, PTL DEF Spec

LEMMA DroppedStep ==
    IInv /\ NothingDroppedSilently /\ [Next]_vars => NothingDroppedSilently'
<1> SUFFICES ASSUME IInv, NothingDroppedSilently, [Next]_vars
             PROVE  NothingDroppedSilently'
  OBVIOUS
<1>1. CASE Emit
  <2>1. UNCHANGED <<records, indexed>> /\ diagnostics \subseteq diagnostics'
    BY <1>1 DEF Emit, input
  <2> SUFFICES ASSUME NEW k \in Keys, records[k] # {},
                      Diagnostic("conflicting_duplicate", k) \notin diagnostics',
                      HasParent(k),
                      \A o \in observations' : o.child # indexed[k],
                      ParentFound(k) =>
                          indexed[k].service # indexed[Parent(k)].service
               PROVE  k \in DOMAIN indexed /\ Explained(k)'
    <3>1. SUFFICES ASSUME NEW k \in Keys, records[k] # {},
                          Diagnostic("conflicting_duplicate", k) \notin diagnostics'
                   PROVE  /\ k \in DOMAIN indexed
                          /\ \/ ~HasParent(k)'
                             \/ \E o \in observations' : o.child = indexed[k]
                             \/ /\ ParentFound(k)'
                                /\ indexed[k].service = indexed[Parent(k)].service
                             \/ Explained(k)'
      BY <2>1, SameRings DEF NothingDroppedSilently, Diagnostic
    <3>2. HasParent(k)' <=> HasParent(k)
      BY <2>1 DEF HasParent
    <3>3. ParentFound(k)' <=> ParentFound(k)
      BY <2>1 DEF HasParent, ParentFound, Parent
    <3>4. k \in DOMAIN indexed
      BY <1>1, <2>1, <3>1 DEF Emit, IInv, IndexIsFaithful
    <3> QED
      BY <3>1, <3>2, <3>3, <3>4
  <2>2. k \in DOMAIN indexed
    BY <1>1, <2>1 DEF Emit, IInv, IndexIsFaithful
  <2>3. CASE ~ParentFound(k)
    <3>1. Diagnostic("missing_parent", k) \in diagnostics'
      BY <1>1, <2>2, <2>3 DEF Emit
    <3> QED
      BY <2>2, <3>1 DEF Explained
  <2>4. CASE ParentFound(k) /\ ~Supported(k)
    <3>1. \E j \in {k, Parent(k)} : Diagnostic("cyclic_parent", j) \in diagnostics'
      BY <1>1, <2>4 DEF Emit, Supported
    <3> QED
      BY <2>1, <2>2, <3>1 DEF Explained, Parent
  <2>5. CASE ParentFound(k) /\ Supported(k) /\ ~Crosses(k)
    <3>1. \E j \in {k, Parent(k)} : /\ j \in DOMAIN indexed
                                    /\ indexed[j].service = Blank
      BY <2>2, <2>5 DEF Crosses, ParentFound
    <3>2. \E j \in {k, Parent(k)} : Diagnostic("unknown_service", j) \in diagnostics'
      BY <1>1, <3>1 DEF Emit
    <3> QED
      BY <2>1, <2>2, <3>2 DEF Explained, Parent
  <2>6. CASE ParentFound(k) /\ Supported(k) /\ Crosses(k)
    <3>1. [parent |-> indexed[Parent(k)], child |-> indexed[k]] \in observations'
      BY <1>1, <2>2, <2>6 DEF Emit
    <3> QED
      BY <3>1
  <2> QED
    BY <2>3, <2>4, <2>5, <2>6
<1>2. CASE phase' # "done"
  BY <1>2 DEF NothingDroppedSilently
<1>3. CASE UNCHANGED vars
  BY <1>3 DEF vars, input, output, NothingDroppedSilently, HasParent,
     ParentFound, Parent, Explained
<1> QED
  BY <1>1, <1>2, <1>3, WalkPhase DEF Next, Step, Read, Index, StartWalk, Follow,
     OnTheWay, ReachRoot, CloseCycle, Leave, EndWalk

\* A relationship between services that is not observed is explained.
THEOREM NothingIsDroppedSilently == Spec => []NothingDroppedSilently
<1>1. Init => NothingDroppedSilently
  BY DEF Init, NothingDroppedSilently
<1> QED
  BY <1>1, DroppedStep, InductiveInvariant, PTL DEF Spec

-----------------------------------------------------------------------------
(* Order statistics and the nearest rank.                                  *)

LEMMA LeastNatural ==
    ASSUME NEW T \in SUBSET Nat, T # {}
    PROVE  \E x \in T : \A y \in T : x <= y
<1>1. PICK x \in T : \A y \in T : <<y, x>> \notin OpToRel(<, Nat)
  BY NatLessThanWellFounded, WFMin
<1>2. \A y \in T : ~(y < x)
  BY <1>1 DEF OpToRel
<1> QED
  BY <1>2

\* The rank is the ceiling of p percent of n.
LEMMA RankIsCeiling ==
    ASSUME NEW n \in Nat \ {0}, NEW p \in {50, 95}
    PROVE  /\ Rank(p, n) \in 1 .. n
           /\ 100 * Rank(p, n) >= p * n
           /\ 100 * (Rank(p, n) - 1) < p * n
<1>1. CASE p = 50
  BY <1>1 DEF Rank
<1>2. CASE p = 95
  BY <1>2 DEF Rank
<1> QED
  BY <1>1, <1>2

\* S stands for the samples of an edge from here on.
Samples(S) == IsFiniteSet(S) /\ \A o \in S : DurationOf(o) \in Nat

LEMMA SampleCounts ==
    ASSUME NEW S, Samples(S), NEW v
    PROVE  /\ Cardinality(S) \in Nat
           /\ IsFiniteSet(AtMost(S, v)) /\ IsFiniteSet(Below(S, v))
           /\ Cardinality(AtMost(S, v)) \in 0 .. Cardinality(S)
           /\ Cardinality(Below(S, v)) \in 0 .. Cardinality(S)
           /\ Samples(Below(S, v))
<1>1. AtMost(S, v) \in SUBSET S /\ Below(S, v) \in SUBSET S
  BY DEF AtMost, Below
<1>2. IsFiniteSet(S)
  BY DEF Samples
<1>3. /\ IsFiniteSet(AtMost(S, v)) /\ Cardinality(AtMost(S, v)) <= Cardinality(S)
      /\ IsFiniteSet(Below(S, v)) /\ Cardinality(Below(S, v)) <= Cardinality(S)
  BY <1>1, <1>2, FS_Subset
<1>4. /\ Cardinality(S) \in Nat
      /\ Cardinality(AtMost(S, v)) \in Nat /\ Cardinality(Below(S, v)) \in Nat
  BY <1>2, <1>3, FS_CardinalityType
<1>5. Samples(Below(S, v))
  BY <1>1, <1>3 DEF Samples
<1> QED
  BY <1>3, <1>4, <1>5

LEMMA LongestSample ==
    ASSUME NEW S, Samples(S), S # {}
    PROVE  \E o \in S : \A x \in S : DurationOf(x) <= DurationOf(o)
<1> DEFINE Above(o) == Cardinality(S) - Cardinality(AtMost(S, DurationOf(o)))
<1> DEFINE T == {Above(o) : o \in S}
<1>1. \A o \in S : Above(o) \in Nat
  <2> TAKE o \in S
  <2> QED
    BY SampleCounts
<1>2. T \in SUBSET Nat /\ T # {}
  BY <1>1
<1>3. PICK least \in T : \A m \in T : least <= m
  BY <1>2, LeastNatural
<1>4. PICK o \in S : \A x \in S : Above(o) <= Above(x)
  BY <1>3
<1>5. ASSUME NEW x \in S, ~(DurationOf(x) <= DurationOf(o))
      PROVE  FALSE
  <2> DEFINE A == AtMost(S, DurationOf(o))
             B == AtMost(S, DurationOf(x))
  <2>1. DurationOf(o) \in Nat /\ DurationOf(x) \in Nat
    BY DEF Samples
  <2>2. A \subseteq B /\ x \in B /\ x \notin A
    BY <1>5, <2>1 DEF AtMost, Samples
  <2>3. IsFiniteSet(B) /\ Cardinality(A) \in Nat /\ Cardinality(B) \in Nat
    BY SampleCounts
  <2>4. Cardinality(A) < Cardinality(B)
    <3>1. Cardinality(A) <= Cardinality(B) /\ (Cardinality(B) = Cardinality(A) => B = A)
      BY <2>2, <2>3, FS_Subset
    <3> QED
      BY <2>2, <2>3, <3>1
  <2>5. Cardinality(S) \in Nat
    BY SampleCounts
  <2>6. Above(o) <= Above(x)
    BY <1>4
  <2> QED
    BY <2>3, <2>4, <2>5, <2>6
<1> QED
  BY <1>5

\* The r-th of the sorted samples exists, so that Nth denotes it.
LEMMA NthExists ==
    ASSUME NEW S, Samples(S), NEW r \in 1 .. Cardinality(S)
    PROVE  /\ Nth(S, r) \in {DurationOf(o) : o \in S}
           /\ Cardinality(Below(S, Nth(S, r))) < r
           /\ r <= Cardinality(AtMost(S, Nth(S, r)))
<1> DEFINE V == {DurationOf(o) : o \in S}
           T == {v \in V : r <= Cardinality(AtMost(S, v))}
<1>1. V \in SUBSET Nat /\ r \in Nat
  BY SampleCounts DEF Samples
<1>2. T # {}
  <2>1. S # {}
    <3>1. Cardinality(S) \in Nat
      BY SampleCounts
    <3> QED
      BY <3>1, FS_EmptySet
  <2>2. PICK o \in S : \A x \in S : DurationOf(x) <= DurationOf(o)
    BY <2>1, LongestSample
  <2>3. AtMost(S, DurationOf(o)) = S
    BY <2>2 DEF AtMost
  <2>4. DurationOf(o) \in T
    BY <2>3, SampleCounts
  <2> QED
    BY <2>4
<1>3. PICK v \in T : \A u \in T : v <= u
  <2>1. T \in SUBSET Nat
    BY <1>1
  <2> QED
    BY <1>2, <2>1, LeastNatural
<1>4. Cardinality(Below(S, v)) < r
  <2>1. CASE Below(S, v) = {}
    <3>1. Cardinality(Below(S, v)) = 0
      BY <2>1, FS_EmptySet
    <3> QED
      BY <3>1, <1>1
  <2>2. CASE Below(S, v) # {}
    <3>1. PICK o \in Below(S, v) :
             \A x \in Below(S, v) : DurationOf(x) <= DurationOf(o)
      BY <2>2, SampleCounts, LongestSample
    <3>2. o \in S /\ DurationOf(o) < v /\ DurationOf(o) \in V
      BY <3>1 DEF Below
    <3>3. Below(S, v) = AtMost(S, DurationOf(o))
      <4>1. \A x \in S : DurationOf(x) <= DurationOf(o) => DurationOf(x) < v
        BY <1>1, <1>3, <3>2 DEF Samples
      <4> QED
        BY <3>1, <4>1 DEF Below, AtMost
    <3>4. DurationOf(o) \notin T
      BY <1>1, <1>3, <3>2
    <3>5. ~(r <= Cardinality(AtMost(S, DurationOf(o))))
      BY <3>2, <3>4
    <3>6. Cardinality(AtMost(S, DurationOf(o))) \in Nat
      BY SampleCounts
    <3> QED
      BY <1>1, <3>3, <3>5, <3>6
  <2> QED
    BY <2>1, <2>2
<1>5. v \in V /\ r <= Cardinality(AtMost(S, v))
  BY <1>3
<1> QED
  BY <1>4, <1>5 DEF Nth

\* The percentiles meet the nearest-rank definition for any number of samples.
LEMMA PercentileIsNearestRank ==
    ASSUME NEW S, Samples(S), S # {}, NEW p \in {50, 95}
    PROVE  NearestRank(p, S, Percentile(p, S))
<1> DEFINE n == Cardinality(S)
           r == Rank(p, n)
           v == Nth(S, r)
<1>1. n \in Nat \ {0}
  BY SampleCounts, FS_EmptySet DEF Samples
<1>2. /\ r \in 1 .. n
      /\ 100 * r >= p * n
      /\ 100 * (r - 1) < p * n
  BY <1>1, RankIsCeiling
<1>3. Percentile(p, S) = v
  BY DEF Percentile
<1>4. /\ v \in {DurationOf(o) : o \in S}
      /\ Cardinality(Below(S, v)) < r
      /\ r <= Cardinality(AtMost(S, v))
  BY <1>2, NthExists
<1> HIDE DEF n, r, v
<1>5. 100 * Cardinality(AtMost(S, v)) >= p * n
  <2>1. Cardinality(AtMost(S, v)) \in Nat /\ p * n \in Nat
    BY <1>1, SampleCounts
  <2> QED
    BY <1>2, <1>4, <2>1
<1>6. ASSUME NEW u \in {DurationOf(o) : o \in S}, u < v
      PROVE  100 * Cardinality(AtMost(S, u)) < p * n
  <2>1. AtMost(S, u) \in SUBSET Below(S, v)
    <3>1. u \in Nat /\ v \in Nat
      BY <1>4 DEF Samples
    <3> QED
      BY <1>6, <3>1 DEF AtMost, Below, Samples
  <2>2. /\ IsFiniteSet(Below(S, v))
        /\ Cardinality(Below(S, v)) \in Nat
        /\ Cardinality(AtMost(S, u)) \in Nat
    BY SampleCounts
  <2>3. Cardinality(AtMost(S, u)) <= Cardinality(Below(S, v))
    BY <2>1, <2>2, FS_Subset
  <2>4. Cardinality(AtMost(S, u)) <= r - 1
    BY <1>1, <1>2, <1>4, <2>2, <2>3
  <2>5. p * n \in Nat
    BY <1>1
  <2> QED
    BY <1>1, <1>2, <2>2, <2>4, <2>5
<1> QED
  BY <1>3, <1>4, <1>5, <1>6 DEF NearestRank, n

-----------------------------------------------------------------------------
(* The reports go by the observations, which stay what they are.           *)

LEMMA SameEvidence ==
    ASSUME observations' = observations, NEW w
    PROVE  /\ Observed(w)' = Observed(w)
           /\ \A e : Group(w, e)' = Group(w, e)
           /\ \A e : EdgeEvidence(w, e)' = EdgeEvidence(w, e)
<1>1. Classifiable' = Classifiable
  BY DEF Classifiable
<1>2. Observed(w)' = Observed(w)
  BY <1>1 DEF Observed
<1>3. \A e : Group(w, e)' = Group(w, e)
  BY <1>1 DEF Group
<1>4. ASSUME NEW e PROVE EdgeEvidence(w, e)' = EdgeEvidence(w, e)
  BY <1>3 DEF EdgeEvidence
<1> QED
  BY <1>2, <1>3, <1>4

LEMMA SameAnswer ==
    ASSUME UNCHANGED vars, NEW w
    PROVE  Answer(w)' = Answer(w)
<1>1. observations' = observations /\ diagnostics' = diagnostics
  BY DEF vars, output
<1>2. /\ Observed(w)' = Observed(w)
      /\ \A e : Group(w, e)' = Group(w, e)
      /\ \A e : EdgeEvidence(w, e)' = EdgeEvidence(w, e)
  BY <1>1, SameEvidence
<1>3. Classifiable' = Classifiable
  BY <1>1 DEF Classifiable
<1>4. WindowDiagnostics(w)' = WindowDiagnostics(w)
  BY <1>1, <1>2, <1>3 DEF WindowDiagnostics
<1>5. Unaverageable(w)' <=> Unaverageable(w)
  BY <1>2 DEF Unaverageable
<1>6. Summary(w)' = Summary(w)
  BY <1>1, <1>2, <1>4 DEF Summary
<1> QED
  BY <1>5, <1>6 DEF Answer

\* Nothing happens to a batch that was analysed.
LEMMA DoneIsFinal ==
    ASSUME IInv, phase = "done", [Next]_vars
    PROVE  UNCHANGED vars
BY DEF IInv, Phases, Next, Step, Read, Index, StartWalk, Follow, ReachRoot,
   CloseCycle, Leave, OnTheWay, Emit

ReportsAreAnswers ==
    /\ DOMAIN reports # {} => phase = "done"
    /\ \A w \in DOMAIN reports : w \in Windows /\ reports[w] = Answer(w)

EvidenceInv == IInv /\ IsFiniteSet(observations) /\ ReportsAreAnswers

LEMMA FiniteStep ==
    ASSUME IInv, IsFiniteSet(observations), [Next]_vars
    PROVE  IsFiniteSet(observations')
<1>1. CASE Emit
  <2> DEFINE D == {k \in DOMAIN indexed :
                      ParentFound(k) /\ Supported(k) /\ Crosses(k)}
             f == [k \in D |-> [parent |-> indexed[Parent(k)],
                                child |-> indexed[k]]]
  <2>1. IsFiniteSet(D)
    BY IndexFinite DEF IInv
  <2>2. f \in Surjection(D, observations')
    BY <1>1 DEF Emit, Surjection
  <2> QED
    BY <2>1, <2>2, FS_Surjection
<1>2. CASE ~Emit
  <2>1. observations' = observations
    BY <1>2 DEF Next, Step, Read, Index, StartWalk, Follow, ReachRoot,
       CloseCycle, Leave, EndWalk, vars, output
  <2> QED
    BY <2>1
<1> QED
  BY <1>1, <1>2

LEMMA EvidenceInvInit == EvidenceInit => EvidenceInv
<1> SUFFICES ASSUME EvidenceInit PROVE EvidenceInv
  OBVIOUS
<1>1. IInv
  BY InitInv DEF EvidenceInit
<1>2. IsFiniteSet(observations)
  BY FS_EmptySet DEF EvidenceInit, Init
<1>3. ReportsAreAnswers
  BY DEF EvidenceInit, ReportsAreAnswers
<1> QED
  BY <1>1, <1>2, <1>3 DEF EvidenceInv

LEMMA EvidenceInvNext ==
    EvidenceInv /\ [EvidenceNext]_evidenceVars => EvidenceInv'
<1> SUFFICES ASSUME EvidenceInv, [EvidenceNext]_evidenceVars
             PROVE  EvidenceInv'
  OBVIOUS
<1>1. [Next]_vars
  BY DEF EvidenceNext, Summarize, evidenceVars
<1>2. IInv'
  BY <1>1, NextInv DEF EvidenceInv
<1>3. IsFiniteSet(observations)'
  BY <1>1, FiniteStep DEF EvidenceInv
<1>4. CASE phase = "done"
  <2>1. UNCHANGED vars
    BY <1>1, <1>4, DoneIsFinal DEF EvidenceInv
  <2>2. \A w : Answer(w)' = Answer(w)
    BY <2>1, SameAnswer
  <2>3. phase' = "done"
    BY <1>4, <2>1 DEF vars
  <2>4. ASSUME NEW w \in DOMAIN reports'
        PROVE  w \in Windows /\ reports'[w] = Answer(w)
    <3>1. CASE UNCHANGED reports
      BY <3>1, <2>4 DEF EvidenceInv, ReportsAreAnswers
    <3>2. CASE \E v \in Windows : Summarize(v)
      BY <3>2, <2>4 DEF EvidenceInv, ReportsAreAnswers, Summarize
    <3> QED
      BY <3>1, <3>2 DEF EvidenceNext, evidenceVars
  <2>5. ReportsAreAnswers'
    BY <2>2, <2>3, <2>4 DEF ReportsAreAnswers
  <2> QED
    BY <1>2, <1>3, <2>5 DEF EvidenceInv
<1>5. CASE phase # "done"
  <2>1. UNCHANGED reports /\ DOMAIN reports = {}
    BY <1>5 DEF EvidenceInv, ReportsAreAnswers, EvidenceNext, Summarize,
       evidenceVars
  <2>2. ReportsAreAnswers'
    BY <2>1 DEF ReportsAreAnswers
  <2> QED
    BY <1>2, <1>3, <2>2 DEF EvidenceInv
<1> QED
  BY <1>4, <1>5

\* Every report is what its window answers, for a batch that is final.
LEMMA EvidenceInvariant == EvidenceSpec => []EvidenceInv
<1> QED
  BY EvidenceInvInit, EvidenceInvNext, PTL DEF EvidenceSpec

LEMMA SummarizedAnswer ==
    ASSUME EvidenceInv, NEW w \in Summarized
    PROVE  /\ w \in Windows /\ w[1] \in Int /\ w[2] \in Int /\ w[1] < w[2]
           /\ reports[w].edges = {EdgeEvidence(w, e) : e \in Observed(w)}
<1>1. w \in Windows /\ reports[w] = Answer(w) /\ reports[w].status = "summary"
  BY DEF EvidenceInv, ReportsAreAnswers, Summarized
<1>2. w[1] \in Int /\ w[2] \in Int
  BY <1>1, TimesAssumption
<1>3. \A x \in {"invalid_window", "overflow"} : Refusal(x).status # "summary"
  BY DEF Refusal
<1>4. reports[w] = Summary(w) /\ w[1] < w[2]
  BY <1>1, <1>2, <1>3 DEF Answer
<1>5. Summary(w).edges = {EdgeEvidence(w, e) : e \in Observed(w)}
  BY DEF Summary
<1> QED
  BY <1>1, <1>2, <1>4, <1>5

-----------------------------------------------------------------------------
(* What the reports say.                                                   *)

LEMMA ProvenanceIsGroup ==
    ASSUME EvidenceInv, NEW w \in Summarized, NEW e
    PROVE  Provenance(w, e) = Group(w, e)
<1>1. reports[w].edges = {EdgeEvidence(w, f) : f \in Observed(w)}
  BY SummarizedAnswer
<1>2. \A f \in Observed(w) :
         /\ f = <<EdgeEvidence(w, f).source, EdgeEvidence(w, f).target>>
         /\ EdgeEvidence(w, f).provenance = Group(w, f)
  BY DEF Observed, EdgeOf, EdgeEvidence
<1>3. CASE e \in Observed(w)
  <2>1. {x \in reports[w].edges : <<x.source, x.target>> = e}
            = {EdgeEvidence(w, e)}
    BY <1>1, <1>2, <1>3
  <2> QED
    BY <1>2, <1>3, <2>1 DEF Provenance
<1>4. CASE e \notin Observed(w)
  <2>1. {x \in reports[w].edges : <<x.source, x.target>> = e} = {}
    BY <1>1, <1>2, <1>4
  <2>2. Group(w, e) = {}
    BY <1>4 DEF Observed, Group
  <2> QED
    BY <2>1, <2>2 DEF Provenance
<1> QED
  BY <1>3, <1>4

LEMMA WindowsKnown == EvidenceInv => WindowsAddUp
<1> SUFFICES ASSUME EvidenceInv,
                    NEW v \in Summarized, NEW w \in Summarized,
                    NEW u \in Summarized,
                    v[2] = w[1], u = <<v[1], w[2]>>,
                    NEW e \in Services \X Services
             PROVE  /\ Provenance(v, e) \cap Provenance(w, e) = {}
                    /\ Provenance(u, e) = Provenance(v, e) \cup Provenance(w, e)
  BY DEF WindowsAddUp
<1>1. /\ Provenance(v, e) = Group(v, e)
      /\ Provenance(w, e) = Group(w, e)
      /\ Provenance(u, e) = Group(u, e)
  BY ProvenanceIsGroup
<1>2. /\ v[1] \in Int /\ v[2] \in Int /\ w[2] \in Int
      /\ v[1] < v[2] /\ v[2] < w[2]
  BY SummarizedAnswer
<1>3. ASSUME NEW t \in Nat
      PROVE  /\ ~(Contains(v, t) /\ Contains(w, t))
             /\ Contains(u, t) <=> Contains(v, t) \/ Contains(w, t)
  BY <1>2 DEF Contains
<1>4. \A o \in Classifiable : TimeOf(o) \in Nat
  BY DEF Classifiable, ValidTime
<1> QED
  BY <1>1, <1>3, <1>4 DEF Group

\* Adjacent windows share nothing and lose nothing, for any batch.
THEOREM AdjacentWindowsAddUp == EvidenceSpec => []WindowsAddUp
<1> QED
  BY WindowsKnown, EvidenceInvariant, PTL

LEMMA PercentilesKnown == EvidenceInv => PercentilesAreNearestRank
<1> SUFFICES ASSUME EvidenceInv, NEW w \in Summarized,
                    NEW e \in reports[w].edges,
                    {o \in e.provenance : Measured(o)} # {}
             PROVE  /\ NearestRank(50, {o \in e.provenance : Measured(o)},
                                   e.latency.p50)
                    /\ NearestRank(95, {o \in e.provenance : Measured(o)},
                                   e.latency.p95)
  BY DEF PercentilesAreNearestRank
<1>1. PICK f \in Observed(w) : e = EdgeEvidence(w, f)
  BY SummarizedAnswer
<1> DEFINE S == {o \in Group(w, f) : Measured(o)}
<1>2. /\ e.provenance = Group(w, f)
      /\ e.latency.p50 = Percentile(50, S)
      /\ e.latency.p95 = Percentile(95, S)
  BY <1>1 DEF EdgeEvidence
<1>3. Samples(S)
  <2>1. IsFiniteSet(S)
    <3>1. S \in SUBSET observations
      BY DEF Group, Classifiable
    <3> QED
      BY <3>1, FS_Subset DEF EvidenceInv
  <2>2. \A o \in S : DurationOf(o) \in Nat
    BY DEF Measured, ValidTime
  <2> QED
    BY <2>1, <2>2 DEF Samples
<1>4. NearestRank(50, S, Percentile(50, S)) /\ NearestRank(95, S, Percentile(95, S))
  BY <1>2, <1>3, PercentileIsNearestRank
<1> QED
  BY <1>2, <1>4

\* The percentiles of every report are exact, whatever the samples.
THEOREM PercentilesAreExact == EvidenceSpec => []PercentilesAreNearestRank
<1> QED
  BY PercentilesKnown, EvidenceInvariant, PTL

-----------------------------------------------------------------------------
(* What the diagnostics say: which of them are a window's, and which span  *)
(* each is about.                                                          *)

WindowCodes == {"unclassifiable_observation_time",
                "inapplicable_edge_latency", "unavailable_caller_duration"}

\* Neither a source nor the extractor uses the codes of a summary.
CodesAreApart == \A d \in diagnostics : d.code \notin WindowCodes

Keyed == \A k \in Keys : \A s \in records[k] : KeyOf(s) = k

\* An observation is determined by the key of its child, and a caller by its own.
PairsKnown ==
    \A o \in observations :
        LET k == KeyOf(o.child) IN
        /\ k \in DOMAIN indexed
        /\ o = [parent |-> indexed[Parent(k)], child |-> indexed[k]]
        /\ KeyOf(o.parent) = Parent(k)

LabelsInv == CodesAreApart /\ Keyed /\ PairsKnown

LEMMA CodesStep ==
    ASSUME CodesAreApart, [Next]_vars
    PROVE  CodesAreApart'
<1>1. ASSUME NEW t, NEW s, Read(t, s) PROVE CodesAreApart'
  BY <1>1 DEF CodesAreApart, Read, Diagnostic, WindowCodes
<1>2. CASE Index
  BY <1>2 DEF CodesAreApart, Index, Diagnostic, WindowCodes
<1>3. CASE Emit
  BY <1>3 DEF CodesAreApart, Emit, Diagnostic, WindowCodes
<1>4. CASE UNCHANGED diagnostics
  BY <1>4 DEF CodesAreApart
<1> QED
  BY <1>1, <1>2, <1>3, <1>4 DEF Next, Step, StartWalk, Follow, ReachRoot,
     CloseCycle, Leave, EndWalk, vars

LEMMA KeyedStep ==
    ASSUME IInv, Keyed, [Next]_vars
    PROVE  Keyed'
<1>1. ASSUME NEW t \in TraceIds \cup {Blank}, NEW s \in Spans, Read(t, s)
      PROVE  Keyed'
  <2>1. records \in [Keys -> SUBSET Spans]
    BY DEF IInv, TypeOK
  <2>2. CASE UNCHANGED records
    BY <2>2 DEF Keyed
  <2>3. CASE ~(UNCHANGED records)
    <3>1. /\ s.trace = t
          /\ records' = [records EXCEPT ![<<t, s.id>>] = @ \cup {s}]
      BY <1>1, <2>3 DEF Read
    <3>2. KeyOf(s) = <<t, s.id>>
      BY <3>1 DEF KeyOf
    <3> QED
      BY <2>1, <3>1, <3>2 DEF Keyed
  <2> QED
    BY <2>2, <2>3
<1>2. CASE UNCHANGED records
  BY <1>2 DEF Keyed
<1> QED
  BY <1>1, <1>2 DEF Next, Step, Index, StartWalk, Follow, ReachRoot,
     CloseCycle, Leave, EndWalk, Emit, vars, input

LEMMA PairsStep ==
    ASSUME IInv, IInv', Keyed, PairsKnown, [Next]_vars
    PROVE  PairsKnown'
<1>1. CASE Emit
  <2>1. phase # "reading" /\ UNCHANGED indexed
    BY <1>1 DEF Emit
  <2>2. \A j \in DOMAIN indexed : KeyOf(indexed[j]) = j
    BY <2>1 DEF IInv, TypeOK, IndexIsFaithful, Keyed
  <2>3. SUFFICES ASSUME NEW o \in observations'
                 PROVE  /\ KeyOf(o.child) \in DOMAIN indexed
                        /\ o = [parent |-> indexed[Parent(KeyOf(o.child))],
                                child |-> indexed[KeyOf(o.child)]]
                        /\ KeyOf(o.parent) = Parent(KeyOf(o.child))
    BY <2>1 DEF PairsKnown, Parent
  <2>4. PICK k \in DOMAIN indexed :
                /\ o = [parent |-> indexed[Parent(k)], child |-> indexed[k]]
                /\ ParentFound(k)
    BY <1>1, <2>3 DEF Emit
  <2>5. KeyOf(o.child) = k /\ Parent(k) \in DOMAIN indexed
    BY <2>2, <2>4 DEF ParentFound
  <2> QED
    BY <2>2, <2>4, <2>5
<1>2. CASE phase # "done" /\ phase' # "done"
  <2>1. observations' = {}
    BY <1>2 DEF IInv, Phases
  <2> QED
    BY <2>1 DEF PairsKnown
<1>3. CASE UNCHANGED vars
  <2>1. UNCHANGED <<indexed, observations>>
    BY <1>3 DEF vars, output
  <2> QED
    BY <2>1 DEF PairsKnown, Parent
<1> QED
  BY <1>1, <1>2, <1>3, WalkPhase DEF Next, Step, Read, Index, StartWalk, Follow,
     OnTheWay, ReachRoot, CloseCycle, Leave, EndWalk

LEMMA LabelsInvariant == EvidenceSpec => []LabelsInv
<1>1. EvidenceInit => LabelsInv
  <2> SUFFICES ASSUME EvidenceInit PROVE LabelsInv
    OBVIOUS
  <2>1. CodesAreApart
    BY SourceCodesAssumption DEF EvidenceInit, Init, CodesAreApart, WindowCodes
  <2>2. Keyed /\ PairsKnown
    BY DEF EvidenceInit, Init, Keyed, PairsKnown
  <2> QED
    BY <2>1, <2>2 DEF LabelsInv
<1>2. EvidenceInv /\ LabelsInv /\ [EvidenceNext]_evidenceVars => LabelsInv'
  <2> SUFFICES ASSUME EvidenceInv, LabelsInv, [EvidenceNext]_evidenceVars
               PROVE  LabelsInv'
    OBVIOUS
  <2>1. [Next]_vars
    BY DEF EvidenceNext, Summarize, evidenceVars
  <2>2. IInv /\ IInv'
    BY <2>1, NextInv DEF EvidenceInv
  <2> QED
    BY <2>1, <2>2, CodesStep, KeyedStep, PairsStep DEF LabelsInv
<1> QED
  BY <1>1, <1>2, EvidenceInvariant, PTL DEF EvidenceSpec

LEMMA SameChild ==
    ASSUME PairsKnown, NEW o \in observations, NEW p \in observations
    PROVE  /\ KeyOf(o.child) = KeyOf(p.child) => o = p
           /\ KeyOf(o.parent) = KeyOf(p.parent) => o.parent = p.parent
<1>1. /\ o = [parent |-> indexed[Parent(KeyOf(o.child))],
              child |-> indexed[KeyOf(o.child)]]
      /\ KeyOf(o.parent) = Parent(KeyOf(o.child))
  BY DEF PairsKnown
<1>2. /\ p = [parent |-> indexed[Parent(KeyOf(p.child))],
              child |-> indexed[KeyOf(p.child)]]
      /\ KeyOf(p.parent) = Parent(KeyOf(p.child))
  BY DEF PairsKnown
<1>3. o.parent = indexed[KeyOf(o.parent)]
  BY <1>1
<1>4. p.parent = indexed[KeyOf(p.parent)]
  BY <1>2
<1> QED
  BY <1>1, <1>2, <1>3, <1>4

LEMMA SummarizedDiagnostics ==
    ASSUME EvidenceInv, NEW w \in Summarized
    PROVE  reports[w].diagnostics = diagnostics \cup WindowDiagnostics(w)
<1>1. reports[w] = Answer(w) /\ reports[w].status = "summary"
  BY DEF EvidenceInv, ReportsAreAnswers, Summarized
<1>2. \A x \in {"invalid_window", "overflow"} : Refusal(x).status # "summary"
  BY DEF Refusal
<1>3. reports[w] = Summary(w)
  BY <1>1, <1>2 DEF Answer
<1> QED
  BY <1>3 DEF Summary

\* Which span a diagnostic of a summary is about.
LEMMA Labelled ==
    ASSUME EvidenceInv, LabelsInv, NEW w \in Summarized, NEW s
    PROVE  /\ Diagnostic("unclassifiable_observation_time", KeyOf(s))
                  \in reports[w].diagnostics
              <=> \E o \in observations \ Classifiable : KeyOf(o.child) = KeyOf(s)
           /\ Diagnostic("inapplicable_edge_latency", KeyOf(s))
                  \in reports[w].diagnostics
              <=> \E e \in Observed(w) : \E o \in Group(w, e) :
                     ~Applicable(o) /\ KeyOf(o.child) = KeyOf(s)
           /\ Diagnostic("unavailable_caller_duration", KeyOf(s))
                  \in reports[w].diagnostics
              <=> \E e \in Observed(w) : \E o \in Group(w, e) :
                     /\ Applicable(o) /\ ~ValidTime(DurationOf(o))
                     /\ KeyOf(o.parent) = KeyOf(s)
<1> DEFINE G == UNION {Group(w, e) : e \in Observed(w)}
           U == {Diagnostic("unclassifiable_observation_time", KeyOf(o.child)) :
                    o \in observations \ Classifiable}
           I == {Diagnostic("inapplicable_edge_latency", KeyOf(o.child)) :
                    o \in {g \in G : ~Applicable(g)}}
           L == {Diagnostic("unavailable_caller_duration", KeyOf(o.parent)) :
                    o \in {g \in G : Applicable(g) /\ ~ValidTime(DurationOf(g))}}
<1>1. reports[w].diagnostics = diagnostics \cup U \cup I \cup L
  BY SummarizedDiagnostics DEF WindowDiagnostics
<1>2. \A r, t : KeyOf(r) = KeyOf(t) <=> r.trace = t.trace /\ r.id = t.id
  BY DEF KeyOf
<1>3. \A c, r, d, t :
         Diagnostic(c, KeyOf(r)) = Diagnostic(d, KeyOf(t))
            <=> c = d /\ KeyOf(r) = KeyOf(t)
  <2> TAKE c, r, d, t
  <2>1. Diagnostic(c, KeyOf(r)) = [code |-> c, trace |-> r.trace, span |-> r.id]
    BY DEF Diagnostic, KeyOf
  <2>2. Diagnostic(d, KeyOf(t)) = [code |-> d, trace |-> t.trace, span |-> t.id]
    BY DEF Diagnostic, KeyOf
  <2> QED
    BY <1>2, <2>1, <2>2
<1>4. \A c \in WindowCodes : \A k : Diagnostic(c, k) \notin diagnostics
  BY DEF LabelsInv, CodesAreApart, Diagnostic
<1> HIDE DEF G
<1>5. ASSUME NEW d \in U PROVE d.code = "unclassifiable_observation_time"
  BY DEF Diagnostic
<1>6. ASSUME NEW d \in I PROVE d.code = "inapplicable_edge_latency"
  BY DEF Diagnostic
<1>7. ASSUME NEW d \in L PROVE d.code = "unavailable_caller_duration"
  BY DEF Diagnostic
<1>8. \A c : Diagnostic(c, KeyOf(s)).code = c
  BY DEF Diagnostic
<1>9. /\ Diagnostic("unclassifiable_observation_time", KeyOf(s)) \in U
         <=> \E o \in observations \ Classifiable : KeyOf(o.child) = KeyOf(s)
      /\ Diagnostic("inapplicable_edge_latency", KeyOf(s)) \in I
         <=> \E o \in G : ~Applicable(o) /\ KeyOf(o.child) = KeyOf(s)
      /\ Diagnostic("unavailable_caller_duration", KeyOf(s)) \in L
         <=> \E o \in G : /\ Applicable(o) /\ ~ValidTime(DurationOf(o))
                          /\ KeyOf(o.parent) = KeyOf(s)
  BY <1>3
<1> HIDE DEF U, I, L
<1>10. \A o : o \in G <=> \E e \in Observed(w) : o \in Group(w, e)
  BY DEF G
<1>11. /\ Diagnostic("unclassifiable_observation_time", KeyOf(s))
             \notin diagnostics \cup I \cup L
       /\ Diagnostic("inapplicable_edge_latency", KeyOf(s))
             \notin diagnostics \cup U \cup L
       /\ Diagnostic("unavailable_caller_duration", KeyOf(s))
             \notin diagnostics \cup U \cup I
  BY <1>4, <1>5, <1>6, <1>7, <1>8 DEF WindowCodes
<1> DEFINE u == Diagnostic("unclassifiable_observation_time", KeyOf(s))
           i == Diagnostic("inapplicable_edge_latency", KeyOf(s))
           l == Diagnostic("unavailable_caller_duration", KeyOf(s))
<1>12. /\ u \in reports[w].diagnostics <=> u \in U
       /\ i \in reports[w].diagnostics <=> i \in I
       /\ l \in reports[w].diagnostics <=> l \in L
  <2> HIDE DEF u, i, l
  <2>1. /\ u \notin diagnostics \cup I \cup L
        /\ i \notin diagnostics \cup U \cup L
        /\ l \notin diagnostics \cup U \cup I
    BY <1>11 DEF u, i, l
  <2> QED
    BY <1>1, <2>1
<1> QED
  BY <1>9, <1>10, <1>12

LEMMA GraphAgreed == EvidenceInv /\ LabelsInv => AgreesWithGraph
<1> SUFFICES ASSUME EvidenceInv, LabelsInv,
                    NEW w \in Summarized, NEW o \in observations
             PROVE  /\ o \in Provenance(w, <<o.parent.service, o.child.service>>)
                       <=> /\ o.child.rest.start \in Nat
                           /\ w[1] <= o.child.rest.start
                           /\ o.child.rest.start < w[2]
                    /\ Diagnostic("unclassifiable_observation_time",
                          <<o.child.trace, o.child.id>>) \in reports[w].diagnostics
                       <=> o.child.rest.start \notin Nat
  BY DEF AgreesWithGraph
<1>1. Provenance(w, EdgeOf(o)) = Group(w, EdgeOf(o))
  BY ProvenanceIsGroup
<1>2. o \in Group(w, EdgeOf(o))
         <=> TimeOf(o) \in Nat /\ w[1] <= TimeOf(o) /\ TimeOf(o) < w[2]
  BY DEF Group, Classifiable, ValidTime, Contains
<1>3. Diagnostic("unclassifiable_observation_time", KeyOf(o.child))
            \in reports[w].diagnostics
         <=> \E p \in observations \ Classifiable : KeyOf(p.child) = KeyOf(o.child)
  BY Labelled
<1>4. \A p \in observations : KeyOf(p.child) = KeyOf(o.child) => p = o
  BY SameChild DEF LabelsInv
<1>5. o \in observations \ Classifiable <=> TimeOf(o) \notin Nat
  BY DEF Classifiable, ValidTime
<1> QED
  BY <1>1, <1>2, <1>3, <1>4, <1>5 DEF EdgeOf, TimeOf, KeyOf

\* What a summary counts is what the graph counts in the window, and what it
\* leaves out for its time is reported, for any batch.
THEOREM SummariesAgreeWithGraph == EvidenceSpec => []AgreesWithGraph
<1> QED
  BY GraphAgreed, EvidenceInvariant, LabelsInvariant, PTL

LEMMA LatencyKnown == EvidenceInv /\ LabelsInv => LatencyIsAccounted
<1> SUFFICES ASSUME EvidenceInv, LabelsInv,
                    NEW w \in Summarized, NEW e \in reports[w].edges
             PROVE  /\ e.count = Cardinality(e.provenance)
                    /\ e.count = e.latency.count
                          + Cardinality({o \in e.provenance : LatencyExplained(w, o)})
  BY DEF LatencyIsAccounted
<1>1. PICK f \in Observed(w) : e = EdgeEvidence(w, f)
  BY SummarizedAnswer
<1> DEFINE G == Group(w, f)
           S == {o \in G : Measured(o)}
           X == {o \in G : LatencyExplained(w, o)}
<1>2. /\ e.provenance = G
      /\ e.count = Cardinality(G)
      /\ e.latency.count = Cardinality(S)
  BY <1>1 DEF EdgeEvidence
<1>3. G \in SUBSET observations /\ IsFiniteSet(G)
  <2>1. G \in SUBSET observations
    BY DEF Group, Classifiable
  <2> QED
    BY <2>1, FS_Subset DEF EvidenceInv
<1>4. ASSUME NEW o \in G
      PROVE  LatencyExplained(w, o) <=> ~Measured(o)
  <2>1. o \in observations
    BY <1>3
  <2>2. LatencyExplained(w, o)
          <=> \/ \E d \in Observed(w) : \E p \in Group(w, d) :
                    ~Applicable(p) /\ KeyOf(p.child) = KeyOf(o.child)
              \/ \E d \in Observed(w) : \E p \in Group(w, d) :
                    /\ Applicable(p) /\ ~ValidTime(DurationOf(p))
                    /\ KeyOf(p.parent) = KeyOf(o.parent)
    BY Labelled DEF LatencyExplained, KeyOf
  <2>3. \A d : \A p \in Group(w, d) : p \in observations
    BY DEF Group, Classifiable
  <2>4. \A p \in observations :
           /\ KeyOf(p.child) = KeyOf(o.child) => p = o
           /\ KeyOf(p.parent) = KeyOf(o.parent) => p.parent = o.parent
    BY <2>1, SameChild DEF LabelsInv
  <2>5. ASSUME LatencyExplained(w, o) PROVE ~Measured(o)
    BY <2>2, <2>3, <2>4, <2>5 DEF Measured, DurationOf
  <2>6. ASSUME ~Measured(o) PROVE LatencyExplained(w, o)
    BY <2>2, <2>6 DEF Measured
  <2> QED
    BY <2>5, <2>6
<1>5. X = G \ S
  BY <1>4
<1>6. Cardinality(G) = Cardinality(S) + Cardinality(X)
  <2>1. /\ IsFiniteSet(S) /\ IsFiniteSet(X)
        /\ Cardinality(S) \in Nat /\ Cardinality(X) \in Nat
    BY <1>3, FS_Subset, FS_CardinalityType
  <2>2. /\ G = S \cup X /\ S \cap X = {}
    BY <1>5
  <2> HIDE DEF G, S, X
  <2>3. Cardinality(S \cup X)
          = Cardinality(S) + Cardinality(X) - Cardinality(S \cap X)
    BY <2>1, FS_Union
  <2>4. Cardinality(S \cap X) = 0
    BY <2>2, FS_EmptySet
  <2> QED
    BY <2>1, <2>2, <2>3, <2>4
<1> QED
  BY <1>2, <1>6

\* Every observation of a summary is a latency sample or explained, never both,
\* for any batch.
THEOREM LatencyAccounted == EvidenceSpec => []LatencyIsAccounted
<1> QED
  BY LatencyKnown, EvidenceInvariant, LabelsInvariant, PTL
=============================================================================
