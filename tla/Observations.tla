---------------------------- MODULE Observations ----------------------------
(***************************************************************************)
(* The evidence extractor of the analyzer: extract_observations in         *)
(* analysis/src/aegis_analysis/observations.py, and the dependency graph   *)
(* that graph.py counts from it.                                           *)
(*                                                                         *)
(* Trace fragments are merged by (trace id, span id), identities with      *)
(* contradicting copies are put aside, parent links are followed to find   *)
(* the cycles, and what remains is paired into caller/callee observations. *)
(* Python walks the spans in the order in which they arrived; the model    *)
(* takes them in any order, since no result may depend on it.              *)
(***************************************************************************)
EXTENDS Integers, FiniteSets

CONSTANTS
    TraceIds, SpanIds,  \* identities that a span can have
    Services,           \* names of services
    Spans,              \* the spans a source can deliver
    SourceDiagnostics,  \* the diagnostics a source can deliver
    MaxSpans,           \* the most spans in a batch
    Blank,              \* an empty identity, no service or a blank name
    None                \* no parent, no walk in progress

\* The field rest stands for all that is not named: kind, timing, attributes.
ASSUME SpansAssumption ==
    \A s \in Spans :
        /\ s.trace \in TraceIds \cup {Blank}
        /\ s.id \in SpanIds \cup {Blank}
        /\ s.parent \in SpanIds \cup {None}
        /\ s.service \in Services \cup {Blank}
ASSUME MaxSpansAssumption == MaxSpans \in Nat
ASSUME IdsAssumption ==
    /\ IsFiniteSet(TraceIds)
    /\ IsFiniteSet(SpanIds)
    /\ Blank \notin TraceIds \cup SpanIds \cup Services
    /\ None \notin SpanIds \cup (TraceIds \X SpanIds)

Keys == TraceIds \X SpanIds

VARIABLES
    phase,          \* "reading", "walking" or "done"
    count,          \* the spans read so far
    records,        \* records[k]: the copies of span k that differ
    diagnostics,
    indexed,        \* the span of every uncontested key
    todo,           \* the keys from which no walk has started yet
    cursor,         \* where the walk in progress is, or None
    path,           \* the keys of this walk, with their positions
    visited,        \* the keys of the walks before
    cyclic,         \* the keys found to be on a cycle
    nodes, observations

input == <<count, records>>
walk == <<todo, cursor, path, visited, cyclic>>
output == <<nodes, observations>>
vars == <<phase, input, diagnostics, indexed, walk, output>>

Diagnostic(code, k) == [code |-> code, trace |-> k[1], span |-> k[2]]

TypeOK ==
    /\ phase \in {"reading", "walking", "done"}
    /\ count \in 0 .. MaxSpans
    /\ records \in [Keys -> SUBSET Spans]
    /\ DOMAIN indexed \subseteq Keys
    /\ \A k \in DOMAIN indexed : indexed[k] \in Spans
    /\ todo \subseteq DOMAIN indexed
    /\ cursor \in (TraceIds \X (SpanIds \cup {None})) \cup {None}
    /\ path \in [DOMAIN path -> Nat]
    /\ nodes \subseteq Services
    /\ \A o \in observations : o.parent \in Spans /\ o.child \in Spans

Init ==
    /\ phase = "reading"
    /\ count = 0
    /\ records = [k \in Keys |-> {}]
    /\ diagnostics \in SUBSET SourceDiagnostics
    /\ indexed = [k \in {} |-> None]
    /\ todo = {}
    /\ cursor = None
    /\ path = [k \in {} |-> 0]
    /\ visited = {}
    /\ cyclic = {}
    /\ nodes = {}
    /\ observations = {}

-----------------------------------------------------------------------------
(* Merging the fragments.                                                  *)

\* A span of a fragment that says it belongs to trace t.
Read(t, s) ==
    /\ phase = "reading"
    /\ count < MaxSpans
    /\ count' = count + 1
    /\ IF t = Blank \/ s.id = Blank \/ s.trace # t
       THEN /\ diagnostics' = diagnostics
                    \cup {Diagnostic("invalid_identity", <<t, s.id>>)}
            /\ UNCHANGED records
       ELSE /\ records' = [records EXCEPT ![<<t, s.id>>] = @ \cup {s}]
            /\ UNCHANGED diagnostics
    /\ UNCHANGED <<phase, indexed, walk, output>>

\* (Mutant: the first copy of a contested identity is taken.)
UncontestedAny(k) == records[k] # {}

\* Copies that agree in everything, the types of their times included, are one.
Uncontested(k) == \E s \in Spans : records[k] = {s}

Index ==
    /\ phase = "reading"
    /\ phase' = "walking"
    /\ indexed' = [k \in {j \in Keys : Uncontested(j)} |->
                      CHOOSE s \in Spans : s \in records[k]]
    /\ diagnostics' = diagnostics \cup
            {Diagnostic("conflicting_duplicate", k) :
                k \in {j \in Keys : records[j] # {} /\ ~Uncontested(j)}}
    /\ todo' = DOMAIN indexed'
    /\ UNCHANGED <<input, cursor, path, visited, cyclic, output>>

-----------------------------------------------------------------------------
(* Looking for cycles: one walk up the parents from every key.             *)

Parent(k) == <<k[1], indexed[k].parent>>

StartWalk(k) ==
    /\ phase = "walking"
    /\ cursor = None
    /\ k \in todo
    /\ todo' = todo \ {k}
    /\ cursor' = k
    /\ UNCHANGED <<phase, input, diagnostics, indexed, path, visited, cyclic, output>>

Extended ==
    [k \in DOMAIN path \cup {cursor} |->
        IF k = cursor THEN Cardinality(DOMAIN path) ELSE path[k]]

\* The walk ends; the keys on its path need no other walk.
EndWalk(walked) ==
    /\ visited' = visited \cup walked
    /\ cursor' = None
    /\ path' = [k \in {} |-> 0]
    /\ UNCHANGED <<phase, input, diagnostics, indexed, todo, output>>

OnTheWay ==
    /\ cursor # None
    /\ cursor \in DOMAIN indexed
    /\ cursor \notin visited

\* (Mutant: the path is not looked at.)
FollowForever ==
    /\ OnTheWay
    /\ indexed[cursor].parent # None
    /\ path' = Extended
    /\ cursor' = Parent(cursor)
    /\ UNCHANGED <<phase, input, diagnostics, indexed, todo, visited, cyclic, output>>

Follow ==
    /\ OnTheWay
    /\ cursor \notin DOMAIN path
    /\ indexed[cursor].parent # None
    /\ path' = Extended
    /\ cursor' = Parent(cursor)
    /\ UNCHANGED <<phase, input, diagnostics, indexed, todo, visited, cyclic, output>>

ReachRoot ==
    /\ OnTheWay
    /\ cursor \notin DOMAIN path
    /\ indexed[cursor].parent = None
    /\ EndWalk(DOMAIN path \cup {cursor})
    /\ UNCHANGED cyclic

\* (Mutant: the tail that leads into a cycle is counted in.)
RingWithTail == DOMAIN path

\* The part of the path from the first visit of cursor on.
RingFound == {k \in DOMAIN path : path[k] >= path[cursor]}

CloseCycle ==
    /\ OnTheWay
    /\ cursor \in DOMAIN path
    /\ cyclic' = cyclic \cup RingFound
    /\ EndWalk(DOMAIN path)

\* The parent is missing, contested, or was walked before.
Leave ==
    /\ cursor # None
    /\ ~OnTheWay
    /\ EndWalk(DOMAIN path)
    /\ UNCHANGED cyclic

-----------------------------------------------------------------------------
(* Pairing callers with callees.                                           *)

HasParent(k) == indexed[k].parent # None

ParentFound(k) == HasParent(k) /\ Parent(k) \in DOMAIN indexed

\* (Mutant: the grandparent must not be on a cycle either.)
SupportedByAncestors(k) ==
    /\ k \notin cyclic /\ Parent(k) \notin cyclic
    /\ Parent(Parent(k)) \notin cyclic

Supported(k) == k \notin cyclic /\ Parent(k) \notin cyclic

Crosses(k) ==
    /\ indexed[k].service # Blank
    /\ indexed[Parent(k)].service # Blank
    /\ indexed[k].service # indexed[Parent(k)].service

Emit ==
    /\ phase = "walking"
    /\ cursor = None
    /\ todo = {}
    /\ phase' = "done"
    /\ diagnostics' = diagnostics
        \cup {Diagnostic("cyclic_parent", k) : k \in cyclic}
        \cup {Diagnostic("unknown_service", k) :
                k \in {j \in DOMAIN indexed : indexed[j].service = Blank}}
        \cup {Diagnostic("missing_parent", k) :
                k \in {j \in DOMAIN indexed : HasParent(j) /\ ~ParentFound(j)}}
    /\ nodes' = {indexed[k].service : k \in DOMAIN indexed} \ {Blank}
    /\ observations' =
            {[parent |-> indexed[Parent(k)], child |-> indexed[k]] :
                k \in {j \in DOMAIN indexed :
                          ParentFound(j) /\ Supported(j) /\ Crosses(j)}}
    /\ UNCHANGED <<input, indexed, walk>>

\* The graph: an edge per pair of services, with its requests and errors.
RequestsOf(source, target) ==
    {o \in observations :
        o.parent.service = source /\ o.child.service = target}

ErrorsOf(source, target) ==
    {o \in RequestsOf(source, target) : o.child.error}

Edges ==
    {[source |-> o.parent.service, target |-> o.child.service,
      requests |-> Cardinality(RequestsOf(o.parent.service, o.child.service)),
      errors |-> Cardinality(ErrorsOf(o.parent.service, o.child.service))] :
        o \in observations}

-----------------------------------------------------------------------------
Step ==
    \/ (\E k \in Keys : StartWalk(k))
    \/ Follow \/ ReachRoot \/ CloseCycle \/ Leave
    \/ Emit

Next ==
    \/ \E t \in TraceIds \cup {Blank}, s \in Spans : Read(t, s)
    \/ Index
    \/ Step

Spec == Init /\ [][Next]_vars

\* The program runs: nothing in it waits.
FairSpec == Spec /\ WF_vars(Index) /\ WF_vars(Step)

-----------------------------------------------------------------------------
(* Properties.                                                             *)

\* A set of spans each of which is the parent of one of them, and whose
\* parents all belong to it: one or more whole cycles.
Ring(C) == {Parent(k) : k \in C} = C

OnCycle(k) == \E C \in SUBSET DOMAIN indexed : k \in C /\ Ring(C)

Walked ==
    \/ phase = "walking" /\ cursor = None /\ todo = {}
    \/ phase = "done"

\* Whatever the order of arrival, the walks find exactly the spans that are
\* their own ancestors, although each walk stops at what earlier ones saw.
CyclesFound ==
    Walked => cyclic = {k \in DOMAIN indexed : OnCycle(k)}

\* Every observation joins two services by two spans that nothing in the
\* batch contradicts, neither of them its own ancestor, and both services
\* are nodes of the graph.
EvidenceIsSound ==
    \A o \in observations :
        \E k \in DOMAIN indexed :
            /\ o.child = indexed[k] /\ records[k] = {o.child}
            /\ o.parent = indexed[Parent(k)] /\ records[Parent(k)] = {o.parent}
            /\ ~OnCycle(k) /\ ~OnCycle(Parent(k))
            /\ o.parent.service # o.child.service
            /\ {o.parent.service, o.child.service} \subseteq nodes

\* Why a span with a parent yields no observation, as the diagnostics tell.
Explained(k) ==
    LET parent == <<k[1], indexed[k].parent>> IN
    \/ Diagnostic("missing_parent", k) \in diagnostics
    \/ \E j \in {k, parent} :
            \/ Diagnostic("cyclic_parent", j) \in diagnostics
            \/ Diagnostic("unknown_service", j) \in diagnostics

\* No relationship between services is lost without a trace: a span that
\* names a parent is observed, or stays inside one service, or is explained.
NothingDroppedSilently ==
    phase = "done" =>
        \A k \in Keys : records[k] # {} =>
            \/ Diagnostic("conflicting_duplicate", k) \in diagnostics
            \/ /\ k \in DOMAIN indexed
               /\ \/ ~HasParent(k)
                  \/ \E o \in observations : o.child = indexed[k]
                  \/ /\ ParentFound(k)
                     /\ indexed[k].service = indexed[Parent(k)].service
                  \/ Explained(k)

\* The analysis of a batch comes to an end, cycles or not.
EveryBatchAnalysed == phase = "walking" ~> phase = "done"

-----------------------------------------------------------------------------
(* The inductive invariant behind these properties.                        *)

\* The keys of the walk in progress are a chain of parents, in order, that
\* leads to cursor.
PathIsChain ==
    /\ cursor = None => DOMAIN path = {}
    /\ DOMAIN path \subseteq DOMAIN indexed \ visited
    /\ \A k \in DOMAIN path : path[k] < Cardinality(DOMAIN path)
    /\ \A j, k \in DOMAIN path : path[j] = path[k] => j = k
    /\ DOMAIN path # {} =>
            \E k \in DOMAIN path : path[k] = Cardinality(DOMAIN path) - 1
    /\ \A k \in DOMAIN path :
            \/ path[k] = Cardinality(DOMAIN path) - 1 /\ Parent(k) = cursor
            \/ \E j \in DOMAIN path : path[j] = path[k] + 1 /\ Parent(k) = j
    /\ \A k \in DOMAIN path :
            path[k] > 0 => \E j \in DOMAIN path :
                                path[j] = path[k] - 1 /\ Parent(j) = k

\* Every key is still to be walked from, walked, or being walked.
Accounted ==
    phase # "reading" => DOMAIN indexed \subseteq
        todo \cup visited \cup DOMAIN path \cup {cursor}

\* What was walked is closed under parents, and its cycles are known.
VisitedIsSettled ==
    /\ cyclic \subseteq visited
    /\ visited \subseteq DOMAIN indexed
    /\ \A k \in visited : Parent(k) \in DOMAIN indexed => Parent(k) \in visited
    /\ Ring(cyclic)
    /\ \A C \in SUBSET DOMAIN indexed : Ring(C) => C \cap visited \subseteq cyclic

\* A walk that entered a cycle never leaves it.
WalkStaysOnRing ==
    \A C \in SUBSET DOMAIN indexed :
        Ring(C) =>
            \A k \in DOMAIN path \cap C :
                /\ cursor \in C
                /\ \A j \in DOMAIN path : path[j] >= path[k] => j \in C

\* The index holds exactly the uncontested keys, with what was read of them.
IndexIsFaithful ==
    phase # "reading" =>
        /\ \A k \in Keys : k \in DOMAIN indexed <=> Uncontested(k)
        /\ \A k \in DOMAIN indexed : records[k] = {indexed[k]}
        /\ \A k \in Keys : records[k] # {} /\ k \notin DOMAIN indexed =>
                Diagnostic("conflicting_duplicate", k) \in diagnostics

\* What the phases leave untouched.
Phases ==
    /\ phase = "reading" =>
            /\ DOMAIN indexed = {} /\ cursor = None /\ DOMAIN path = {}
            /\ todo = {} /\ visited = {} /\ cyclic = {}
    /\ phase = "done" => todo = {} /\ cursor = None
    /\ phase # "done" => observations = {}

IInv ==
    /\ TypeOK
    /\ PathIsChain
    /\ Accounted
    /\ VisitedIsSettled
    /\ WalkStaysOnRing
    /\ IndexIsFaithful
    /\ Phases
=============================================================================
