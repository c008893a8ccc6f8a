------------------------------ MODULE Evidence ------------------------------
(***************************************************************************)
(* The evidence summaries of the analyzer: summarize_evidence in           *)
(* analysis/src/aegis_analysis/evidence.py, which asks of the observations *)
(* of a batch what each edge carried in a window of time.                  *)
(*                                                                         *)
(* A summary is computed by one call that nothing interrupts, so it is one *)
(* step here.  Any number of windows may be asked of the same batch.       *)
(***************************************************************************)
EXTENDS Observations, FiniteSetsExt

CONSTANTS
    Windows,        \* the windows asked for: pairs of boundaries
    MaxFloat        \* the greatest number that a float can hold

\* A time is an integer, or None for all that is not one.
ASSUME TimesAssumption ==
    /\ Windows \subseteq Int \X Int
    /\ MaxFloat \in Nat
    /\ \A s \in Spans :
        /\ s.error \in BOOLEAN
        /\ {s.rest.start, s.rest.duration} \subseteq Int \cup {None}
\* No source reports what only a summary can.
ASSUME SourceCodesAssumption ==
    \A d \in SourceDiagnostics :
        d.code \notin {"unclassifiable_observation_time",
                      "inapplicable_edge_latency", "unavailable_caller_duration"}

VARIABLE reports    \* reports[w]: what was answered for window w

evidenceVars == <<vars, reports>>

ValidTime(value) == value \in Nat

\* (Mutant: a window contains its end.)
ContainsClosed(w, t) == w[1] <= t /\ t <= w[2]

Contains(w, t) == w[1] <= t /\ t < w[2]

-----------------------------------------------------------------------------
(* What belongs to a window.                                               *)

\* (Mutant: the operation of the caller decides.)
TimeOfCaller(o) == o.parent.rest.start

\* The operation of the callee decides.
TimeOf(o) == o.child.rest.start

Classifiable == {o \in observations : ValidTime(TimeOf(o))}

EdgeOf(o) == <<o.parent.service, o.child.service>>

Group(w, e) == {o \in Classifiable : Contains(w, TimeOf(o)) /\ EdgeOf(o) = e}

\* The edges observed in the window.
Observed(w) ==
    {EdgeOf(o) : o \in {p \in Classifiable : Contains(w, TimeOf(p))}}

-----------------------------------------------------------------------------
(* Latency: the duration of the caller's span, between client and server.  *)

DurationOf(o) == o.parent.rest.duration

Applicable(o) == o.parent.rest.kind = "client" /\ o.child.rest.kind = "server"

\* (Mutant: a duration of zero is taken for a missing one.)
MeasuredIfPositive(o) ==
    Applicable(o) /\ ValidTime(DurationOf(o)) /\ DurationOf(o) # 0

Measured(o) == Applicable(o) /\ ValidTime(DurationOf(o))

AtMost(S, v) == {o \in S : DurationOf(o) <= v}

Below(S, v) == {o \in S : DurationOf(o) < v}

\* sorted(samples)[r - 1]
Nth(S, r) ==
    CHOOSE v \in {DurationOf(o) : o \in S} :
        Cardinality(Below(S, v)) < r /\ r <= Cardinality(AtMost(S, v))

\* (Mutant: the rank is rounded down.)
RankDown(p, n) == (p * n) \div 100 + 1

\* Integer arithmetic for the ceiling of p percent of n.
Rank(p, n) == (p * n + 99) \div 100

Percentile(p, S) ==
    IF S = {} THEN None ELSE Nth(S, Rank(p, Cardinality(S)))

Total(S) == MapThenSumSet(DurationOf, S)

\* The average is the fraction total / count.  An integral one is returned as
\* an integer of any size; else a float must be able to hold it.
AverageOverflows(S) ==
    /\ S # {}
    /\ Total(S) % Cardinality(S) # 0
    /\ Total(S) \div Cardinality(S) >= MaxFloat

-----------------------------------------------------------------------------
(* The summary of a window.                                                *)

EdgeEvidence(w, e) ==
    LET G == Group(w, e)
        S == {o \in G : Measured(o)}
    IN  [source |-> e[1], target |-> e[2],
         count |-> Cardinality(G),
         errors |-> Cardinality({o \in G : o.child.error}),
         latency |-> [count |-> Cardinality(S), total |-> Total(S),
                      p50 |-> Percentile(50, S), p95 |-> Percentile(95, S)],
         provenance |-> G]

KeyOf(s) == <<s.trace, s.id>>

\* What is said of the window besides the diagnostics of the batch.
WindowDiagnostics(w) ==
    LET G == UNION {Group(w, e) : e \in Observed(w)} IN
    {Diagnostic("unclassifiable_observation_time", KeyOf(o.child)) :
        o \in observations \ Classifiable}
    \cup {Diagnostic("inapplicable_edge_latency", KeyOf(o.child)) :
             o \in {g \in G : ~Applicable(g)}}
    \cup {Diagnostic("unavailable_caller_duration", KeyOf(o.parent)) :
             o \in {g \in G : Applicable(g) /\ ~ValidTime(DurationOf(g))}}

Summary(w) ==
    [status |-> "summary",
     edges |-> {EdgeEvidence(w, e) : e \in Observed(w)},
     diagnostics |-> diagnostics \cup WindowDiagnostics(w)]

Refusal(reason) == [status |-> reason, edges |-> {}, diagnostics |-> {}]

Unaverageable(w) ==
    \E e \in Observed(w) :
        AverageOverflows({o \in Group(w, e) : Measured(o)})

Answer(w) ==
    IF w[1] >= w[2] THEN Refusal("invalid_window")
    ELSE IF Unaverageable(w) THEN Refusal("overflow")
    ELSE Summary(w)

Summarize(w) ==
    /\ phase = "done"
    /\ w \notin DOMAIN reports
    /\ reports' = [v \in DOMAIN reports \cup {w} |->
                       IF v = w THEN Answer(w) ELSE reports[v]]
    /\ UNCHANGED vars

EvidenceInit == Init /\ reports = [w \in {} |-> None]

EvidenceNext ==
    \/ Next /\ UNCHANGED reports
    \/ \E w \in Windows : Summarize(w)

EvidenceSpec == EvidenceInit /\ [][EvidenceNext]_evidenceVars

\* The program runs; nobody need ask for a window.
FairEvidenceSpec == EvidenceSpec /\ WF_vars(Index) /\ WF_vars(Step)

-----------------------------------------------------------------------------
(* Properties.                                                             *)

Summarized == {w \in DOMAIN reports : reports[w].status = "summary"}

\* The provenance of an edge in a report, empty when it was not observed.
Provenance(w, e) ==
    UNION {r.provenance : r \in {x \in reports[w].edges :
                                    <<x.source, x.target>> = e}}

\* "Adjacent windows never overlap" (evidence.py, TimeWindow), and leave
\* nothing out: two of them carry together what their union carries.
WindowsAddUp ==
    \A v, w, u \in Summarized :
        (v[2] = w[1] /\ u = <<v[1], w[2]>>) =>
            \A e \in Services \X Services :
                /\ Provenance(v, e) \cap Provenance(w, e) = {}
                /\ Provenance(u, e) = Provenance(v, e) \cup Provenance(w, e)

\* Summary and graph agree: an observation that the graph counts is counted
\* on the same edge of every summary, unless its callee started outside the
\* window or at no valid time, which is then reported.
AgreesWithGraph ==
    \A w \in Summarized : \A o \in observations :
        LET t == o.child.rest.start
            counted == o \in Provenance(w, <<o.parent.service, o.child.service>>)
            reported == Diagnostic("unclassifiable_observation_time",
                            <<o.child.trace, o.child.id>>) \in reports[w].diagnostics
        IN  /\ counted <=> t \in Nat /\ w[1] <= t /\ t < w[2]
            /\ reported <=> t \notin Nat

\* Whether a summary says why an observation has no latency.
LatencyExplained(w, o) ==
    \/ Diagnostic("inapplicable_edge_latency",
           <<o.child.trace, o.child.id>>) \in reports[w].diagnostics
    \/ Diagnostic("unavailable_caller_duration",
           <<o.parent.trace, o.parent.id>>) \in reports[w].diagnostics

\* Missing latency removes nothing silently: every observation of an edge is
\* either a latency sample or explained, and never both.
LatencyIsAccounted ==
    \A w \in Summarized : \A e \in reports[w].edges :
        /\ e.count = Cardinality(e.provenance)
        /\ e.count = e.latency.count
                     + Cardinality({o \in e.provenance : LatencyExplained(w, o)})

\* v is the smallest duration of S that at least p percent do not exceed.
NearestRank(p, S, v) ==
    /\ v \in {DurationOf(o) : o \in S}
    /\ 100 * Cardinality(AtMost(S, v)) >= p * Cardinality(S)
    /\ \A u \in {DurationOf(o) : o \in S} :
          u < v => 100 * Cardinality(AtMost(S, u)) < p * Cardinality(S)

\* The percentiles are those of the nearest-rank definition, exactly.
PercentilesAreNearestRank ==
    \A w \in Summarized : \A e \in reports[w].edges :
        LET S == {o \in e.provenance : Measured(o)} IN
        S # {} => /\ NearestRank(50, S, e.latency.p50)
                  /\ NearestRank(95, S, e.latency.p95)
=============================================================================
