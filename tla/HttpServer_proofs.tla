-------------------------- MODULE HttpServer_proofs --------------------------
(***************************************************************************)
(* Proofs about HttpServer: for any number of requests, any queue and any  *)
(* timeouts, a return without error has served every request and a         *)
(* completed flush has left out no span, and the spans kept are bounded.   *)
(***************************************************************************)
EXTENDS HttpServer, FiniteSetTheorems, TLAPS

USE RequestsAssumption, BoundsAssumption

\* A new process is in the invariant.
LEMMA InitIInv == Init => IInv
  <1> SUFFICES ASSUME Init PROVE IInv
    OBVIOUS
  <1>1. TypeOK
    <2>1. signalled \in BOOLEAN
      BY Zenon DEF Init
    <2> QED BY <2>1 DEF Init, TypeOK
  <1>2. Served
    BY DEF Init, Served
  <1>3. Returned /\ Flushed /\ CleanReturnServesAll
    BY DEF Init, Returned, Flushed, CleanReturnServesAll
  <1> QED BY <1>1, <1>2, <1>3 DEF IInv

\* Steps of Run keep the invariant.
LEMMA RunStep ==
    ASSUME IInv,
           \/ \E exporter \in {"exporter", "none"} : Start(exporter)
           \/ Listen \/ ListenFails \/ Signal \/ Tick
           \/ SelectFailed \/ SelectSignal
    PROVE  IInv'
  <1>1. ASSUME NEW exporter \in {"exporter", "none"}, Start(exporter) PROVE IInv'
    BY <1>1 DEF Start, IInv, TypeOK, Served, Returned, Flushed,
                CleanReturnServesAll, With
  <1>2. ASSUME Listen \/ ListenFails \/ Signal PROVE IInv'
    BY <1>2 DEF Listen, ListenFails, Signal, IInv, TypeOK, Served, Returned,
                Flushed, CleanReturnServesAll, With
  <1>3. CASE Tick
    BY <1>3 DEF Tick, IInv, TypeOK, Served, Returned, Flushed,
                CleanReturnServesAll, With
  <1>4. ASSUME SelectFailed \/ SelectSignal PROVE IInv'
    BY <1>4 DEF SelectFailed, SelectSignal, Return, IInv, TypeOK, Served,
                Returned, Flushed, CleanReturnServesAll, With
  <1> QED BY <1>1, <1>2, <1>3, <1>4

\* So do the steps that close connections.
LEMMA CloseStep ==
    ASSUME IInv,
           DrainDone \/ DrainExpired \/ FlushDone \/ FlushExpired \/ Kill
    PROVE  IInv'
  <1>1. CASE DrainDone
    <2>1. \A r \in Requests : conn[r] \notin {"open", "abandoned", "cut"}
      BY <1>1 DEF DrainDone, Active, IInv, Served
    <2>2. \A r \in Requests : handler[r] # "running"
      BY <1>1, <2>1 DEF DrainDone, IInv, Served
    <2> QED
      BY <1>1, <2>1, <2>2 DEF DrainDone, Return, IInv, TypeOK, Served, Returned,
                              Flushed, CleanReturnServesAll, With
  <1>2. \A r \in Requests :
            /\ Closed[r] \in {"none", "done", "gone", "cut"}
            /\ Closed[r] = "none" <=> conn[r] = "none"
            /\ Closed[r] = "done" <=> conn[r] \in {"kept", "done"}
            /\ Closed[r] = "cut" <=> conn[r] \in {"open", "cut"}
    BY DEF Closed, IInv, TypeOK
  <1>3. Closed \in [Requests -> {"none", "done", "gone", "cut"}]
    BY <1>2 DEF Closed
  <1>4. CASE DrainExpired
    BY <1>2, <1>3, <1>4 DEF DrainExpired, Return, IInv, TypeOK, Served, Returned,
                            Flushed, CleanReturnServesAll, With
  <1>5. ASSUME Exit, code' \in {code, "killed"}, phase # "exited",
               flushed' \in {"complete", "incomplete"},
               code' = code => phase = "flushing",
               flushed' = "complete" => With("queued") \cup With("batched") \cup With("sent") = {}
        PROVE  IInv'
    <2>1. code' = "ok" => code = "ok"
      BY <1>5
    <2> QED
      BY <1>2, <1>3, <1>5, <2>1 DEF Exit, IInv, TypeOK, Served, Returned, Flushed,
                                    CleanReturnServesAll, With
  <1> QED
    BY <1>1, <1>4, <1>5 DEF FlushDone, FlushExpired, Kill, IInv, TypeOK, Returned

\* Accepting a request keeps the invariant.
LEMMA ServeStep ==
    ASSUME IInv, NEW r \in Requests,
           \/ Accept(r)
           \/ \E q \in Requests : Reuse(q, r)
    PROVE  IInv'
  <1>1. /\ Serve(r)
        /\ phase \in {"running", "draining", "flushing"}
        /\ handler[r] = "none"
        /\ code # "ok"
        /\ conn' \in [Requests -> {"none", "open", "abandoned", "kept",
                                   "done", "gone", "cut"}]
        /\ conn'[r] = "open"
        /\ \A p \in Requests \ {r} :
              conn'[p] = conn[p] \/ (conn[p] = "kept" /\ conn'[p] = "done")
    <2>0. /\ conn[r] = "none" => handler[r] = "none"
          /\ phase \in {"running", "draining"} => code = "none"
          /\ code = "ok" => \A q \in Requests : conn[q] # "kept"
      BY DEF IInv, Served, Returned, CleanReturnServesAll
    <2>1. ASSUME Accept(r)
          PROVE  /\ Serve(r) /\ phase = "running"
                 /\ handler[r] = "none" /\ code # "ok"
                 /\ conn' = [conn EXCEPT ![r] = "open"]
      BY <2>0, <2>1 DEF Accept
    <2>2. ASSUME NEW q \in Requests, Reuse(q, r)
          PROVE  /\ Serve(r)
                 /\ phase \in {"running", "draining", "flushing"}
                 /\ handler[r] = "none"
                 /\ code # "ok"
                 /\ conn' = [conn EXCEPT ![q] = "done", ![r] = "open"]
                 /\ conn[q] = "kept" /\ q # r
      <3>1. Serve(r) /\ conn[q] = "kept" /\ conn[r] = "none"
        BY <2>2 DEF Reuse
      <3>2. code # "ok" /\ handler[r] = "none" /\ q # r
        BY <2>0, <3>1
      <3> QED BY <2>2, <3>1, <3>2 DEF Reuse
    <2>3. conn \in [Requests -> {"none", "open", "abandoned", "kept",
                                 "done", "gone", "cut"}]
      BY DEF IInv, TypeOK
    <2>4. CASE Accept(r)
      BY <2>1, <2>3, <2>4
    <2>5. CASE \E q \in Requests : Reuse(q, r)
      <3>1. PICK q \in Requests : Reuse(q, r)
        BY <2>5
      <3> QED BY <2>2, <2>3, <3>1
    <2> QED BY <2>4, <2>5
  <1>2. /\ handler' \in [Requests -> {"none", "running", "ended"}]
        /\ handler'[r] = "running"
        /\ \A p \in Requests \ {r} : handler'[p] = handler[p]
        /\ span' \in [Requests -> {"none", "open", "queued", "batched", "sent",
                                   "exported", "failed", "dropped", "missed"}]
        /\ span'[r] \in {"none", "open"}
        /\ \A p \in Requests \ {r} : span'[p] = span[p]
    BY <1>1 DEF Serve, IInv, TypeOK
  <1>3. TypeOK'
    BY <1>1, <1>2 DEF Serve, run, IInv, TypeOK
  <1>4. Served'
    BY <1>1, <1>2 DEF Serve, run, IInv, Served
  <1>5. (Returned /\ Flushed /\ CleanReturnServesAll)'
    BY <1>1 DEF Serve, run, IInv, Returned, Flushed, CleanReturnServesAll
  <1> QED BY <1>3, <1>4, <1>5 DEF IInv

\* So do the steps of a request that is being served.
LEMMA RequestStep ==
    ASSUME IInv, NEW r \in Requests,
           Abandon(r) \/ HandlerReturns(r) \/ Respond(r)
    PROVE  IInv'
  <1>1. CASE Abandon(r)
    BY <1>1 DEF Abandon, run, IInv, TypeOK, Served, Returned, Flushed,
                CleanReturnServesAll, With
  <1>2. CASE HandlerReturns(r)
    <2>1. /\ Ended(r) \in {"none", "missed", "queued", "dropped"}
          /\ Ended(r) = "none" => r \notin Traced \/ tracing = "none"
          /\ Ended(r) = "missed" => phase = "flushing"
      BY DEF Ended
    <2>2. code # "ok"
      BY <1>2 DEF HandlerReturns, IInv, CleanReturnServesAll
    <2> QED
      BY <1>2, <2>1, <2>2 DEF HandlerReturns, run, IInv, TypeOK, Served, Returned,
                              Flushed, CleanReturnServesAll, With
  <1>3. CASE Respond(r)
    <2>1. Responded(r) \in {"gone", "done", "kept"}
      BY DEF Responded
    <2>2. code # "ok"
      BY <1>3 DEF Respond, Active, IInv, CleanReturnServesAll
    <2> QED
      BY <1>3, <2>1, <2>2 DEF Respond, Active, run, IInv, TypeOK, Served, Returned,
                              Flushed, CleanReturnServesAll, With
  <1> QED BY <1>1, <1>2, <1>3

\* So do the steps of the worker.
LEMMA WorkerStep ==
    ASSUME IInv,
           \/ \E r \in Requests : Collect(r)
           \/ Export
           \/ \E outcome \in {"exported", "failed"} : ExportEnds(outcome)
    PROVE  IInv'
  <1>1. /\ phase # "exited"
        /\ UNCHANGED <<run, conn, handler>>
        /\ span' \in [Requests -> {"none", "open", "queued", "batched", "sent",
                                   "exported", "failed", "dropped", "missed"}]
        /\ \A r \in Requests :
              \/ span'[r] = span[r]
              \/ /\ span[r] \in {"queued", "batched", "sent"}
                 /\ span'[r] \in {"batched", "sent", "exported", "failed"}
    BY DEF Collect, Export, ExportEnds, IInv, TypeOK
  <1> QED
    BY <1>1 DEF run, IInv, TypeOK, Served, Returned, Flushed,
                CleanReturnServesAll, With

\* The invariant holds in every state.
THEOREM InductiveInvariant == Spec => []IInv
  <1>1. IInv /\ [Next]_vars => IInv'
    <2> SUFFICES ASSUME IInv, [Next]_vars PROVE IInv'
      OBVIOUS
    <2>1. CASE Next
      BY <2>1, RunStep, CloseStep, ServeStep, RequestStep, WorkerStep DEF Next, Main
    <2>2. CASE UNCHANGED vars
      BY <2>2 DEF vars, run, IInv, TypeOK, Served, Returned, Flushed,
                  CleanReturnServesAll, With
    <2> QED BY <2>1, <2>2
  <1> QED BY <1>1, InitIInv, PTL DEF Spec

\* A return without error has served every request that was accepted
\* (httpio.go, Run: Shutdown before the return).
THEOREM CleanReturns == Spec => []CleanReturnServesAll
  <1>1. IInv => CleanReturnServesAll
    BY DEF IInv
  <1> QED BY <1>1, InductiveInvariant, PTL

\* A clean exit with a completed flush lost no span by being late
\* (httpio.go, Run: the drain comes before the flush).
THEOREM NoSpanMissed == Spec => []CleanExitKeepsSpans
  <1>1. IInv => CleanExitKeepsSpans
    BY DEF IInv, TypeOK, Served, Flushed, CleanReturnServesAll,
           CleanExitKeepsSpans, With
  <1> QED BY <1>1, InductiveInvariant, PTL

\* Fewer spans in a state are still within its bound.
LEMMA FewerSpans ==
    ASSUME NEW S, NEW T, IsFiniteSet(S), T \subseteq S,
           NEW n \in Nat, Cardinality(S) <= n
    PROVE  IsFiniteSet(T) /\ Cardinality(T) <= n
  BY FS_Subset, FS_CardinalityType

\* One more is within it as long as there was room.
LEMMA OneMoreSpan ==
    ASSUME NEW S, NEW x, IsFiniteSet(S), NEW n \in Nat, Cardinality(S) < n
    PROVE  IsFiniteSet(S \cup {x}) /\ Cardinality(S \cup {x}) <= n
  <1>1. Cardinality(S) \in Nat
    BY FS_CardinalityType
  <1>2. /\ IsFiniteSet(S \cup {x})
        /\ Cardinality(S \cup {x}) =
              IF x \in S THEN Cardinality(S) ELSE Cardinality(S) + 1
    BY FS_AddElement
  <1> QED BY <1>1, <1>2

\* What is held is finite exactly if each part of it is.
LEMMA FiniteParts ==
    ASSUME NEW Q, NEW B, NEW S
    PROVE  IsFiniteSet(Q \cup B \cup S)
               <=> IsFiniteSet(Q) /\ IsFiniteSet(B) /\ IsFiniteSet(S)
  <1>1. ASSUME IsFiniteSet(Q), IsFiniteSet(B), IsFiniteSet(S)
        PROVE  IsFiniteSet(Q \cup B \cup S)
    <2>1. IsFiniteSet(Q \cup B)
      BY <1>1, FS_Union
    <2> QED BY <1>1, <2>1, FS_Union
  <1>2. ASSUME IsFiniteSet(Q \cup B \cup S)
        PROVE  IsFiniteSet(Q) /\ IsFiniteSet(B) /\ IsFiniteSet(S)
    BY <1>2, FS_Subset
  <1> QED BY <1>1, <1>2

\* A step of a request, or of Run, can only add to the queue, where there is
\* room; a step of the worker moves a span or a whole batch on.
LEMMA SpansStep ==
    ASSUME TypeOK, SpansBounded, [Next]_vars
    PROVE  SpansBounded'
  <1> DEFINE Q == With("queued")
             B == With("batched")
             S == With("sent")
             Bounded(q, b, s) ==
                 /\ IsFiniteSet(q) /\ Cardinality(q) <= QueueSize
                 /\ IsFiniteSet(b) /\ Cardinality(b) <= BatchSize
                 /\ IsFiniteSet(s) /\ Cardinality(s) <= BatchSize
                 /\ b = {} \/ s = {}
  <1>1. Bounded(Q, B, S)
    BY FiniteParts DEF SpansBounded
  <1>2. ASSUME Q' \subseteq Q, B' \subseteq B, S' \subseteq S
        PROVE  Bounded(Q', B', S')
    <2> HIDE DEF Q, B, S
    <2> QED BY <1>1, <1>2, FewerSpans
  <1>3. ASSUME NEW r \in Requests, Cardinality(Q) < QueueSize,
               Q' = Q \cup {r}, B' \subseteq B, S' \subseteq S
        PROVE  Bounded(Q', B', S')
    <2> HIDE DEF Q, B, S
    <2> QED BY <1>1, <1>3, FewerSpans, OneMoreSpan
  <1>4. ASSUME NEW r \in Requests, Cardinality(B) < BatchSize,
               Q' \subseteq Q, B' = B \cup {r}, S = {}, S' = {}
        PROVE  Bounded(Q', B', S')
    <2> HIDE DEF Q, B, S
    <2> QED BY <1>1, <1>4, FewerSpans, OneMoreSpan
  <1>5. ASSUME Q' \subseteq Q, B' = {}, S' \subseteq B, S = {}
        PROVE  Bounded(Q', B', S')
    <2> HIDE DEF Q, B, S
    <2> QED BY <1>1, <1>5, FewerSpans
  <1>6. Bounded(Q', B', S')
    <2>1. ASSUME UNCHANGED span PROVE Bounded(Q', B', S')
      BY <2>1, <1>2 DEF With
    <2>2. ASSUME NEW r \in Requests, Serve(r) PROVE Bounded(Q', B', S')
      BY <2>2, <1>2 DEF Serve, With, TypeOK
    <2>3. ASSUME NEW r \in Requests, HandlerReturns(r)
          PROVE  Bounded(Q', B', S')
      <3>1. CASE Ended(r) = "queued"
        BY <3>1, <2>3, <1>3 DEF HandlerReturns, Ended, With, TypeOK
      <3>2. CASE Ended(r) # "queued"
        BY <3>2, <2>3, <1>2 DEF HandlerReturns, Ended, With, TypeOK
      <3> QED BY <3>1, <3>2
    <2>4. ASSUME NEW r \in Requests, Collect(r) PROVE Bounded(Q', B', S')
      BY <2>4, <1>4 DEF Collect, BatchHasRoom, With, TypeOK
    <2>5. ASSUME Export PROVE Bounded(Q', B', S')
      BY <2>5, <1>5 DEF Export, With, TypeOK
    <2>6. ASSUME NEW outcome \in {"exported", "failed"}, ExportEnds(outcome)
          PROVE  Bounded(Q', B', S')
      BY <2>6, <1>2 DEF ExportEnds, With, TypeOK
    <2>7. CASE Next
      BY <2>1, <2>2, <2>3, <2>4, <2>5, <2>6, <2>7
         DEF Next, Main, Start, Listen, ListenFails, Signal, Kill, Tick,
             SelectFailed, SelectSignal, DrainDone, DrainExpired, FlushDone,
             FlushExpired, Exit, Accept, Reuse, Abandon, Respond
    <2> QED BY <2>1, <2>7 DEF vars
  <1>7. SpansBounded' <=> Bounded(Q', B', S')
    BY FiniteParts DEF SpansBounded
  <1> QED BY <1>6, <1>7

\* For any number of requests the spans held are bounded by the two sizes
\* (telemetry.go, Init: WithMaxQueueSize and WithMaxExportBatchSize).
THEOREM SpansAreBounded == Spec => []SpansBounded
  <1>1. Init => SpansBounded
    <2> SUFFICES ASSUME Init PROVE SpansBounded
      OBVIOUS
    <2>1. With("queued") = {} /\ With("batched") = {} /\ With("sent") = {}
      BY DEF Init, With
    <2> QED BY <2>1, FS_EmptySet DEF SpansBounded
  <1>2. IInv /\ SpansBounded /\ [Next]_vars => SpansBounded'
    BY SpansStep DEF IInv
  <1> QED BY <1>1, <1>2, InductiveInvariant, PTL DEF Spec
=============================================================================
