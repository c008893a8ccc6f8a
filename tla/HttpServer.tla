----------------------------- MODULE HttpServer -----------------------------
(***************************************************************************)
(* The life of one ShopSim process: httpio.Run and Route                   *)
(* (shopsim/internal/httpio/httpio.go) with the tracing that               *)
(* telemetry.Init sets up (shopsim/internal/telemetry/telemetry.go).       *)
(*                                                                         *)
(* The process serves until it is signalled or its listener fails, then    *)
(* drains its connections and flushes its spans, each for a bounded time.  *)
(* net/http and the OpenTelemetry SDK are modelled by what Run uses of     *)
(* them: Shutdown and Close, and a batch processor with a bounded queue.   *)
(* As net/http documents, Shutdown interrupts no active connection: a      *)
(* connection whose request has been read is active at once.               *)
(***************************************************************************)
EXTENDS Integers, FiniteSets

CONSTANTS
    Requests,       \* the requests that clients may send
    Traced,         \* those with the path and the method of the application
    Hung,           \* those whose handler may never return
    QueueSize,      \* spans that wait for the worker, 512 in the code
    BatchSize,      \* spans of one export, 128 in the code
    DrainTimeout,   \* 5 seconds in the code
    FlushTimeout    \* 3 seconds in the code

ASSUME RequestsAssumption == Traced \subseteq Requests /\ Hung \subseteq Requests
ASSUME BoundsAssumption ==
    /\ QueueSize \in Nat \ {0} /\ BatchSize \in Nat \ {0}
    /\ DrainTimeout \in Nat /\ FlushTimeout \in Nat

VARIABLES
    phase,          \* what Run is doing
    listener,       \* the state of ListenAndServe
    signalled,      \* ctx.Done()
    tracing,        \* where spans go
    left,           \* the time left of the drain or of the flush
    code,           \* what Run returned: nil ("ok") or an error
    flushed,        \* whether the flush is complete
    conn,           \* conn[r]: the connection that carries request r
    handler,        \* handler[r]: the goroutine that serves it
    span            \* span[r]: the span of its server operation

run == <<phase, listener, signalled, tracing, left, code, flushed>>
vars == <<run, conn, handler, span>>

\* Requests that net/http takes for active: their handler has not returned,
\* or their response is not yet written.
Active == {r \in Requests : conn[r] \in {"open", "abandoned"}}

With(state) == {r \in Requests : span[r] = state}

TypeOK ==
    /\ phase \in {"starting", "running", "draining", "flushing", "exited"}
    /\ listener \in {"unbound", "open", "closed", "failed"}
    /\ signalled \in BOOLEAN
    /\ tracing \in {"exporter", "none"}
    /\ left \in 0 .. DrainTimeout \/ left \in 0 .. FlushTimeout
    /\ code \in {"none", "ok", "error", "killed"}
    /\ flushed \in {"complete", "incomplete"}
    /\ conn \in [Requests -> {"none", "open", "abandoned", "kept",
                              "done", "gone", "cut"}]
    /\ handler \in [Requests -> {"none", "running", "ended"}]
    /\ span \in [Requests -> {"none", "open", "queued", "batched", "sent",
                              "exported", "failed", "dropped", "missed"}]

Init ==
    /\ phase = "starting"
    /\ listener = "unbound"
    /\ signalled = FALSE
    /\ tracing = "none"
    /\ left = 0
    /\ code = "none"
    /\ flushed = "incomplete"
    /\ conn = [r \in Requests |-> "none"]
    /\ handler = [r \in Requests |-> "none"]
    /\ span = [r \in Requests |-> "none"]

-----------------------------------------------------------------------------
(* Run.                                                                    *)

\* Init gives an exporter, or none: disabled, not configured, or failed.  Then
\* signals are caught and ListenAndServe is started.
Start(exporter) ==
    /\ phase = "starting"
    /\ phase' = "running"
    /\ tracing' = exporter
    /\ UNCHANGED <<listener, signalled, left, code, flushed, conn, handler, span>>

Listen ==
    /\ phase = "running"
    /\ listener = "unbound"
    /\ listener' = "open"
    /\ UNCHANGED <<phase, signalled, tracing, left, code, flushed,
                   conn, handler, span>>

\* The address is taken, or the listener can accept no more.
ListenFails ==
    /\ phase = "running"
    /\ listener \in {"unbound", "open"}
    /\ listener' = "failed"
    /\ UNCHANGED <<phase, signalled, tracing, left, code, flushed,
                   conn, handler, span>>

\* SIGTERM or Ctrl+C while they are caught; more of them change nothing.
Signal ==
    /\ phase \in {"running", "draining"}
    /\ signalled' = TRUE
    /\ UNCHANGED <<phase, listener, tracing, left, code, flushed,
                   conn, handler, span>>

\* Run returns c: the signals are no longer caught, the spans are flushed.
Return(c) ==
    /\ code' = c
    /\ phase' = "flushing"
    /\ left' = FlushTimeout
    /\ UNCHANGED <<signalled, tracing, flushed>>

\* select may take this case even when a signal has arrived too.
SelectFailed ==
    /\ phase = "running"
    /\ listener = "failed"
    /\ Return("error")
    /\ UNCHANGED <<listener, conn, handler, span>>

\* Shutdown begins: it closes the listener, and a listener that is not bound
\* yet will not be.
SelectSignal ==
    /\ phase = "running"
    /\ signalled
    /\ phase' = "draining"
    /\ left' = DrainTimeout
    /\ listener' = IF listener = "failed" THEN listener ELSE "closed"
    /\ UNCHANGED <<signalled, tracing, code, flushed, conn, handler, span>>

\* Shutdown returns once it has found every connection idle, and closed it.
DrainDone ==
    /\ phase = "draining"
    /\ Active = {}
    /\ conn' = [r \in Requests |-> IF conn[r] = "kept" THEN "done" ELSE conn[r]]
    /\ Return("ok")
    /\ UNCHANGED <<listener, handler, span>>

\* What becomes of the connections when they are all closed.
Closed ==
    [r \in Requests |->
        CASE conn[r] = "open" -> "cut"
          [] conn[r] = "abandoned" -> "gone"
          [] conn[r] = "kept" -> "done"
          [] OTHER -> conn[r]]

\* (Mutant: the error of Shutdown is dropped.)
DrainExpiredUnreported ==
    /\ phase = "draining"
    /\ left = 0
    /\ conn' = Closed
    /\ Return("ok")
    /\ UNCHANGED <<listener, handler, span>>

\* The time is up: Close.  Handlers are not stopped by it.
DrainExpired ==
    /\ phase = "draining"
    /\ left = 0
    /\ conn' = Closed
    /\ Return("error")
    /\ UNCHANGED <<listener, handler, span>>

\* The process ends, and whatever it was doing with it.
Exit ==
    /\ phase' = "exited"
    /\ conn' = Closed
    /\ UNCHANGED <<listener, signalled, tracing, left, handler, span>>

\* The processor has exported what it held.
FlushDone ==
    /\ phase = "flushing"
    /\ With("queued") \cup With("batched") \cup With("sent") = {}
    /\ flushed' = "complete"
    /\ Exit
    /\ UNCHANGED code

\* (Mutant: the flush has no deadline.)
FlushNeverExpires == FALSE /\ UNCHANGED vars

FlushExpired ==
    /\ phase = "flushing"
    /\ left = 0
    /\ Exit
    /\ UNCHANGED <<code, flushed>>

\* SIGKILL, or a signal that is not caught: before Start or during the flush.
Kill ==
    /\ phase # "exited"
    /\ code' = "killed"
    /\ Exit
    /\ UNCHANGED flushed

Tick ==
    /\ phase \in {"draining", "flushing"}
    /\ left > 0
    /\ left' = left - 1
    /\ UNCHANGED <<phase, listener, signalled, tracing, code, flushed,
                   conn, handler, span>>

-----------------------------------------------------------------------------
(* Requests.                                                               *)

Serve(r) ==
    /\ handler' = [handler EXCEPT ![r] = "running"]
    /\ span' = [span EXCEPT ![r] = IF r \in Traced THEN "open" ELSE "none"]
    /\ UNCHANGED run

\* On a new connection.
Accept(r) ==
    /\ phase = "running"
    /\ listener = "open"
    /\ conn[r] = "none"
    /\ conn' = [conn EXCEPT ![r] = "open"]
    /\ Serve(r)

\* On the connection of an earlier request q, kept open.  Neither a failed
\* listener nor the start of the drain prevents this.
Reuse(q, r) ==
    /\ phase \in {"running", "draining", "flushing"}
    /\ conn[q] = "kept"
    /\ conn[r] = "none"
    /\ conn' = [conn EXCEPT ![q] = "done", ![r] = "open"]
    /\ Serve(r)

\* A client gives up: the context of the handler is cancelled, but nothing
\* ends the handler except its own return.
Abandon(r) ==
    /\ phase # "exited"
    /\ conn[r] = "open"
    /\ conn' = [conn EXCEPT ![r] = "abandoned"]
    /\ UNCHANGED <<run, handler, span>>

\* (Mutant: tracing is shut down on the signal, before the drain.)
EndedAfterShutdown(r) ==
    IF r \notin Traced \/ tracing = "none" THEN "none"
    ELSE IF phase \in {"draining", "flushing"} THEN "missed"
    ELSE IF Cardinality(With("queued")) < QueueSize THEN "queued"
    ELSE "dropped"

\* What becomes of a span that ends: never kept waiting.
Ended(r) ==
    IF r \notin Traced \/ tracing = "none" THEN "none"
    ELSE IF phase = "flushing" THEN "missed"
    ELSE IF Cardinality(With("queued")) < QueueSize THEN "queued"
    ELSE "dropped"

\* (Mutant: a full queue blocks the handler.)
HandlerReturnsBlocking(r) ==
    /\ phase # "exited"
    /\ handler[r] = "running"
    /\ Ended(r) # "dropped"
    /\ handler' = [handler EXCEPT ![r] = "ended"]
    /\ span' = [span EXCEPT ![r] = Ended(r)]
    /\ UNCHANGED <<run, conn>>

\* The wrapper that Route puts around the handler ends the span on return.
HandlerReturns(r) ==
    /\ phase # "exited"
    /\ handler[r] = "running"
    /\ handler' = [handler EXCEPT ![r] = "ended"]
    /\ span' = [span EXCEPT ![r] = Ended(r)]
    /\ UNCHANGED <<run, conn>>

\* Where the response leaves the connection: no keep-alive once draining.
Responded(r) ==
    IF conn[r] = "abandoned" THEN "gone"
    ELSE IF phase = "draining" THEN "done"
    ELSE "kept"

\* net/http writes the response after the wrapper has returned.
Respond(r) ==
    /\ phase # "exited"
    /\ r \in Active
    /\ handler[r] = "ended"
    /\ conn' = [conn EXCEPT ![r] = Responded(r)]
    /\ UNCHANGED <<run, handler, span>>

-----------------------------------------------------------------------------
(* The worker of the batch processor.                                      *)

BatchHasRoom == Cardinality(With("batched")) < BatchSize

Collect(r) ==
    /\ phase # "exited"
    /\ span[r] = "queued"
    /\ With("sent") = {}
    /\ BatchHasRoom
    /\ span' = [span EXCEPT ![r] = "batched"]
    /\ UNCHANGED <<run, conn, handler>>

\* The batch is full, or the timer has fired, or the queue is being drained.
Export ==
    /\ phase # "exited"
    /\ With("batched") # {}
    /\ With("sent") = {}
    /\ span' = [r \in Requests |-> IF span[r] = "batched" THEN "sent" ELSE span[r]]
    /\ UNCHANGED <<run, conn, handler>>

\* The Collector accepts the batch, or it is lost.
ExportEnds(outcome) ==
    /\ phase # "exited"
    /\ With("sent") # {}
    /\ span' = [r \in Requests |-> IF span[r] = "sent" THEN outcome ELSE span[r]]
    /\ UNCHANGED <<run, conn, handler>>

-----------------------------------------------------------------------------
Main ==
    \/ SelectFailed \/ SelectSignal
    \/ DrainDone \/ DrainExpired
    \/ FlushDone \/ FlushExpired

Next ==
    \/ \E exporter \in {"exporter", "none"} : Start(exporter)
    \/ Listen \/ ListenFails \/ Signal \/ Kill \/ Tick
    \/ Main
    \/ \E r \in Requests :
        \/ Accept(r) \/ Abandon(r) \/ HandlerReturns(r) \/ Respond(r)
        \/ \E q \in Requests : Reuse(q, r)
        \/ Collect(r)
    \/ Export
    \/ \E outcome \in {"exported", "failed"} : ExportEnds(outcome)

Spec == Init /\ [][Next]_vars

\* Time passes, Run's goroutine runs, and so do the handlers that do not hang.
\* Nothing is assumed of the Collector or of the worker that exports to it.
Fairness ==
    /\ WF_vars(Tick)
    /\ WF_vars(Main)
    /\ \A r \in Requests \ Hung : WF_vars(HandlerReturns(r))
    /\ \A r \in Requests : WF_vars(Respond(r))

FairSpec == Spec /\ Fairness

-----------------------------------------------------------------------------
(* Properties.                                                             *)

\* "SDK queues hold at most 512 spans per process, export at most 128 spans
\* per batch" (docs/observability/tracing.md): whatever is served while the
\* Collector is slow, the spans held are bounded, and the worker holds a single
\* batch, collected or being sent.
SpansBounded ==
    /\ IsFiniteSet(With("queued") \cup With("batched") \cup With("sent"))
    /\ Cardinality(With("queued")) <= QueueSize
    /\ Cardinality(With("batched")) <= BatchSize
    /\ Cardinality(With("sent")) <= BatchSize
    /\ With("batched") = {} \/ With("sent") = {}

\* Run returns no error only if every request it accepted was served: none of
\* their connections was cut, and no handler is left behind for the exit to
\* interrupt between two writes.
CleanReturnServesAll ==
    code = "ok" => \A r \in Requests :
        /\ conn[r] \in {"none", "done", "gone"}
        /\ handler[r] # "running"

\* After a return without error and a completed flush, each application
\* request has its span exported, unless the Collector failed or the queue
\* was full: none was ended too late for the flush.
CleanExitKeepsSpans ==
    /\ phase = "exited"
    /\ code = "ok"
    /\ flushed = "complete"
    /\ tracing = "exporter"
    => \A r \in Traced :
        handler[r] = "none" \/ span[r] \in {"exported", "failed", "dropped"}

\* A signal or a failed listener ends the process, although handlers hang,
\* clients keep their connections, and the Collector is not there.
StopEnds ==
    (signalled \/ (phase = "running" /\ listener = "failed")) ~> phase = "exited"

\* No request waits for tracing: each whose handler does not hang is answered,
\* or its connection closed, however full the queue and whether or not
\* anything is ever exported.
RequestsNeverWait == \A r \in Requests \ Hung : r \in Active ~> r \notin Active

-----------------------------------------------------------------------------
(* The inductive invariant behind the safety properties.                   *)

\* Connections, handlers and spans go together.
Served ==
    \A r \in Requests :
        /\ conn[r] = "none" <=> handler[r] = "none"
        /\ conn[r] \in {"kept", "done"} => handler[r] = "ended"
        /\ conn[r] = "cut" => phase \in {"flushing", "exited"}
        /\ handler[r] = "running" =>
            \/ conn[r] \in {"open", "abandoned"}
            \/ code # "ok" /\ phase \in {"flushing", "exited"}
        /\ handler[r] = "ended" /\ r \in Traced /\ tracing = "exporter" =>
            span[r] \notin {"none", "open"}
        /\ span[r] = "missed" => code # "ok" /\ phase \in {"flushing", "exited"}

\* How the phases go with what Run returns.
Returned ==
    /\ phase \in {"starting", "running", "draining"} => code = "none"
    /\ phase = "flushing" => code \in {"ok", "error"}
    /\ phase = "starting" => \A r \in Requests : handler[r] = "none"
    /\ phase # "exited" => flushed = "incomplete"

Flushed ==
    phase = "exited" /\ flushed = "complete" =>
        With("queued") \cup With("batched") \cup With("sent") = {}

IInv ==
    /\ TypeOK
    /\ Served
    /\ Returned
    /\ Flushed
    /\ CleanReturnServesAll
=============================================================================
