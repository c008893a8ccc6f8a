# Verification of ShopSim and the Aegis analyzer

This directory holds TLA+ models of the repository's program code, the TLC
configurations that check them on small instances, and theorems that TLAPS
checks for every instance. Paths are relative to the root of the repository.

## 1. The system

The repository has two halves that meet only in trace data.

**ShopSim** (Go, `shopsim/`) is a shop of three HTTP services. *Checkout* takes
`POST /checkout`, calls `POST /reserve` of *Inventory* and then `POST /charge`
of *Payment*. Inventory keeps stock and reservations in Redis, Payment keeps a
ledger in PostgreSQL. There are no shared transactions, no compensation and no
retries between services: what makes the system correct is that each store is
idempotent per order id.

**The analyzer** (Python, `analysis/`) reads the traces that ShopSim emits, from
Jaeger or from fixtures, and reconstructs which service called which, with
counts, errors and latencies in a time window. It has no concurrency; its
difficulty is that its input is partial, duplicated, contradictory, cyclic and
in any order, and that no result may depend on that order.

| Component | State | Operations | Interacts with | What makes it correct |
|---|---|---|---|---|
| Inventory `shopsim/inventory` | Redis keys `stock:*`, `reservation:*`; per call the attempt and what it read | `Seed`, `Reserve`, `/reserve` | Redis (WATCH/MULTI/EXEC over a pool of 4), Checkout | never oversells, units conserved, answers stay true, retries bounded and justified |
| Payment `shopsim/payment` | table `payments` | `Charge`, `/charge` | PostgreSQL (two statements, a pool of 4), Checkout | one charge per order, answers stay true, losers find the winner's row |
| Checkout `shopsim/checkout` | none but the call in progress | `/checkout`, `call`, `downstreamError` | both services by HTTP, 2 s client timeout | nothing charged unreserved, 200 and 409 final, every call answered |
| Redis durability `docker-compose.yml` | append-only file, synced each second | fsync, host failure | Inventory, which keeps running | stock and reservations lost together |
| Server life cycle `shopsim/internal/httpio` | listener, open requests, signal, deferred flush | `Run`, `Route`, `Decode` | all services, tracing | drains before it exits, flush bounded |
| Tracing `shopsim/internal/telemetry` | span queue of 512, batches of 128 | `Init`, `StorageError` | Collector | never blocks a request |
| Extractor `aegis_analysis/observations.py`, `graph.py` | merged records, index, cycle sets | `extract_observations`, `reconstruct_dependencies` | sources, evidence | order-independent, cycles found, nothing dropped silently |
| Evidence `aegis_analysis/evidence.py` | groups per edge, latency samples | `summarize_evidence` | extractor | windows add up, exact nearest-rank percentiles, latency never guessed |
| Sources `aegis_analysis/jaeger.py`, `sources.py` | none | `normalize_jaeger`, `JaegerFileSource`, `JaegerSource`, `FixtureSource` | extractor, Jaeger | contradicting tags and parents dropped and reported, whatever their order; all records or none; what one source makes, the other accepts |
| Command line `aegis_analysis/cli.py` | none | `main` | all of the analyzer | a whole answer or none, an exit code that tells the cause |
| Live validations `scripts/validate-*.py` | Docker project, stock before the outage, traces read | `compose`, `checkout`, `wait_trace`, `analyze` | all of ShopSim, Jaeger, the analyzer | a pass is earned, a failure has an outside reason, cleaned up on every way out |

### Hard behaviours

- **Optimistic transactions** (`store.go:80-131` of Inventory): the decision is
  made in the client from two separate reads; only `WATCH` and `EXEC` keep it
  valid, and only aborts are retried, eight times.
- **Statements in doubt** (`store.go:56-82` of Payment): the INSERT that loses
  to a rival waits for the rival's fate; the SELECT after it is a second
  statement on another connection.
- **Outcomes nobody knows**: a call that timed out, whose connection broke or
  whose service crashed may have written, or may still write later, and is
  repeated by the client with the same or other details.
- **Two services in sequence**: Checkout keeps no state, so only the order of
  its two calls and the idempotence of each store protect an order.
- **A bounded pool** in both stores, asked for again at each attempt or
  statement.
- **Durability**: Redis syncs once a second; its host can lose acknowledged
  writes while Inventory runs on.
- **Stopping**: a drain with a deadline, a flush with a deadline, handlers that
  neither of them can interrupt, and a span queue that may be full.
- **Many ways to fail** in the analyzer's command: arguments, window, query,
  connection, envelope, record, arithmetic and printing, each caught, or not, at
  another place, some after a part of the work is done.
- **Eventual visibility** in the live validations: traces arrive in Jaeger span
  by span, PostgreSQL is ready some time after its start, and the scripts must
  neither look too early nor leave the outage behind that they made.
- **Order independence** in the analyzer: fragments, tags and references arrive
  in any order and contradict each other; parents may form cycles.

## 2. The modules

| Module | Models | Built on |
|---|---|---|
| `OrderRegistry` | abstract: what a store promises, a write-once record per order | – |
| `OrderLifecycle` | abstract: what ShopSim promises about an order | – |
| `Inventory` | `inventory/main.go`, `inventory/store.go`, Redis as they use it | implements `OrderRegistry` |
| `InventoryDurability` | Redis with an append-only file and host failures | extends `Inventory` |
| `Payment` | `payment/main.go`, `payment/store.go`, `init.sql`, PostgreSQL as they use it | implements `OrderRegistry` |
| `Checkout` | `checkout/main.go` over two services | two instances of `OrderRegistry`; implements `OrderLifecycle` |
| `HttpServer` | `httpio.go` (`Run`, `Route`), `telemetry.go` (`Init`) | – |
| `Jaeger` | `jaeger.py`, `normalize_jaeger` | its `TypeOK` is what `Observations` assumes of spans |
| `Fixture` | `sources.py`: which records and spans `FixtureSource` accepts | – |
| `Replay` | the spans that the scripts export to a fixture (`asdict(span)`) | extends `Jaeger`, an instance of `Fixture` |
| `Observations` | `observations.py`, `graph.py` | – |
| `Evidence` | `evidence.py` | extends `Observations` |
| `Cli` | `cli.py`, the three sources around `Jaeger` and `Fixture`, their exceptions | an instance of `Fixture` |
| `Validation` | `scripts/validate-trace-analysis.py`, `scripts/validate-evidence.py` | – |

`MC*` modules give the constants of an instance; `*_proofs` modules hold
theorems (those about `Observations` are in `Evidence_proofs`, those about
`InventoryDurability` in `Inventory_proofs`).

**How state and actions correspond to the code.**

- *Inventory.* `stock` and `resv` are the keys `stock:*` and `reservation:*`.
  A call is an execution of the handler, `pc` its place in `Reserve`: before
  `client.Watch` (`attempt`), before HGETALL (`read`), before GET (`stock`),
  waiting for the reply of `TxPipelined` (`await`), in the pause between
  attempts (`backoff`). `watch` and `txn` belong to the connection the call
  holds: a transaction that was sent may be executed (`Exec`) or lost
  (`LoseExec`) after its call has given up. `Fail` is an error or a deadline at
  any of these places, and is not retried, as in the code. `Boot`, `SeedOne` and
  `Serve` are `main`; `Crash` may interrupt each of them. SETNX of a watched key
  dirties the watchers.
- *Payment.* `row` is the table; `stmt[c]` is what PostgreSQL does for call `c`.
  An INSERT holds its row in doubt (`holding`) until it commits or aborts; a
  rival of the same key waits meanwhile. The two statements of `Charge` take a
  connection each.
- *Checkout.* `leg` and `answer` are the place of the handler in its two calls.
  Each call carries one request to a registry at most; `InventoryStep` and
  `PaymentStep` are any step of those registries, so a POST may be delivered,
  and may take effect, after its checkout was answered. `ReserveReply`,
  `ChargeReply`, `Timeout`, `Unreachable`, `HangUp` and `Crash` are the ways a
  call ends; `Downstream` is `downstreamError`.
- *HttpServer.* `phase` is the place of `Run`; `left` the time that remains to
  the drain or the flush; `conn`, `handler` and `span` follow a request through
  net/http, the wrapper of `Route` and the batch processor. Requests outside
  `Traced` are probes and routing errors. A handler in `Hung` may never return.
- *Jaeger.* A step reads one tag or one reference into `attributes`,
  `rejected`, `parents` and `invalidParent`, the local variables of the loop;
  `EndSpan` is the rest of its body. `tagsRead`, `refsRead` and `finished`
  remember what was read, for the properties.
- *Observations.* `records` are the merged fragments, `indexed` the uncontested
  ones, `path`, `cursor`, `visited` and `cyclic` the walks of the cycle search
  (one step per iteration), `Emit` the last loop. `Edges` is
  `reconstruct_dependencies`.
- *Evidence.* A step summarises one window; `Summary` is `summarize_evidence`
  with the counts, samples, percentiles and diagnostics of each edge.
- *Fixture, Replay.* `ValidSpan` and `ValidRecord` are the checks of
  `FixtureSource.read_traces`. `Exported` is what the scripts write of the spans
  that the adapter made, so `ExportIsAccepted` composes the two.
- *Cli.* `pc` is the statement of `main`; `args` the outcome of `argparse`;
  `source`, `input` and `traces` what is read and how far. An exception is the
  name of its class and `Bases` the class hierarchy as far as a clause names it;
  `Handled` are the `except` clauses of the sources, `Raise` that of `main`.
  `stdout`, `stderr`, `shown` and `exit` are what a caller sees. `Faults` are the
  ways in which a source may fail before its first record.
- *Validation.* A script is the sequence of its statements (`Batch4`, `Batch5`),
  `at` its program counter; `Throw` leads to the `finally` of the innermost
  `try`, and a `finally` entered by an exception passes it on. `tries` counts a
  polling loop. The stores, PostgreSQL, the project, the spans that Jaeger has
  and `faults`, which records what went wrong outside of the script, are the
  environment: a command that fails may have done its work, a checkout may be
  refused, lost or answered late, and a span may arrive at any time or never.

**Abstractions.** Names, SKUs and amounts are model values or small numbers;
error texts, logging, JSON layout and spans' wording are left out; a body that
does not decode is one kind of invalid request. Redis executes one command or
one EXEC at a time; PostgreSQL's `ON CONFLICT DO NOTHING` waits for a rival in
doubt. `Shutdown` of net/http is taken as documented: it interrupts no active
connection, so the instant between reading a request and marking its connection
active does not exist in the model. Observations are a set: the code emits one
per child key, so nothing is merged by that. In `Cli` what a record says is
reduced to whether it can be read, has diagnostics (`flawed`), names that the
terminal cannot encode (`odd`) or durations beyond a float (`huge`); the rest of
it is the subject of `Jaeger`, `Observations` and `Evidence`. In `Validation` a
trace is a number of visible spans and one of three shapes.

## 3. What the runs check

| Run | Instance | Shows |
|---|---|---|
| `inventory` | 3 calls, 2 orders, 2 seeded SKUs of 2 and 1 units and an unknown one, quantities 0 to 2, 2 attempts, 2 connections | no oversell, units conserved, answers and refusals stay true, one creator per order, retry limit reached only against as many winners, paired writes, refinement of `OrderRegistry` |
| `inventory_live` | 3 calls, 1 SKU, 2 connections | every call is answered without a deadline |
| `inventory_replay` | as `inventory` | violation, see below |
| `inventory_durability` | 3 calls, 2 orders, 1 SKU, any number of failures | stock and reservations are lost together, what reached the disk stays |
| `payment` | 3 calls, 2 orders, amounts 0 to 2, 2 connections | one charge per order, answers stay true, losers find a row, refinement of `OrderRegistry`, every charge answered |
| `checkout` | 2 checkouts of 1 order, 2 items, 2 amounts and a bad one | nothing charged unreserved, 200 and 409 final, refinement of `OrderLifecycle`, every checkout is answered although services never do |
| `evidence` | batches of up to 5 spans of 2 services: 2 callers, 3 callees, a span without a parent in the batch, contradicting copies, cycles and tails; times around the boundaries, 4 windows | exactly the spans on cycles, only sound relationships, every other one explained, counts agree with the graph, windows add up, exact percentiles, latency accounted for, termination |
| `http_server` | 2 application requests and a probe that may hang, queue 1, batch 1, drain 2, flush 1 | clean stops lose neither requests nor spans, stops end, tracing delays nobody |
| `jaeger` | 2 spans of 5 kinds, 2 different tags out of 6, 2 different references out of 5, repeated in any order | the order does not matter, nothing dropped silently, what is exported is accepted as a fixture |
| `cli` | every command line, every fault, up to 2 records of 10 kinds | an answer is whole, the exit code tells the cause, refusals are messages |
| `cli_connection` | as `cli` | violation, see below |
| `validation` | both scripts, a stock of 0 to 4, 7 spans a trace, 3 attempts | a pass is earned, a failure has an outside reason, clean-up on every way out, the scripts end |

Type correctness is a conjunct of each inductive invariant (`IInv`, `JaegerInv`,
`CliInv`) of section 4, and proved with it. So is the limit on the attempts of
Inventory. `AnswersMatchReservations`, `OneCreator`, `AnswersMatchLedger` and
`SpansBounded` are proved, and no run repeats them.

**Why these bounds are enough.**

- Two attempts instead of eight: the first abort is retried and the last is not,
  which is all that the loop distinguishes, and three calls are the fewest with
  two winners against one loser.
- Two connections instead of four: three calls exceed the pool, and the call
  without a connection can be any of them.
- Two orders and two SKUs: two calls can share an order only, a SKU only, both
  or neither. A stock of two units with quantities one and two allows to take
  all, part and too much.
- One order suffices in `checkout`: orders share nothing there. Two calls meet in
  every order of their four messages; the theorems cover any number.
- Queue and batch of one: with three requests, two of them traced, both limits
  are met. Drain and flush of two and one units: time passes both before and
  after the events that race with it.
- Five spans in `evidence`: a self-parent, a cycle of two or three entered by a
  tail, a cycle beside a sound chain, and an identity with two copies beside a
  pair that is observed are all there; three callees of two edges give groups of
  no, one and two samples on both sides of each boundary. An average overflows
  beyond `MaxFloat`, here 2 instead of about 1.8e308.
- `cli`: a source is read in a loop, so that the second of two records stands for
  every later one; each kind of record fails one check, or passes with one
  peculiarity.
- `validation`: three attempts stand for thirty, the loops only count them; a
  stock of four is more than a script takes, so that it runs out at each
  checkout or at none.
- Where a bound is only for the enumeration (`MaxSpans`, `MaxTags`,
  `MaxReferences`), the theorems do not depend on it.

The cfgs that say `CHECK_DEADLOCK FALSE` are those of programs that end: an
analysis, a process. The services can always receive, crash or boot.

**Fairness, and why the code justifies it.**

- `inventory_live`, `payment`: the handler's goroutine and the database make
  progress (`Handle`, `Exec`, `Serve`). No deadline is assumed to fire: the
  answer must not depend on it.
- `checkout`: the 2-second timer of the HTTP client fires (`Timeout`), and
  the goroutine handles a reply that it got. Nothing is assumed of the services.
- `http_server`: time passes, `Run` proceeds, and handlers outside `Hung`
  return, their responses being written. Nothing is assumed of the Collector,
  the worker that exports to it, or clients.
- `evidence`: the program runs; nothing in it waits. Nobody need ask for a window.
- `validation`: the script takes its steps (`WF_vars(Step)`), as every command,
  call and query returns: calls have timeouts, and Docker Compose is taken to
  return. PostgreSQL, the Collector and Jaeger need do nothing.

**Findings.** `inventory_replay` checks the sentence of
`docs/adr/0006-redis-inventory-state.md:19`, "Replays with matching SKU and
quantity succeed without another decrement". Two identical calls race for the
last units: the second reads no reservation, then the first commits, then the
second reads a stock that is too small and is answered 409, although its order is
reserved exactly as it asks. `errInsufficientStock` returns before EXEC, so the
WATCH is never consulted (`shopsim/inventory/store.go:105`). A repetition of the
call is answered correctly; `RefusalsStayTrue` states what does hold.

`cli_connection` checks the sentence of
`docs/architecture/batch-4-trace-analysis.md:66-67`, "malformed envelopes, query
errors, connection errors and invalid JSON fail explicitly". `JaegerSource`
turns `URLError`, `OSError` and `ValueError` into `SourceError`
(`analysis/src/aegis_analysis/jaeger.py:164`), but a server that closes the
connection in the middle of its answer, or answers with a malformed status line,
makes `http.client` raise an `HTTPException`, which is none of them: `aegis` ends with a traceback. The validation scripts retry a poll
after a `SourceError` only, so they abort on it; `PollGivesUp` of `Validation` is
that step. `RefusalsAreExplicit` states what does hold.

## 4. What is proved

TLAPS checks these for every value of the constants that satisfies the `ASSUME`s
of the modules: finite or infinite sets of calls and orders, any number of
attempts, connections, queue and batch sizes.

| Module | Theorems |
|---|---|
| `Inventory_proofs` | `InductiveInvariant`, `TypeCorrect`, `NeverOversells`, `AnswersAreTrue`, `CreatedOnce`, `RefusalsAreFinal`, `WritesArePaired`, `ContentionIsReal`, `StockIsConserved`, `CallsTakeBoundedTime`, `ImplementsRegistry`; with host failures `LossyInvariant`, `NeverOversellsAcrossLoss`, `StockIsConservedAcrossLoss`, `DurableReservationsAreFinal` |
| `Payment_proofs` | `InductiveInvariant`, `AnswersAreTrue`, `LosersFindTheRow`, `ChargesOnce`, `ImplementsRegistry` |
| `Checkout_proofs` | `InductiveInvariant`, `NoChargeWithoutReservation`, `CompletedStaysTrue`, `ConflictsAreFinal`, `ImplementsLifecycle` |
| `Evidence_proofs` | of `Observations`: `InductiveInvariant`, `CyclesAreFound`, `WalksTakeLinearTime`, `SoundEvidence`, `NothingIsDroppedSilently`; of `Evidence`: `AdjacentWindowsAddUp`, `PercentilesAreExact`, `SummariesAgreeWithGraph`, `LatencyAccounted` |
| `HttpServer_proofs` | `InductiveInvariant`, `CleanReturns`, `NoSpanMissed`, `SpansAreBounded` |
| `Jaeger_proofs` | `InductiveInvariant`, `TypeCorrect`, `OrderIsIrrelevant`, `NothingIsLostSilently`, `ExportsAreAccepted` |
| `Cli_proofs` | `InductiveInvariant`, `AnswersAreWhole`, `ExitCodesTellCauses`, `RefusalsAreMessages` |
| `Validation_proofs` | `ValidationInvariant`, `PassesAreEarned`, `FailuresHaveReasons`, `AlwaysCleansUp`, `ScriptsAdvance` |

The arguments:

- *Inventory.* The safety properties are not inductive: nothing in them says why
  EXEC may write. `CleanWatch` does: while the WATCH of a call is clean, the
  order it saw free is free and the stock is what GET returned, and enough.
  `CommittedIsHeld` says that a committed transaction stays in the data, and
  `Bookkeeping` relates the place of a call, its connection and its result.
  `ContentionIsReal` counts: every setback of a call is charged to another
  committed transaction (`SetbacksHaveWinners`), which is finite bookkeeping over
  `Cardinality`. `CallsTakeBoundedTime` counts the steps that a call has left.
- *Inventory when the host fails.* Answers and committed transactions may then
  be untrue of the data, so `IInv` does not hold. `Connected`, which is its part
  about calls, connections and watches, does, because a failure breaks every
  connection; it is enough for a commit to find its order free. With
  `DiskIsHeld` (the data holds what the disk holds) this gives that a durable
  reservation stays and that stock is never negative (`DurabilityInv`).
- *Units.* `UnitsHeld` sums over a set that grows, and the sum of the library is
  defined by recursion on sets. Induction over such a definition is out of the
  prover's reach as a rule, so it is done by hand: were there a finite set on
  which two functions that satisfy the recursion differ, there would be a smallest
  one (`SmallestSubset`), and removing the element that the recursion picks gives
  a smaller one (`SumsAgree`); `SumExists` is the same for existence. `TotalAdd`
  and `TotalRemove` then say that the order of summation is irrelevant, and
  `Accounts` (the balance of every key, and finitely many reservations) is
  inductive: a commit takes from the stock what it adds to the reservations, and
  a failure of the host brings both back to one earlier state.
- *Payment.* `DoubtAndLedger`: a row in doubt is not in the ledger and a
  committed one is. With `ChargedOnce`, waiting for the rival is what makes
  `LoserSeesWinner` hold.
- *Checkout.* `Recorded` ties the registries to what each checkout sent;
  `Progress` says that a charge is sent only after Inventory accepted. The
  proof uses `OrderRegistry` only, so it holds for any two services that
  implement it, and `Inventory` and `Payment` are proved to do so.
- *Observations.* A `Ring` is a set of spans that is its own set of parents; a
  span is on a cycle if some ring holds it. `PathIsChain` numbers the walk,
  `WalkStaysOnRing` says that a walk that has entered a ring never leaves it, and
  `VisitedIsSettled` that the part already walked is closed under parents and
  its rings are known. Together they give that a walk may stop at what an
  earlier one saw. `WalksTakeLinearTime` counts what is left: two for each span
  that no walk has started from and one for each that none has seen.
- *Evidence.* The summary of a window is a function of the final observations;
  a percentile is found by counting the samples below it. `LabelsInv` says that
  records are keyed by identity, that an observation is determined by the key of
  its child, and that the codes of the extractor and of the source are none of
  those that only a summary reports (`SourceCodesAssumption`): so each missing
  sample has its own diagnostic.
- *HttpServer.* `Served` ties connection, handler and span of a request: the
  span has ended before the connection can become idle, so a drain that found no
  active connection leaves no span to miss. `SpansAreBounded` needs that a batch
  is collected only while none is being sent.
- *Jaeger.* `FoldOf` says what the one pass keeps of the values given for a key:
  the attribute is one of them, and the key is rejected exactly if two differ
  or one is unusable; this does not mention the order. `NothingIsLostSilently`
  follows from it with what has been warned of the span being read;
  `ExportsAreAccepted` is type correctness against the rules of the fixture
  source, attributes included, and rests on `UsableAssumption`: an unusable
  value is none of the values that the adapter puts in its place.
- *Cli.* `Cause` says of the command line and the input alone what the exit code
  should be. `ArgumentsPassed` and `RecordsPassed` say what has been established
  by the time a statement is reached: the arguments are well formed, the window
  is valid, the query was accepted, the records read so far are a readable
  prefix of the input. An end with code 0 has then excluded every cause of 1
  and 2, and each early end has one.

- *Validation.* `Done` is the set of steps behind the script. `Sound` says what a
  script that got there without an exception has made true: which orders are
  reserved and charged (`Accounted`), what their traces look like and which were
  polled (`Traced`), that since the stock was read only the checkout under the
  outage reserved (`Counted`), and that PostgreSQL is down between "stop" and
  "start" (`Outage`). `Supplied` adds that it is up when a checkout is to succeed,
  unless a fault is recorded. With `Delivered` (what was polled is whole) every
  assertion of the scripts then holds, so that an exception has a reason, and a
  script that prints has `Sound` to show for it. `Commands` and `Leaving` say which
  commands were tried and where an exception may be; they make `CleanedUp` hold
  when `Sound` is lost. What is before what in the two programs is read off the
  tables (`Batch4Table`, `Batch5Table`); stocks, spans and attempts are arbitrary.
  `ScriptsAdvance` is the variant: a step takes the script further or uses up an
  attempt.

Every invariant, action property and refinement that the passing runs check is
stated by one of these theorems. **Only model-checked** are the liveness
properties (`EveryCallAnswered`, `EveryChargeAnswered`, `EveryCheckoutAnswered`,
`EveryBatchAnalysed`, `StopEnds`, `RequestsNeverWait`, `ScriptEnds`), because
liveness and fairness are out of the prover's reach; for three of them the variant
is proved (`CallsTakeBoundedTime`, `WalksTakeLinearTime`, `ScriptsAdvance`). The
inductive invariants are no properties of the runs: the proofs make them hold on
every instance.

## 5. Limits

- After a failure of the Redis host, `AnswersMatchReservations`, `OneCreator`
  and `RefusalsStayTrue` do not hold: an acknowledged reservation may be gone and
  its stock key missing until Inventory restarts. The repository documents the
  loss (`README.md`, on `appendfsync everysec`), so this is no finding; the run
  checks what remains.
- The one-second deadlines of the two handlers, the half-second timeouts of the
  Redis client and the retry pauses have no clock: a failure is possible at any
  place. A readiness probe is a request without a span. `ReadTimeout`, `WriteTimeout` and `IdleTimeout` of
  net/http are left out: they close connections, which `Abandon` does already.
- Attributes of a span are compared as the code does by type and value; that 0.0
  and -0.0 are equal is not modelled.
- Attributes that compare equal in Python but differ in type, such as `True` and
  `1`, are one value when fragments are merged (`observations.py:55` looks at the
  types of the times only); a value of the model is one of those classes.
- `Fixture` takes a record's spans as a set of objects: that an empty object or
  string passes as an empty list of spans, and that `True` or `1.0` pass as the
  schema version, is not modelled.
- A server that sends its answer byte by byte keeps `JaegerSource` busy for ever,
  since its timeout is one of inactivity; reading is one step in `Cli`, which
  has no liveness property for that reason.
- `Validation` assumes that nobody else uses the project while a script runs, that
  Docker Compose returns, that a call which the script gave up has no effect
  later than its outcome, and that artifacts can be written. The identities of
  orders are fresh (`uuid4`).
- Not modelled: `StorageError` (it words a span), rendering (`to_dict`,
  `to_json`), deployment files other than the durability of Redis, the
  PowerShell scripts, which repeat in sequence what the Python scripts do with
  retries, and the configuration of the Collector and Jaeger.

## 6. Plan

1. Proof: that no set of calls waits for itself (the pools of Inventory and
   Payment, rivals for a row in doubt, requests during a stop), which is the rest
   of what `EveryCallAnswered`, `EveryChargeAnswered` and `RequestsNeverWait` need.
2. A composition of `Checkout` with the detailed `Inventory` and `Payment`, or
   with the life cycle of `HttpServer`, where a stop during a checkout leaves the
   order reserved and uncharged.
3. Duplicated fragments across several trace records (`Jaeger` feeding
   `Observations`), so that quarantine is checked from the Jaeger payload on.
4. The determinism of `to_json` orderings.
