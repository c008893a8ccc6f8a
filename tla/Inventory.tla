----------------------------- MODULE Inventory -----------------------------
(***************************************************************************)
(* The Inventory service: the /reserve handler (shopsim/inventory/main.go) *)
(* and the Redis store behind it (shopsim/inventory/store.go).             *)
(*                                                                         *)
(* A call is one execution of the handler.  Reserve runs an optimistic     *)
(* Redis transaction: WATCH the stock and the reservation, read both, and  *)
(* EXEC the pair of writes, which Redis aborts when a watched key changed  *)
(* meanwhile.  Only an abort is retried.  Redis is modelled by what the    *)
(* store uses of it: the two families of keys, the WATCH flag of the       *)
(* connection a call holds, and the transaction in flight on it, which     *)
(* Redis may still execute after the call that sent it has given up.       *)
(***************************************************************************)
EXTENDS Integers, FiniteSets, FiniteSetsExt

CONSTANTS
    Calls,          \* executions of the /reserve handler
    Orders,         \* order ids
    Skus,           \* the SKUs a request may name
    SeedSkus,       \* the SKUs that Seed creates
    SeedStock,      \* SeedStock[s]: the quantity s is seeded with
    Requests,       \* the decoded bodies: [order, sku, quantity] records
    MaxAttempts,    \* maxAttempts, 8 in the code
    PoolSize,       \* the connections of the Redis pool, 4 in the code
    None            \* an absent key, the request of a call not yet made

ASSUME SeedAssumption ==
    /\ SeedSkus \subseteq Skus
    /\ SeedStock \in [SeedSkus -> Nat]
ASSUME RequestsAssumption ==
    Requests \subseteq [order : Orders, sku : Skus, quantity : Int]
ASSUME BoundsAssumption ==
    /\ MaxAttempts \in Nat \ {0}
    /\ PoolSize \in Nat \ {0}
ASSUME NoneAssumption ==
    /\ None \notin Int
    /\ None \notin Requests
    /\ None \notin [sku : Skus, quantity : Int]

VARIABLES
    \* Redis
    stock,          \* stock[s]: the value of key stock:s, or None
    resv,           \* resv[o]: the hash reservation:o, or None
    watch,          \* watch[c]: the WATCH state of the connection c holds
    txn,            \* txn[c]: the last MULTI/EXEC that c sent
    \* the Inventory process
    phase,          \* "down", "seeding" or "serving"
    todo,           \* the SKUs that Seed has not reached yet
    \* the handler executions
    pc, req, attempt, seen, result

redis == <<stock, resv, watch, txn>>
process == <<phase, todo>>
handlers == <<pc, req, attempt, seen, result>>
vars == <<redis, process, handlers>>

\* The fields HSET stores.
Fields(r) == [sku |-> r.sku, quantity |-> r.quantity]

\* "invalid", "conflict", "insufficient", "unknown", "contention" and
\* "unavailable" are the error answers; "lost" is a call cut by a crash.
Results == {"none", "created", "replayed", "conflict", "insufficient",
            "unknown", "invalid", "contention", "unavailable", "lost"}

Active == {c \in Calls : pc[c] \notin {"idle", "done"}}

\* (Mutant: a call that was answered never gives its connection back.)
HoldersLeaking ==
    {c \in Calls : pc[c] \in {"read", "stock", "await", "done"}}

\* The calls inside client.Watch: each holds one connection of the pool.
Holders == {c \in Calls : pc[c] \in {"read", "stock", "await"}}

TypeOK ==
    /\ stock \in [Skus -> Int \cup {None}]
    /\ resv \in [Orders -> [sku : Skus, quantity : Int] \cup {None}]
    /\ watch \in [Calls -> {"none", "clean", "dirty"}]
    /\ txn \in [Calls -> {"none", "sent", "committed", "aborted"}]
    /\ phase \in {"down", "seeding", "serving"}
    /\ todo \in SUBSET SeedSkus
    /\ pc \in [Calls -> {"idle", "attempt", "read", "stock", "await",
                         "backoff", "done"}]
    /\ req \in [Calls -> Requests \cup {None}]
    /\ attempt \in [Calls -> 0 .. MaxAttempts - 1]
    /\ seen \in [Calls -> Int]
    /\ result \in [Calls -> Results]

Init ==
    /\ stock = [s \in Skus |-> None]
    /\ resv = [o \in Orders |-> None]
    /\ watch = [c \in Calls |-> "none"]
    /\ txn = [c \in Calls |-> "none"]
    /\ phase = "down"
    /\ todo = {}
    /\ pc = [c \in Calls |-> "idle"]
    /\ req = [c \in Calls |-> None]
    /\ attempt = [c \in Calls |-> 0]
    /\ seen = [c \in Calls |-> 0]
    /\ result = [c \in Calls |-> "none"]

-----------------------------------------------------------------------------
(* The process: main seeds the stock before it serves.                     *)

Boot ==
    /\ phase = "down"
    /\ phase' = "seeding"
    /\ todo' = SeedSkus
    /\ UNCHANGED <<redis, handlers>>

\* A key that is set aborts the transactions of the clients watching it.
Dirtied(c) == IF watch[c] = "clean" THEN "dirty" ELSE watch[c]

\* (Mutant: SET in place of SETNX.)
SeedOneBySet(s) ==
    /\ phase = "seeding"
    /\ s \in todo
    /\ todo' = todo \ {s}
    /\ stock' = [stock EXCEPT ![s] = SeedStock[s]]
    /\ watch' = [c \in Calls |-> IF req[c] # None /\ req[c].sku = s
                                 THEN Dirtied(c) ELSE watch[c]]
    /\ UNCHANGED <<resv, txn, phase, handlers>>

\* SETNX writes only an absent key.  Seed ranges over a Go map: any order.
SeedOne(s) ==
    /\ phase = "seeding"
    /\ s \in todo
    /\ todo' = todo \ {s}
    /\ IF stock[s] = None
       THEN /\ stock' = [stock EXCEPT ![s] = SeedStock[s]]
            /\ watch' = [c \in Calls |->
                           IF req[c] # None /\ req[c].sku = s
                           THEN Dirtied(c) ELSE watch[c]]
       ELSE UNCHANGED <<stock, watch>>
    /\ UNCHANGED <<resv, txn, phase, handlers>>

Serve ==
    /\ phase = "seeding"
    /\ todo = {}
    /\ phase' = "serving"
    /\ UNCHANGED <<redis, todo, handlers>>

\* The process dies, or exits because Seed failed.  A transaction that was
\* already sent stays in Redis' input and may still be executed.
Crash ==
    /\ phase # "down"
    /\ phase' = "down"
    /\ todo' = {}
    /\ pc' = [c \in Calls |-> IF c \in Active THEN "done" ELSE pc[c]]
    /\ result' = [c \in Calls |-> IF c \in Active THEN "lost" ELSE result[c]]
    /\ watch' = [c \in Calls |-> IF txn[c] = "sent" THEN watch[c] ELSE "none"]
    /\ UNCHANGED <<stock, resv, txn, req, attempt, seen>>

-----------------------------------------------------------------------------
(* The handler and Reserve.                                                *)

\* Answer call c; the connection it held, if any, goes back to the pool.
Answer(c, r) ==
    /\ pc' = [pc EXCEPT ![c] = "done"]
    /\ result' = [result EXCEPT ![c] = r]
    /\ watch' = [watch EXCEPT ![c] = IF txn[c] = "sent" THEN @ ELSE "none"]
    /\ UNCHANGED <<stock, resv, txn, process, req, attempt, seen>>

Valid(r) == r.quantity > 0

Receive(c, r) ==
    /\ phase = "serving"
    /\ pc[c] = "idle"
    /\ req' = [req EXCEPT ![c] = r]
    /\ IF Valid(r)
       THEN /\ pc' = [pc EXCEPT ![c] = "attempt"]
            /\ UNCHANGED result
       ELSE /\ pc' = [pc EXCEPT ![c] = "done"]
            /\ result' = [result EXCEPT ![c] = "invalid"]
    /\ UNCHANGED <<redis, process, attempt, seen>>

\* client.Watch takes a free connection and sends WATCH for both keys.
Watch(c) ==
    /\ pc[c] = "attempt"
    /\ Cardinality(Holders) < PoolSize
    /\ pc' = [pc EXCEPT ![c] = "read"]
    /\ watch' = [watch EXCEPT ![c] = "clean"]
    /\ UNCHANGED <<stock, resv, txn, process, req, attempt, seen, result>>

\* HGETALL: an existing reservation decides the call.
ReadReservation(c) ==
    /\ pc[c] = "read"
    /\ watch[c] # "none"
    /\ \/ /\ resv[req[c].order] = None
          /\ pc' = [pc EXCEPT ![c] = "stock"]
          /\ UNCHANGED <<redis, process, req, attempt, seen, result>>
       \/ /\ resv[req[c].order] = Fields(req[c])
          /\ Answer(c, "replayed")
       \/ /\ resv[req[c].order] \notin {None, Fields(req[c])}
          /\ Answer(c, "conflict")

\* (Mutant: any stock left will do.)
EnoughIfAny(available, quantity) == available > 0

Enough(available, quantity) == available >= quantity

\* GET, then the MULTI/EXEC is on its way.
ReadStock(c) ==
    /\ pc[c] = "stock"
    /\ watch[c] # "none"
    /\ LET available == stock[req[c].sku] IN
       \/ /\ available = None
          /\ Answer(c, "unknown")
       \/ /\ available # None
          /\ ~Enough(available, req[c].quantity)
          /\ Answer(c, "insufficient")
       \/ /\ available # None
          /\ Enough(available, req[c].quantity)
          /\ seen' = [seen EXCEPT ![c] = available]
          /\ txn' = [txn EXCEPT ![c] = "sent"]
          /\ pc' = [pc EXCEPT ![c] = "await"]
          /\ UNCHANGED <<stock, resv, watch, process, req, attempt, result>>

MoreAttempts(c) == attempt[c] + 1 < MaxAttempts

\* An abort is retried after a pause, at most MaxAttempts attempts in all.
Retry(c) ==
    /\ txn' = [txn EXCEPT ![c] = "none"]
    /\ watch' = [watch EXCEPT ![c] = "none"]
    /\ IF MoreAttempts(c)
       THEN /\ pc' = [pc EXCEPT ![c] = "backoff"]
            /\ UNCHANGED result
       ELSE /\ pc' = [pc EXCEPT ![c] = "done"]
            /\ result' = [result EXCEPT ![c] = "contention"]
    /\ UNCHANGED <<stock, resv, process, req, attempt, seen>>

ReadExecReply(c) ==
    /\ pc[c] = "await"
    /\ \/ txn[c] = "committed" /\ Answer(c, "created")
       \/ txn[c] = "aborted" /\ Retry(c)

BackoffOver(c) ==
    /\ pc[c] = "backoff"
    /\ attempt' = [attempt EXCEPT ![c] = @ + 1]
    /\ pc' = [pc EXCEPT ![c] = "attempt"]
    /\ UNCHANGED <<redis, process, req, seen, result>>

\* (Mutant: an EXEC whose fate is unknown is tried again.)
FailOrRetry(c) ==
    /\ c \in Active
    /\ \/ pc[c] # "await" /\ Answer(c, "unavailable")
       \/ /\ pc[c] = "await"
          /\ pc' = [pc EXCEPT ![c] = "backoff"]
          /\ UNCHANGED <<redis, process, req, attempt, seen, result>>

\* The one-second deadline, a cancelled request, no connection within the
\* pool's timeout, or a Redis error: never retried, answered 503.
Fail(c) ==
    /\ c \in Active
    /\ Answer(c, "unavailable")

\* The connection c waits on is gone: its read fails without any timer.
ConnectionLost(c) ==
    \/ pc[c] \in {"read", "stock"} /\ watch[c] = "none"
    \/ pc[c] = "await" /\ txn[c] = "none"

\* (Mutant: the client sends a lost transaction again on a new connection.)
ReadErrorResending(c) ==
    /\ ConnectionLost(c)
    /\ IF pc[c] = "await"
       THEN /\ txn' = [txn EXCEPT ![c] = "sent"]
            /\ watch' = [watch EXCEPT ![c] = "clean"]
            /\ UNCHANGED <<stock, resv, process, handlers>>
       ELSE Fail(c)

ReadError(c) == ConnectionLost(c) /\ Fail(c)

-----------------------------------------------------------------------------
(* Redis.                                                                  *)

\* (Mutants: only the reservation watched, only the stock watched, and a
\* WATCH on something all requests write.)
SharesOrder(c, d) ==
    req[c] # None /\ req[d] # None /\ req[c].order = req[d].order

SharesSku(c, d) ==
    req[c] # None /\ req[d] # None /\ req[c].sku = req[d].sku

SharesAnything(c, d) == req[c] # None /\ req[d] # None

\* WATCH covers both keys of a request.
SharesKey(c, d) ==
    /\ req[c] # None
    /\ req[d] # None
    /\ req[c].sku = req[d].sku \/ req[c].order = req[d].order

\* EXEC: both writes or neither.
Exec(c) ==
    /\ txn[c] = "sent"
    /\ IF watch[c] = "clean"
       THEN /\ stock' = [stock EXCEPT ![req[c].sku] = seen[c] - req[c].quantity]
            /\ resv' = [resv EXCEPT ![req[c].order] = Fields(req[c])]
            /\ txn' = [txn EXCEPT ![c] = "committed"]
            /\ watch' = [d \in Calls |->
                           IF d = c THEN "none"
                           ELSE IF SharesKey(c, d) THEN Dirtied(d)
                           ELSE watch[d]]
       ELSE /\ txn' = [txn EXCEPT ![c] = "aborted"]
            /\ watch' = [watch EXCEPT ![c] = "none"]
            /\ UNCHANGED <<stock, resv>>
    /\ UNCHANGED <<process, handlers>>

\* The connection breaks before Redis has read the transaction.
LoseExec(c) ==
    /\ txn[c] = "sent"
    /\ txn' = [txn EXCEPT ![c] = "none"]
    /\ watch' = [watch EXCEPT ![c] = "none"]
    /\ UNCHANGED <<stock, resv, process, handlers>>

\* Every connection breaks and what was not executed is dropped.  An answer
\* already sent can still be read.
Disconnect ==
    /\ watch' = [c \in Calls |-> "none"]
    /\ txn' = [c \in Calls |-> IF txn[c] = "sent" THEN "none" ELSE txn[c]]

\* Redis stops cleanly and comes back with its data.
RedisRestart ==
    /\ Disconnect
    /\ UNCHANGED <<stock, resv, process, handlers>>

-----------------------------------------------------------------------------
Handle(c) ==
    \/ Watch(c) \/ ReadReservation(c) \/ ReadStock(c)
    \/ ReadExecReply(c) \/ BackoffOver(c) \/ ReadError(c)

Next ==
    \/ Boot \/ (\E s \in SeedSkus : SeedOne(s)) \/ Serve \/ Crash
    \/ \E c \in Calls :
        \/ \E r \in Requests : Receive(c, r)
        \/ Handle(c) \/ Fail(c)
        \/ Exec(c) \/ LoseExec(c)
    \/ RedisRestart

Spec == Init /\ [][Next]_vars

\* Goroutines run, Redis reads its input and a broken connection is noticed.
\* No deadline is assumed to expire, no process to start, nothing to break.
Fairness == \A c \in Calls : WF_vars(Handle(c)) /\ WF_vars(Exec(c))

FairSpec == Spec /\ Fairness

-----------------------------------------------------------------------------
(* Properties.                                                             *)

\* Competing reservations never take more than the stock there was: the
\* stock key of a SKU is never driven below zero (store.go, Reserve).
NoOversell == \A s \in Skus : stock[s] # None => stock[s] >= 0

\* The orders that hold units of a SKU.
Holding(rv, s) == {o \in Orders : rv[o] # None /\ rv[o].sku = s}

UnitsHeld(rv, s) ==
    MapThenSumSet(LAMBDA o : rv[o].quantity, Holding(rv, s))

Conserved(st, rv) ==
    \A s \in SeedSkus :
        IF st[s] = None THEN Holding(rv, s) = {}
        ELSE st[s] + UnitsHeld(rv, s) = SeedStock[s]

\* Nothing is lost between the two kinds of keys: what is left of a SKU and
\* what its reservations hold always add up to what was seeded, and nothing
\* is reserved from a SKU that is yet to be seeded.
StockConserved == Conserved(stock, resv)

\* What a caller was told about its order stays true: a reservation reported
\* created or replayed is held with exactly the caller's details, and one
\* reported as a conflict is held with other details.
AnswersMatchReservations ==
    \A c \in Calls :
        /\ result[c] \in {"created", "replayed"} =>
                resv[req[c].order] = Fields(req[c])
        /\ result[c] = "conflict" =>
                resv[req[c].order] \notin {None, Fields(req[c])}

\* However many identical or conflicting calls race, and whatever is retried,
\* at most one transaction ever creates the reservation of an order.
OneCreator ==
    \A c, d \in Calls :
        /\ txn[c] = "committed"
        /\ txn[d] = "committed"
        /\ req[c].order = req[d].order
        => c = d

\* A refusal is final: a SKU refused as unknown is one that Seed does not
\* create (it was not merely seeded too late), and a quantity refused as
\* insufficient can never be met later, since nothing replenishes a SKU.
RefusalsStayTrue ==
    \A c \in Calls :
        /\ result[c] = "unknown" => req[c].sku \notin SeedSkus
        /\ result[c] = "insufficient" =>
                /\ stock[req[c].sku] # None
                /\ stock[req[c].sku] < req[c].quantity

\* The other calls whose transaction took the stock or the order of c.
Winners(c) ==
    {d \in Calls \ {c} :
        /\ txn[d] = "committed"
        /\ req[c] # None
        /\ req[d].sku = req[c].sku \/ req[d].order = req[c].order}

\* The retry limit is reached only under real contention: a call that gives
\* up after MaxAttempts attempts lost each of them to a different winner.
ContentionHasWinners ==
    \A c \in Calls :
        result[c] = "contention" => Cardinality(Winners(c)) >= MaxAttempts

\* Stock and reservations move together or not at all: an existing stock key
\* changes only by the quantity of an order reserved in the same step, and a
\* reservation appears only so and never changes.  In particular a restart
\* of Inventory replenishes nothing.
PairedWrites ==
    [][/\ \A s \in Skus :
            stock[s] # None /\ stock'[s] # stock[s] =>
                \E o \in Orders : resv[o] = None /\ resv'[o] # None
                                  /\ resv'[o].sku = s
       /\ \A o \in Orders :
            resv'[o] # resv[o] =>
                /\ resv[o] = None
                /\ stock[resv'[o].sku] # None
                /\ stock'[resv'[o].sku] = stock[resv'[o].sku] - resv'[o].quantity
      ]_vars

\* Every request that reaches Reserve is answered, by its own steps and
\* Redis' alone: no call waits forever for a connection of the pool, for a
\* reply, or in the retry loop.
EveryCallAnswered == \A c \in Calls : c \in Active ~> pc[c] = "done"

\* Inventory implements the registry of orders: seen from its callers it is
\* one write-once record per order.  An invalid request never reaches it.
Asked(c) ==
    IF req[c] = None \/ result[c] = "invalid" THEN None
    ELSE [order |-> req[c].order, details |-> Fields(req[c])]

Verdict(c) ==
    IF result[c] = "none" THEN
        IF pc[c] = "idle" THEN "idle"
        ELSE IF pc[c] = "await" /\ txn[c] = "committed" THEN "written"
        ELSE "pending"
    ELSE IF result[c] \in {"created", "replayed"} THEN "accepted"
    ELSE IF result[c] = "conflict" THEN "rejected"
    ELSE IF result[c] \in {"insufficient", "unknown", "contention"} THEN "declined"
    ELSE IF result[c] = "invalid" THEN "idle"
    ELSE "unsure"

Registry ==
    INSTANCE OrderRegistry WITH
        Details <- {Fields(r) : r \in Requests},
        record <- resv,
        asked <- [c \in Calls |-> Asked(c)],
        verdict <- [c \in Calls |-> Verdict(c)]

RefinesRegistry == Registry!Spec

-----------------------------------------------------------------------------
(* The inductive invariant behind these properties.                        *)

\* How the step a call is at goes with its request, its result, its
\* connection and its transaction, and with the life of the process.
Bookkeeping ==
    /\ \A c \in Calls :
        /\ pc[c] = "idle" <=> req[c] = None
        /\ pc[c] = "done" <=> result[c] # "none"
        /\ req[c] # None /\ result[c] # "invalid" => req[c].quantity > 0
        /\ pc[c] \in {"idle", "attempt", "read", "stock", "backoff"} =>
                txn[c] = "none"
        /\ txn[c] # "none" /\ pc[c] = "done" =>
                \/ result[c] \in {"unavailable", "lost"}
                \/ txn[c] = "committed" /\ result[c] = "created"
        /\ watch[c] # "none" => pc[c] \in {"read", "stock"} \/ txn[c] = "sent"
        /\ txn[c] = "sent" => watch[c] # "none"
        /\ pc[c] = "idle" => attempt[c] = 0
        /\ pc[c] = "backoff" => attempt[c] + 1 < MaxAttempts
    /\ Active # {} => phase = "serving"

\* What a WATCH that was not dirtied guarantees: the order is still free once
\* it was seen free, and the stock is still what GET returned, and enough.
CleanWatch ==
    \A c \in Calls :
        watch[c] = "clean" =>
            /\ pc[c] = "stock" \/ txn[c] = "sent" => resv[req[c].order] = None
            /\ txn[c] = "sent" => /\ stock[req[c].sku] = seen[c]
                                 /\ seen[c] >= req[c].quantity

\* A transaction that Redis executed is in the data for good.
CommittedIsHeld ==
    \A c \in Calls :
        txn[c] = "committed" => resv[req[c].order] = Fields(req[c])

\* The stock is complete when requests are served.
SeededBeforeServing ==
    phase # "down" => \A s \in SeedSkus \ todo : stock[s] # None

ServingIsSeeded == phase = "serving" => todo = {}

IInv ==
    /\ TypeOK
    /\ Bookkeeping
    /\ CleanWatch
    /\ CommittedIsHeld
    /\ SeededBeforeServing
    /\ ServingIsSeeded
    /\ NoOversell
    /\ AnswersMatchReservations
    /\ OneCreator
    /\ RefusalsStayTrue

\* The attempts that c has lost, the one it is about to lose included.
Setbacks(c) ==
    attempt[c] + (IF \/ watch[c] = "dirty"
                     \/ txn[c] = "aborted"
                     \/ pc[c] = "backoff" THEN 1 ELSE 0)

Committed == {c \in Calls : txn[c] = "committed"}

\* Each of them was lost to another winner.
SetbacksHaveWinners ==
    /\ IsFiniteSet(Committed)
    /\ \A c \in Calls :
        /\ c \in Active => Cardinality(Winners(c)) >= Setbacks(c)
        /\ result[c] = "contention" => Cardinality(Winners(c)) >= MaxAttempts
=============================================================================
