------------------------------ MODULE Payment ------------------------------
(***************************************************************************)
(* The Payment service: the /charge handler (shopsim/payment/main.go), the *)
(* PostgreSQL store behind it (shopsim/payment/store.go) and its table     *)
(* (shopsim/payment/init.sql).                                             *)
(*                                                                         *)
(* Charge sends INSERT ... ON CONFLICT DO NOTHING and, when that inserted  *)
(* nothing, a separate SELECT.  Each statement is a transaction of its own *)
(* and takes a connection of the pool only while it runs.  PostgreSQL is   *)
(* modelled by what this relies on: an INSERT that meets the uncommitted   *)
(* row of a rival waits until the rival has committed or aborted, and a    *)
(* statement may go on after the call that sent it has given up.           *)
(***************************************************************************)
EXTENDS Integers, FiniteSets

CONSTANTS
    Calls,          \* executions of the /charge handler
    Orders,         \* order ids
    Requests,       \* the decoded bodies: [order, amount] records
    PoolSize,       \* SetMaxOpenConns, 4 in the code
    None            \* no row, no request

ASSUME RequestsAssumption == Requests \subseteq [order : Orders, amount : Int]
ASSUME PoolAssumption == PoolSize \in Nat \ {0}
ASSUME NoneAssumption == None \notin Int /\ None \notin Requests

VARIABLES
    row,            \* row[o]: the committed amount of order o, or None
    stmt,           \* stmt[c]: the last statement of c, as the server sees it
    up,             \* whether the Payment process runs
    pc, req, result \* the handler executions

ledger == <<row, stmt>>
handlers == <<pc, req, result>>
vars == <<ledger, up, handlers>>

Results == {"none", "created", "replayed", "conflict",
            "invalid", "unavailable", "lost"}

Active == {c \in Calls : pc[c] \notin {"idle", "done"}}

\* (Mutant: the result of the INSERT is not closed before the SELECT.)
HoldersUnclosed ==
    {c \in Calls : pc[c] \in {"inserting", "select", "selecting"}}

\* The calls with a statement in progress: each holds a connection.
Holders == {c \in Calls : pc[c] \in {"inserting", "selecting"}}

\* "holding" is an INSERT whose row is not yet committed.
TypeOK ==
    /\ row \in [Orders -> Int \cup {None}]
    /\ stmt \in [Calls -> {"none", "sent", "holding", "created", "nothing",
                           "reading"}]
    /\ up \in BOOLEAN
    /\ pc \in [Calls -> {"idle", "insert", "inserting", "select", "selecting",
                         "done"}]
    /\ req \in [Calls -> Requests \cup {None}]
    /\ result \in [Calls -> Results]

Init ==
    /\ row = [o \in Orders |-> None]
    /\ stmt = [c \in Calls |-> "none"]
    /\ up = FALSE
    /\ pc = [c \in Calls |-> "idle"]
    /\ req = [c \in Calls |-> None]
    /\ result = [c \in Calls |-> "none"]

-----------------------------------------------------------------------------
(* The process.                                                            *)

Boot ==
    /\ ~up
    /\ up' = TRUE
    /\ UNCHANGED <<ledger, handlers>>

Crash ==
    /\ up
    /\ up' = FALSE
    /\ pc' = [c \in Calls |-> IF c \in Active THEN "done" ELSE pc[c]]
    /\ result' = [c \in Calls |-> IF c \in Active THEN "lost" ELSE result[c]]
    /\ UNCHANGED <<ledger, req>>

-----------------------------------------------------------------------------
(* The handler and Charge.                                                 *)

Answer(c, r) ==
    /\ pc' = [pc EXCEPT ![c] = "done"]
    /\ result' = [result EXCEPT ![c] = r]
    /\ UNCHANGED <<ledger, up, req>>

Valid(r) == r.amount > 0

Receive(c, r) ==
    /\ up
    /\ pc[c] = "idle"
    /\ req' = [req EXCEPT ![c] = r]
    /\ IF Valid(r)
       THEN /\ pc' = [pc EXCEPT ![c] = "insert"]
            /\ UNCHANGED result
       ELSE /\ pc' = [pc EXCEPT ![c] = "done"]
            /\ result' = [result EXCEPT ![c] = "invalid"]
    /\ UNCHANGED <<ledger, up>>

\* A statement waits for a free connection before it is sent.
SendInsert(c) ==
    /\ pc[c] = "insert"
    /\ Cardinality(Holders) < PoolSize
    /\ pc' = [pc EXCEPT ![c] = "inserting"]
    /\ stmt' = [stmt EXCEPT ![c] = "sent"]
    /\ UNCHANGED <<row, up, req, result>>

\* A returned order_id means that this call charged; sql.ErrNoRows means that
\* the order was there, and the connection is given back before the SELECT.
ReadInsertReply(c) ==
    /\ pc[c] = "inserting"
    /\ \/ stmt[c] = "created" /\ Answer(c, "created")
       \/ /\ stmt[c] = "nothing"
          /\ pc' = [pc EXCEPT ![c] = "select"]
          /\ UNCHANGED <<ledger, up, req, result>>

SendSelect(c) ==
    /\ pc[c] = "select"
    /\ Cardinality(Holders) < PoolSize
    /\ pc' = [pc EXCEPT ![c] = "selecting"]
    /\ stmt' = [stmt EXCEPT ![c] = "reading"]
    /\ UNCHANGED <<row, up, req, result>>

\* No row is sql.ErrNoRows again, this time an error.  The stored status is
\* always 'charged': the table admits no other.
Compared(stored, amount) ==
    IF stored = None THEN "unavailable"
    ELSE IF stored # amount THEN "conflict"
    ELSE "replayed"

ReadSelectReply(c) ==
    /\ pc[c] = "selecting"
    /\ stmt[c] = "reading"
    /\ Answer(c, Compared(row[req[c].order], req[c].amount))

\* The one-second deadline, a cancelled request or a database error: 503.
Fail(c) ==
    /\ c \in Active
    /\ Answer(c, "unavailable")

\* The statement's connection is gone: reading from it fails at once.
ReadError(c) ==
    /\ pc[c] \in {"inserting", "selecting"}
    /\ stmt[c] = "none"
    /\ Fail(c)

-----------------------------------------------------------------------------
(* PostgreSQL.                                                             *)

\* (Mutant: no unique key.)
RivalsUnseen(c) == {}

Rivals(c) ==
    {d \in Calls \ {c} : stmt[d] = "holding" /\ req[d].order = req[c].order}

\* (Mutants: ON CONFLICT DO UPDATE, and a rival's row taken for committed.)
InsertOverwriting(c) ==
    /\ stmt[c] = "sent"
    /\ Rivals(c) = {}
    /\ stmt' = [stmt EXCEPT ![c] = "holding"]
    /\ UNCHANGED <<row, up, handlers>>

InsertNotWaiting(c) ==
    /\ stmt[c] = "sent"
    /\ stmt' = [stmt EXCEPT ![c] =
                   IF row[req[c].order] = None /\ Rivals(c) = {}
                   THEN "holding" ELSE "nothing"]
    /\ UNCHANGED <<row, up, handlers>>

\* The unique key decides who inserts: rivals wait for a row in doubt.
Insert(c) ==
    /\ stmt[c] = "sent"
    /\ Rivals(c) = {}
    /\ stmt' = [stmt EXCEPT ![c] = IF row[req[c].order] = None
                                   THEN "holding" ELSE "nothing"]
    /\ UNCHANGED <<row, up, handlers>>

Commit(c) ==
    /\ stmt[c] = "holding"
    /\ row' = [row EXCEPT ![req[c].order] = req[c].amount]
    /\ stmt' = [stmt EXCEPT ![c] = "created"]
    /\ UNCHANGED <<up, handlers>>

InFlight(c) ==
    \/ stmt[c] \in {"sent", "holding"}
    \/ stmt[c] = "reading" /\ pc[c] = "selecting"

\* The statement is cancelled or its connection lost before it committed.
Abort(c) ==
    /\ InFlight(c)
    /\ stmt' = [stmt EXCEPT ![c] = "none"]
    /\ UNCHANGED <<row, up, handlers>>

\* A restart rolls back what was not committed and keeps every row.
PostgresRestart ==
    /\ stmt' = [c \in Calls |-> IF InFlight(c) THEN "none" ELSE stmt[c]]
    /\ UNCHANGED <<row, up, handlers>>

-----------------------------------------------------------------------------
Handle(c) ==
    \/ SendInsert(c) \/ ReadInsertReply(c)
    \/ SendSelect(c) \/ ReadSelectReply(c) \/ ReadError(c)

Serve(c) == Insert(c) \/ Commit(c)

Next ==
    \/ Boot \/ Crash
    \/ \E c \in Calls :
        \/ \E r \in Requests : Receive(c, r)
        \/ Handle(c) \/ Fail(c)
        \/ Serve(c) \/ Abort(c)
    \/ PostgresRestart

Spec == Init /\ [][Next]_vars

\* Goroutines run and PostgreSQL executes what it was sent; no deadline is
\* assumed to expire and nothing to fail.
Fairness == \A c \in Calls : WF_vars(Handle(c)) /\ WF_vars(Serve(c))

FairSpec == Spec /\ Fairness

-----------------------------------------------------------------------------
(* Properties.                                                             *)

\* What a caller was told stays true: a charge reported created or replayed
\* is in the ledger with exactly its amount, a conflict with another one.
AnswersMatchLedger ==
    \A c \in Calls :
        /\ result[c] \in {"created", "replayed"} =>
                row[req[c].order] = req[c].amount
        /\ result[c] = "conflict" =>
                row[req[c].order] \notin {None, req[c].amount}

\* An INSERT that did nothing lost to a row that is committed by the time its
\* call reads it: the SELECT never comes back empty (store.go, Charge).
LoserSeesWinner ==
    \A c \in Calls :
        stmt[c] = "nothing" \/ pc[c] \in {"select", "selecting"} =>
            row[req[c].order] # None

\* However many calls race, wait for each other, are given up on or repeated,
\* one INSERT at most charges an order, and none is in doubt besides it.
ChargedOnce ==
    \A c, d \in Calls :
        /\ stmt[c] \in {"holding", "created"}
        /\ stmt[d] \in {"holding", "created"}
        /\ req[c].order = req[d].order
        => c = d

\* Every charge is answered by its own steps and PostgreSQL's: no call waits
\* forever for a connection of the pool or for a rival's row in doubt.
EveryChargeAnswered == \A c \in Calls : c \in Active ~> pc[c] = "done"

\* Payment implements the registry of orders.
Asked(c) ==
    IF req[c] = None \/ result[c] = "invalid" THEN None
    ELSE [order |-> req[c].order, details |-> req[c].amount]

Verdict(c) ==
    IF result[c] = "none" THEN
        IF pc[c] = "idle" THEN "idle"
        ELSE IF pc[c] = "inserting" /\ stmt[c] = "created" THEN "written"
        ELSE "pending"
    ELSE IF result[c] \in {"created", "replayed"} THEN "accepted"
    ELSE IF result[c] = "conflict" THEN "rejected"
    ELSE IF result[c] = "invalid" THEN "idle"
    ELSE "unsure"

Registry ==
    INSTANCE OrderRegistry WITH
        Details <- {r.amount : r \in Requests},
        record <- row,
        asked <- [c \in Calls |-> Asked(c)],
        verdict <- [c \in Calls |-> Verdict(c)]

RefinesRegistry == Registry!Spec

-----------------------------------------------------------------------------
(* The inductive invariant behind these properties.                        *)

\* How the step a call is at goes with its request, result and statement.
Bookkeeping ==
    /\ \A c \in Calls :
        /\ pc[c] = "idle" <=> req[c] = None
        /\ pc[c] = "done" <=> result[c] # "none"
        /\ pc[c] \in {"idle", "insert"} => stmt[c] = "none"
        /\ pc[c] = "inserting" => stmt[c] # "reading"
        /\ pc[c] = "select" => stmt[c] = "nothing"
        /\ pc[c] = "selecting" => stmt[c] \in {"none", "reading"}
        /\ stmt[c] \in {"sent", "holding", "created"} =>
              \/ pc[c] = "inserting"
              \/ result[c] \in {"unavailable", "lost"}
              \/ stmt[c] = "created" /\ result[c] = "created"
    /\ Active # {} => up

\* A row in doubt is not yet in the ledger, and a committed one is.
DoubtAndLedger ==
    \A c \in Calls :
        /\ stmt[c] = "holding" => row[req[c].order] = None
        /\ stmt[c] = "created" => row[req[c].order] = req[c].amount

IInv ==
    /\ TypeOK
    /\ Bookkeeping
    /\ DoubtAndLedger
    /\ AnswersMatchLedger
    /\ LoserSeesWinner
    /\ ChargedOnce
=============================================================================
