-------------------------- MODULE Inventory_proofs --------------------------
(***************************************************************************)
(* Proofs about Inventory, for any number of calls, orders, SKUs, attempts *)
(* and connections, and about the reservations that reached the disk.      *)
(***************************************************************************)
EXTENDS InventoryDurability, FiniteSetTheorems, TLAPS

\* An answer that agrees with what Redis holds keeps the invariant.
LEMMA AnswerInv ==
    ASSUME IInv, NEW c \in Calls, c \in Active,
           NEW r \in Results \ {"none", "invalid"},
           Answer(c, r),
           r \in {"created", "replayed"} => resv[req[c].order] = Fields(req[c]),
           r = "conflict" => resv[req[c].order] \notin {None, Fields(req[c])},
           r = "unknown" => req[c].sku \notin SeedSkus,
           r = "insufficient" => /\ stock[req[c].sku] # None
                                 /\ stock[req[c].sku] < req[c].quantity,
           txn[c] # "none" => \/ r = "unavailable"
                              \/ r = "created" /\ txn[c] = "committed"
    PROVE  IInv'
<1> USE DEF Answer, process, Active
<1>1. TypeOK'
  BY DEF IInv, TypeOK
<1>2. Bookkeeping'
  BY DEF IInv, TypeOK, Bookkeeping
<1>3. CleanWatch'
  BY DEF IInv, TypeOK, CleanWatch, Bookkeeping
<1>4. CommittedIsHeld'
  BY DEF IInv, CommittedIsHeld
<1>5. (SeededBeforeServing /\ ServingIsSeeded /\ NoOversell /\ OneCreator)'
  BY DEF IInv, SeededBeforeServing, ServingIsSeeded, NoOversell, OneCreator
<1>6. AnswersMatchReservations'
  BY DEF IInv, TypeOK, AnswersMatchReservations
<1>7. RefusalsStayTrue'
  BY DEF IInv, TypeOK, RefusalsStayTrue
<1> QED
  BY <1>1, <1>2, <1>3, <1>4, <1>5, <1>6, <1>7 DEF IInv

LEMMA InitInv == Init => IInv
<1> SUFFICES ASSUME Init PROVE IInv
  OBVIOUS
<1> USE DEF Init
<1>1. TypeOK
  BY BoundsAssumption DEF TypeOK, Results
<1>2. Bookkeeping
  BY DEF Bookkeeping, Active
<1>3. CleanWatch /\ CommittedIsHeld /\ NoOversell /\ OneCreator
  BY DEF CleanWatch, CommittedIsHeld, NoOversell, OneCreator
<1>4. SeededBeforeServing /\ ServingIsSeeded
  BY DEF SeededBeforeServing, ServingIsSeeded
<1>5. AnswersMatchReservations /\ RefusalsStayTrue
  BY DEF AnswersMatchReservations, RefusalsStayTrue
<1> QED
  BY <1>1, <1>2, <1>3, <1>4, <1>5 DEF IInv

\* The steps of the process.
LEMMA ProcessInv ==
    ASSUME IInv, Boot \/ (\E s \in SeedSkus : SeedOne(s)) \/ Serve \/ Crash
    PROVE  IInv'
<1>1. CASE Boot
  BY <1>1 DEF Boot, IInv, TypeOK, Bookkeeping, CleanWatch, CommittedIsHeld,
     SeededBeforeServing, ServingIsSeeded, NoOversell, OneCreator,
     AnswersMatchReservations, RefusalsStayTrue, redis, handlers, Active
<1>2. ASSUME NEW s \in SeedSkus, SeedOne(s) PROVE IInv'
  <2> USE <1>2 DEF SeedOne, handlers
  <2>1. TypeOK'
    BY SeedAssumption DEF IInv, TypeOK, Dirtied
  <2>2. Bookkeeping'
    BY DEF IInv, TypeOK, Bookkeeping, Active, Dirtied
  <2>3. CleanWatch'
    BY NoneAssumption, SeedAssumption, RequestsAssumption
       DEF IInv, TypeOK, CleanWatch, Bookkeeping, Dirtied
  <2>4. (CommittedIsHeld /\ OneCreator /\ AnswersMatchReservations)'
    BY DEF IInv, CommittedIsHeld, OneCreator, AnswersMatchReservations
  <2>5. (SeededBeforeServing /\ ServingIsSeeded)'
    BY SeedAssumption, NoneAssumption
       DEF IInv, TypeOK, SeededBeforeServing, ServingIsSeeded
  <2>6. NoOversell'
    BY SeedAssumption DEF IInv, TypeOK, NoOversell
  <2>7. RefusalsStayTrue'
    BY SeedAssumption, RequestsAssumption
       DEF IInv, TypeOK, Bookkeeping, RefusalsStayTrue
  <2> QED
    BY <2>1, <2>2, <2>3, <2>4, <2>5, <2>6, <2>7 DEF IInv
<1>3. CASE Serve
  BY <1>3 DEF Serve, IInv, TypeOK, Bookkeeping, CleanWatch, CommittedIsHeld,
     SeededBeforeServing, ServingIsSeeded, NoOversell, OneCreator,
     AnswersMatchReservations, RefusalsStayTrue, redis, handlers, Active
<1>4. CASE Crash
  <2> USE <1>4 DEF Crash, Active
  <2>1. TypeOK'
    BY DEF IInv, TypeOK, Results
  <2>2. Bookkeeping'
    BY DEF IInv, TypeOK, Bookkeeping
  <2>3. CleanWatch'
    BY DEF IInv, TypeOK, CleanWatch, Bookkeeping
  <2>4. (CommittedIsHeld /\ OneCreator /\ NoOversell)'
    BY DEF IInv, CommittedIsHeld, OneCreator, NoOversell
  <2>5. (SeededBeforeServing /\ ServingIsSeeded)'
    BY DEF SeededBeforeServing, ServingIsSeeded
  <2>6. (AnswersMatchReservations /\ RefusalsStayTrue)'
    BY DEF IInv, TypeOK, AnswersMatchReservations, RefusalsStayTrue
  <2> QED
    BY <2>1, <2>2, <2>3, <2>4, <2>5, <2>6 DEF IInv
<1> QED
  BY <1>1, <1>2, <1>3, <1>4

\* The steps of the handler.
LEMMA HandlerInv ==
    ASSUME IInv, NEW c \in Calls,
           (\E r \in Requests : Receive(c, r)) \/ Handle(c) \/ Fail(c)
    PROVE  IInv'
<1>1. ASSUME NEW r \in Requests, Receive(c, r) PROVE IInv'
  <2> USE <1>1 DEF Receive, Valid, redis, process
  <2>1. TypeOK'
    BY DEF IInv, TypeOK, Results
  <2>2. Bookkeeping'
    BY NoneAssumption, RequestsAssumption DEF IInv, TypeOK, Bookkeeping, Active
  <2>3. CleanWatch'
    BY DEF IInv, TypeOK, CleanWatch, Bookkeeping
  <2>4. (CommittedIsHeld /\ OneCreator)'
    BY DEF IInv, TypeOK, CommittedIsHeld, OneCreator, Bookkeeping
  <2>5. (SeededBeforeServing /\ ServingIsSeeded /\ NoOversell)'
    BY DEF IInv, SeededBeforeServing, ServingIsSeeded, NoOversell
  <2>6. (AnswersMatchReservations /\ RefusalsStayTrue)'
    BY DEF IInv, TypeOK, Bookkeeping, AnswersMatchReservations, RefusalsStayTrue
  <2> QED
    BY <2>1, <2>2, <2>3, <2>4, <2>5, <2>6 DEF IInv
<1>2. CASE Watch(c)
  <2> USE <1>2 DEF Watch, process
  <2>1. TypeOK'
    BY DEF IInv, TypeOK
  <2>2. Bookkeeping'
    BY DEF IInv, TypeOK, Bookkeeping, Active
  <2>3. CleanWatch'
    BY DEF IInv, TypeOK, CleanWatch, Bookkeeping
  <2>4. (CommittedIsHeld /\ OneCreator /\ SeededBeforeServing /\ ServingIsSeeded
         /\ NoOversell /\ AnswersMatchReservations /\ RefusalsStayTrue)'
    BY DEF IInv, CommittedIsHeld, OneCreator, SeededBeforeServing,
       ServingIsSeeded, NoOversell, AnswersMatchReservations, RefusalsStayTrue
  <2> QED
    BY <2>1, <2>2, <2>3, <2>4 DEF IInv
<1>3. CASE ReadReservation(c)
  <2>1. c \in Active /\ txn[c] = "none"
    BY <1>3 DEF ReadReservation, Active, IInv, Bookkeeping
  <2>2. ASSUME resv[req[c].order] = None, pc' = [pc EXCEPT ![c] = "stock"],
               UNCHANGED <<redis, process, req, attempt, seen, result>>
        PROVE  IInv'
    <3> USE <2>2, <1>3 DEF ReadReservation, redis, process
    <3>1. TypeOK'
      BY DEF IInv, TypeOK
    <3>2. Bookkeeping'
      BY DEF IInv, TypeOK, Bookkeeping, Active
    <3>3. CleanWatch'
      BY DEF IInv, TypeOK, CleanWatch, Bookkeeping
    <3>4. (CommittedIsHeld /\ OneCreator /\ SeededBeforeServing /\ ServingIsSeeded
           /\ NoOversell /\ AnswersMatchReservations /\ RefusalsStayTrue)'
      BY DEF IInv, CommittedIsHeld, OneCreator, SeededBeforeServing,
         ServingIsSeeded, NoOversell, AnswersMatchReservations, RefusalsStayTrue
    <3> QED
      BY <3>1, <3>2, <3>3, <3>4 DEF IInv
  <2>3. ASSUME resv[req[c].order] = Fields(req[c]), Answer(c, "replayed")
        PROVE  IInv'
    BY <2>1, <2>3, AnswerInv DEF Results
  <2>4. ASSUME resv[req[c].order] \notin {None, Fields(req[c])},
               Answer(c, "conflict")
        PROVE  IInv'
    BY <2>1, <2>4, AnswerInv DEF Results
  <2> QED
    BY <1>3, <2>2, <2>3, <2>4 DEF ReadReservation
<1>4. CASE ReadStock(c)
  <2> DEFINE available == stock[req[c].sku]
  <2>1. c \in Active /\ txn[c] = "none" /\ pc[c] = "stock" /\ watch[c] # "none"
    BY <1>4 DEF ReadStock, Active, IInv, Bookkeeping
  <2>2. req[c] \in Requests /\ req[c].sku \in Skus /\ req[c].quantity \in Int
    BY <2>1, RequestsAssumption DEF IInv, TypeOK, Bookkeeping
  <2>3. ASSUME available = None, Answer(c, "unknown") PROVE IInv'
    <3>1. req[c].sku \notin SeedSkus
      BY <2>1, <2>3 DEF IInv, Bookkeeping, SeededBeforeServing, ServingIsSeeded,
         Active
    <3> QED
      BY <2>1, <2>3, <3>1, AnswerInv DEF Results
  <2>4. ASSUME available # None, ~Enough(available, req[c].quantity),
               Answer(c, "insufficient")
        PROVE  IInv'
    <3>1. available < req[c].quantity
      BY <2>2, <2>4 DEF Enough, IInv, TypeOK
    <3> QED
      BY <2>1, <2>4, <3>1, AnswerInv DEF Results
  <2>5. ASSUME available # None, Enough(available, req[c].quantity),
               seen' = [seen EXCEPT ![c] = available],
               txn' = [txn EXCEPT ![c] = "sent"],
               pc' = [pc EXCEPT ![c] = "await"],
               UNCHANGED <<stock, resv, watch, process, req, attempt, result>>
        PROVE  IInv'
    <3> USE <2>1, <2>2, <2>5 DEF process, Enough
    <3>1. TypeOK'
      BY DEF IInv, TypeOK
    <3>2. Bookkeeping'
      BY DEF IInv, TypeOK, Bookkeeping, Active
    <3>3. CleanWatch'
      BY DEF IInv, TypeOK, CleanWatch, Bookkeeping
    <3>4. (CommittedIsHeld /\ OneCreator)'
      BY DEF IInv, TypeOK, CommittedIsHeld, OneCreator
    <3>5. (SeededBeforeServing /\ ServingIsSeeded /\ NoOversell
           /\ AnswersMatchReservations /\ RefusalsStayTrue)'
      BY DEF IInv, SeededBeforeServing, ServingIsSeeded, NoOversell,
         AnswersMatchReservations, RefusalsStayTrue
    <3> QED
      BY <3>1, <3>2, <3>3, <3>4, <3>5 DEF IInv
  <2> QED
    BY <1>4, <2>3, <2>4, <2>5 DEF ReadStock
<1>5. CASE ReadExecReply(c)
  <2>1. c \in Active /\ pc[c] = "await"
    BY <1>5 DEF ReadExecReply, Active
  <2>2. ASSUME txn[c] = "committed", Answer(c, "created") PROVE IInv'
    <3>1. resv[req[c].order] = Fields(req[c])
      BY <2>2 DEF IInv, CommittedIsHeld
    <3> QED
      BY <2>1, <2>2, <3>1, AnswerInv DEF Results
  <2>3. ASSUME txn[c] = "aborted", Retry(c) PROVE IInv'
    <3> USE <2>1, <2>3 DEF Retry, MoreAttempts, process
    <3>1. TypeOK'
      BY DEF IInv, TypeOK, Results
    <3>2. Bookkeeping'
      BY DEF IInv, TypeOK, Bookkeeping, Active
    <3>3. CleanWatch'
      BY DEF IInv, TypeOK, CleanWatch, Bookkeeping
    <3>4. (CommittedIsHeld /\ OneCreator)'
      BY DEF IInv, TypeOK, CommittedIsHeld, OneCreator
    <3>5. (SeededBeforeServing /\ ServingIsSeeded /\ NoOversell
           /\ AnswersMatchReservations /\ RefusalsStayTrue)'
      BY DEF IInv, TypeOK, SeededBeforeServing, ServingIsSeeded, NoOversell,
         AnswersMatchReservations, RefusalsStayTrue
    <3> QED
      BY <3>1, <3>2, <3>3, <3>4, <3>5 DEF IInv
  <2> QED
    BY <1>5, <2>2, <2>3 DEF ReadExecReply
<1>6. CASE BackoffOver(c)
  <2> USE <1>6 DEF BackoffOver, redis, process
  <2>1. TypeOK'
    BY BoundsAssumption DEF IInv, TypeOK, Bookkeeping
  <2>2. Bookkeeping'
    BY DEF IInv, TypeOK, Bookkeeping, Active
  <2>3. CleanWatch'
    BY DEF IInv, TypeOK, CleanWatch, Bookkeeping
  <2>4. (CommittedIsHeld /\ OneCreator /\ SeededBeforeServing /\ ServingIsSeeded
         /\ NoOversell /\ AnswersMatchReservations /\ RefusalsStayTrue)'
    BY DEF IInv, CommittedIsHeld, OneCreator, SeededBeforeServing,
       ServingIsSeeded, NoOversell, AnswersMatchReservations, RefusalsStayTrue
  <2> QED
    BY <2>1, <2>2, <2>3, <2>4 DEF IInv
<1>7. CASE Fail(c)
  BY <1>7, AnswerInv DEF Fail, Results
<1> QED
  BY <1>1, <1>2, <1>3, <1>4, <1>5, <1>6, <1>7 DEF Handle, ReadError

\* The steps of Redis.  The one that matters is an EXEC that commits: its
\* watch is clean, so the order is free and the stock is what was read, and
\* every other transaction on either key stops being clean.
LEMMA CommitInv ==
    ASSUME IInv, NEW c \in Calls, Exec(c), watch[c] = "clean"
    PROVE  IInv'
<1> DEFINE o == req[c].order
           s == req[c].sku
           q == req[c].quantity
<1>1. /\ txn[c] = "sent"
      /\ stock' = [stock EXCEPT ![s] = seen[c] - q]
      /\ resv' = [resv EXCEPT ![o] = Fields(req[c])]
      /\ txn' = [txn EXCEPT ![c] = "committed"]
      /\ watch' = [d \in Calls |-> IF d = c THEN "none"
                                   ELSE IF SharesKey(c, d) THEN Dirtied(d)
                                   ELSE watch[d]]
      /\ UNCHANGED <<process, handlers>>
  BY DEF Exec
<1>2. /\ req[c] \in Requests /\ req[c] # None
      /\ o \in Orders /\ s \in Skus /\ q \in Int /\ q > 0
  BY <1>1, RequestsAssumption DEF IInv, TypeOK, Bookkeeping
<1>3. /\ resv[o] = None
      /\ stock[s] = seen[c] /\ seen[c] \in Int /\ seen[c] >= q
  BY <1>1 DEF IInv, CleanWatch, TypeOK
<1>4. Fields(req[c]) \in [sku : Skus, quantity : Int] /\ Fields(req[c]) # None
  BY <1>2, NoneAssumption DEF Fields
<1>5. \A d \in Calls : txn[d] = "committed" \/ result[d] \in {"created", "replayed", "conflict"}
        => req[d] # None /\ resv[req[d].order] # None /\ req[d].order # o
  <2> SUFFICES ASSUME NEW d \in Calls,
                      txn[d] = "committed" \/ result[d] \in {"created", "replayed", "conflict"}
               PROVE  req[d] # None /\ resv[req[d].order] # None /\ req[d].order # o
    OBVIOUS
  <2>1. req[d] # None /\ req[d] \in Requests
    BY DEF IInv, TypeOK, Bookkeeping
  <2>2. Fields(req[d]) # None
    BY <2>1, RequestsAssumption, NoneAssumption DEF Fields
  <2>3. resv[req[d].order] # None
    BY <2>2 DEF IInv, CommittedIsHeld, AnswersMatchReservations
  <2> QED
    BY <2>1, <2>3, <1>3
<1> HIDE DEF o, s, q
<1>6. TypeOK'
  BY <1>1, <1>2, <1>3, <1>4 DEF IInv, TypeOK, Dirtied, process, handlers, o, s, q
<1>7. Bookkeeping'
  BY <1>1, <1>2 DEF IInv, TypeOK, Bookkeeping, Dirtied, Active, process, handlers
<1>8. CleanWatch'
  <2> SUFFICES ASSUME NEW d \in Calls, watch'[d] = "clean"
               PROVE  /\ pc[d] = "stock" \/ txn'[d] = "sent" =>
                            resv'[req[d].order] = None
                      /\ txn'[d] = "sent" => /\ stock'[req[d].sku] = seen[d]
                                            /\ seen[d] >= req[d].quantity
    BY <1>1 DEF CleanWatch, process, handlers
  <2>1. d # c /\ ~SharesKey(c, d) /\ watch[d] = "clean" /\ txn'[d] = txn[d]
    BY <1>1 DEF Dirtied, IInv, TypeOK
  <2>2. req[d] # None
    BY <2>1 DEF IInv, Bookkeeping, TypeOK
  <2>3. req[d].sku # s /\ req[d].order # o
    BY <1>2, <2>1, <2>2 DEF SharesKey, s, o
  <2>4. stock'[req[d].sku] = stock[req[d].sku] /\ resv'[req[d].order] = resv[req[d].order]
    BY <1>1, <2>2, <2>3, RequestsAssumption DEF IInv, TypeOK
  <2> QED
    BY <2>1, <2>4 DEF IInv, CleanWatch
<1>9. CommittedIsHeld'
  BY <1>1, <1>2, <1>5, RequestsAssumption
     DEF IInv, TypeOK, CommittedIsHeld, process, handlers, o
<1>10. OneCreator'
  BY <1>1, <1>5 DEF IInv, TypeOK, OneCreator, process, handlers, o
<1>11. (SeededBeforeServing /\ ServingIsSeeded)'
  BY <1>1, <1>2, <1>3, NoneAssumption, SeedAssumption
     DEF IInv, TypeOK, SeededBeforeServing, ServingIsSeeded, process, handlers, s
<1>12. NoOversell'
  BY <1>1, <1>2, <1>3 DEF IInv, TypeOK, NoOversell
<1>13. AnswersMatchReservations'
  BY <1>1, <1>5, RequestsAssumption
     DEF IInv, TypeOK, AnswersMatchReservations, process, handlers, o
<1>14. RefusalsStayTrue'
  <2> SUFFICES ASSUME NEW d \in Calls, result[d] = "insufficient"
               PROVE  /\ stock'[req[d].sku] # None
                      /\ stock'[req[d].sku] < req[d].quantity
    BY <1>1 DEF IInv, RefusalsStayTrue, process, handlers
  <2>1. /\ req[d] \in Requests
        /\ stock[req[d].sku] # None /\ stock[req[d].sku] < req[d].quantity
    BY DEF IInv, TypeOK, Bookkeeping, RefusalsStayTrue
  <2>2. CASE req[d].sku = s
    BY <1>1, <1>2, <1>3, <2>1, <2>2, RequestsAssumption, NoneAssumption
       DEF IInv, TypeOK
  <2>3. CASE req[d].sku # s
    BY <1>1, <2>1, <2>3, RequestsAssumption DEF IInv, TypeOK
  <2> QED
    BY <2>2, <2>3
<1> QED
  BY <1>6, <1>7, <1>8, <1>9, <1>10, <1>11, <1>12, <1>13, <1>14 DEF IInv

LEMMA RedisInv ==
    ASSUME IInv, (\E c \in Calls : Exec(c) \/ LoseExec(c)) \/ RedisRestart
    PROVE  IInv'
<1>1. ASSUME NEW c \in Calls, Exec(c), watch[c] # "clean" PROVE IInv'
  <2> USE <1>1 DEF Exec, process, handlers
  <2>1. TypeOK' /\ Bookkeeping'
    BY DEF IInv, TypeOK, Bookkeeping, Active
  <2>2. CleanWatch'
    BY DEF IInv, TypeOK, CleanWatch
  <2>3. (CommittedIsHeld /\ OneCreator)'
    BY DEF IInv, TypeOK, CommittedIsHeld, OneCreator
  <2>4. (SeededBeforeServing /\ ServingIsSeeded /\ NoOversell
         /\ AnswersMatchReservations /\ RefusalsStayTrue)'
    BY DEF IInv, SeededBeforeServing, ServingIsSeeded, NoOversell,
       AnswersMatchReservations, RefusalsStayTrue
  <2> QED
    BY <2>1, <2>2, <2>3, <2>4 DEF IInv
<1>2. ASSUME NEW c \in Calls, LoseExec(c) PROVE IInv'
  <2> USE <1>2 DEF LoseExec, process, handlers
  <2>1. TypeOK' /\ Bookkeeping'
    BY DEF IInv, TypeOK, Bookkeeping, Active
  <2>2. CleanWatch'
    BY DEF IInv, TypeOK, CleanWatch
  <2>3. (CommittedIsHeld /\ OneCreator)'
    BY DEF IInv, TypeOK, CommittedIsHeld, OneCreator
  <2>4. (SeededBeforeServing /\ ServingIsSeeded /\ NoOversell
         /\ AnswersMatchReservations /\ RefusalsStayTrue)'
    BY DEF IInv, SeededBeforeServing, ServingIsSeeded, NoOversell,
       AnswersMatchReservations, RefusalsStayTrue
  <2> QED
    BY <2>1, <2>2, <2>3, <2>4 DEF IInv
<1>3. CASE RedisRestart
  <2> USE <1>3 DEF RedisRestart, Disconnect, process, handlers
  <2>1. TypeOK' /\ Bookkeeping' /\ CleanWatch'
    BY DEF IInv, TypeOK, Bookkeeping, Active, CleanWatch
  <2>2. (CommittedIsHeld /\ OneCreator)'
    BY DEF IInv, TypeOK, CommittedIsHeld, OneCreator
  <2>3. (SeededBeforeServing /\ ServingIsSeeded /\ NoOversell
         /\ AnswersMatchReservations /\ RefusalsStayTrue)'
    BY DEF IInv, SeededBeforeServing, ServingIsSeeded, NoOversell,
       AnswersMatchReservations, RefusalsStayTrue
  <2> QED
    BY <2>1, <2>2, <2>3 DEF IInv
<1> QED
  BY <1>1, <1>2, <1>3, CommitInv

LEMMA NextInv == IInv /\ [Next]_vars => IInv'
<1> SUFFICES ASSUME IInv, [Next]_vars PROVE IInv'
  OBVIOUS
<1>1. CASE Next
  BY <1>1, ProcessInv, HandlerInv, RedisInv DEF Next
<1>2. CASE UNCHANGED vars
  BY <1>2 DEF vars, redis, process, handlers, IInv, TypeOK, Bookkeeping, Active,
     CleanWatch, CommittedIsHeld, SeededBeforeServing, ServingIsSeeded,
     NoOversell, OneCreator, AnswersMatchReservations, RefusalsStayTrue
<1> QED
  BY <1>1, <1>2

\* The invariant holds in every reachable state.
THEOREM InductiveInvariant == Spec => []IInv
<1>1. Init => IInv
  BY InitInv
<1>2. IInv /\ [Next]_vars => IInv'
  BY NextInv
<1> QED
  BY <1>1, <1>2, PTL DEF Spec

\* The variables keep their types.
THEOREM TypeCorrect == Spec => []TypeOK
<1>1. IInv => TypeOK
  BY DEF IInv
<1> QED
  BY <1>1, InductiveInvariant, PTL

\* Competing reservations never drive a stock key below zero.
THEOREM NeverOversells == Spec => []NoOversell
<1>1. IInv => NoOversell
  BY DEF IInv
<1> QED
  BY <1>1, InductiveInvariant, PTL

\* Created, replayed and conflict answers agree with the reservations.
THEOREM AnswersAreTrue == Spec => []AnswersMatchReservations
<1>1. IInv => AnswersMatchReservations
  BY DEF IInv
<1> QED
  BY <1>1, InductiveInvariant, PTL

\* An order's reservation is created by one transaction at most.
THEOREM CreatedOnce == Spec => []OneCreator
<1>1. IInv => OneCreator
  BY DEF IInv
<1> QED
  BY <1>1, InductiveInvariant, PTL

\* Unknown and insufficient refusals stay justified for ever.
THEOREM RefusalsAreFinal == Spec => []RefusalsStayTrue
<1>1. IInv => RefusalsStayTrue
  BY DEF IInv
<1> QED
  BY <1>1, InductiveInvariant, PTL

-----------------------------------------------------------------------------
\* Only Seed, on an absent key, and a committing EXEC change the data.
LEMMA DataStep ==
    ASSUME [Next]_vars
    PROVE  \/ UNCHANGED <<stock, resv>>
           \/ \E s \in SeedSkus : SeedOne(s)
           \/ \E c \in Calls : Exec(c) /\ watch[c] = "clean"
BY DEF Next, vars, redis, process, handlers, Boot, SeedOne, Serve, Crash, Receive,
   Handle, Watch, ReadReservation, ReadStock, ReadExecReply, Retry, BackoffOver,
   ReadError, Fail, Answer, Exec, LoseExec, RedisRestart

\* An existing stock key moves only together with the reservation of an order
\* that had none, by its quantity; reservations appear only so, for good.
THEOREM WritesArePaired == Spec => PairedWrites
<1> DEFINE StockPaired ==
             \A s \in Skus :
                stock[s] # None /\ stock'[s] # stock[s] =>
                    \E o \in Orders : resv[o] = None /\ resv'[o] # None
                                      /\ resv'[o].sku = s
           ResvPaired ==
             \A o \in Orders :
                resv'[o] # resv[o] =>
                    /\ resv[o] = None
                    /\ stock[resv'[o].sku] # None
                    /\ stock'[resv'[o].sku] =
                           stock[resv'[o].sku] - resv'[o].quantity
<1>1. ASSUME IInv, [Next]_vars PROVE StockPaired /\ ResvPaired
  <2>1. CASE UNCHANGED <<stock, resv>>
    BY <2>1
  <2>2. ASSUME NEW s \in SeedSkus, SeedOne(s) PROVE StockPaired /\ ResvPaired
    BY <1>1, <2>2, SeedAssumption DEF SeedOne, IInv, TypeOK
  <2>3. ASSUME NEW c \in Calls, Exec(c), watch[c] = "clean"
        PROVE  StockPaired /\ ResvPaired
    <3> DEFINE o == req[c].order
               s == req[c].sku
    <3>1. /\ req[c] \in Requests
          /\ o \in Orders /\ s \in Skus /\ req[c].quantity \in Int
      BY <2>3, <1>1, RequestsAssumption DEF Exec, IInv, TypeOK, Bookkeeping
    <3>2. resv[o] = None /\ stock[s] = seen[c] /\ seen[c] \in Int
      BY <1>1, <2>3 DEF Exec, IInv, CleanWatch, TypeOK
    <3>3. /\ stock' = [stock EXCEPT ![s] = seen[c] - req[c].quantity]
          /\ resv' = [resv EXCEPT ![o] = Fields(req[c])]
      BY <2>3 DEF Exec
    <3>4. Fields(req[c]).sku = s /\ Fields(req[c]).quantity = req[c].quantity
      BY DEF Fields
    <3>5. Fields(req[c]) # None
      BY <3>1, NoneAssumption DEF Fields
    <3>6. resv'[o] = Fields(req[c]) /\ stock'[s] = seen[c] - req[c].quantity
      BY <1>1, <3>1, <3>3 DEF IInv, TypeOK
    <3>7. /\ \A p \in Orders : resv'[p] # resv[p] => p = o
          /\ \A t \in Skus : stock'[t] # stock[t] => t = s
      BY <1>1, <3>1, <3>3 DEF IInv, TypeOK
    <3>8. stock[s] # None
      BY <3>2, NoneAssumption
    <3> HIDE DEF o, s
    <3>9. StockPaired
      BY <3>1, <3>2, <3>4, <3>5, <3>6, <3>7
    <3>10. ResvPaired
      BY <3>2, <3>4, <3>6, <3>7, <3>8
    <3> QED
      BY <3>9, <3>10
  <2> QED
    BY <1>1, <2>1, <2>2, <2>3, DataStep
<1>2. IInv /\ [Next]_vars => [StockPaired /\ ResvPaired]_vars
  BY <1>1
<1> QED
  BY <1>2, InductiveInvariant, PTL DEF Spec, PairedWrites

-----------------------------------------------------------------------------
(* The retry limit is reached only by losing to MaxAttempts other calls.   *)

LEMMA WinnersFinite ==
    ASSUME IsFiniteSet(Committed), NEW c \in Calls
    PROVE  IsFiniteSet(Winners(c)) /\ Cardinality(Winners(c)) \in Nat
<1>1. Winners(c) \subseteq Committed
  BY DEF Winners, Committed
<1> QED
  BY <1>1, FS_Subset, FS_CardinalityType

LEMMA SetbacksInit == Init => SetbacksHaveWinners
<1> SUFFICES ASSUME Init PROVE SetbacksHaveWinners
  OBVIOUS
<1>1. Committed = {}
  BY DEF Init, Committed
<1>2. \A c \in Calls : c \notin Active /\ result[c] # "contention"
  BY DEF Init, Active
<1> QED
  BY <1>1, <1>2, FS_EmptySet DEF SetbacksHaveWinners

\* A step of c, or of another call or the process, that commits nothing.
LEMMA SetbacksQuiet ==
    ASSUME IInv, SetbacksHaveWinners, NEW c \in Calls, TypeOK',
           \A d \in Calls : /\ txn'[d] = "committed" <=> txn[d] = "committed"
                            /\ txn[d] = "committed" => req'[d] = req[d],
           req'[c] = req[c],
           c \in Active' => c \in Active /\ Setbacks(c)' <= Setbacks(c),
           result'[c] = "contention" =>
                \/ result[c] = "contention"
                \/ c \in Active /\ Setbacks(c) >= MaxAttempts
    PROVE  /\ c \in Active' => Cardinality(Winners(c)') >= Setbacks(c)'
           /\ result'[c] = "contention" => Cardinality(Winners(c)') >= MaxAttempts
<1>1. Winners(c)' = Winners(c)
  BY DEF Winners
<1>2. Cardinality(Winners(c)) \in Nat
  BY WinnersFinite DEF SetbacksHaveWinners
<1>3. Setbacks(c) \in Int /\ Setbacks(c)' \in Int /\ MaxAttempts \in Int
  BY BoundsAssumption DEF Setbacks, IInv, TypeOK
<1> QED
  BY <1>1, <1>2, <1>3 DEF SetbacksHaveWinners

\* The step that matters: d commits, and every call it makes dirty gains d as
\* a winner it had not lost to before.
LEMMA SetbacksCommit ==
    ASSUME IInv, SetbacksHaveWinners, NEW d \in Calls, Exec(d), watch[d] = "clean"
    PROVE  SetbacksHaveWinners'
<1>1. /\ txn[d] = "sent" /\ txn' = [txn EXCEPT ![d] = "committed"]
      /\ watch' = [c \in Calls |-> IF c = d THEN "none"
                                   ELSE IF SharesKey(d, c) THEN Dirtied(c)
                                   ELSE watch[c]]
      /\ UNCHANGED <<pc, req, attempt, result>>
  BY DEF Exec, handlers
<1>2. req[d] # None
  BY <1>1 DEF IInv, TypeOK, Bookkeeping
<1>3. Committed' = Committed \cup {d}
  BY <1>1 DEF Committed, IInv, TypeOK
<1>4. IsFiniteSet(Committed')
  BY <1>3, FS_AddElement DEF SetbacksHaveWinners
<1>5. ASSUME NEW c \in Calls
      PROVE  /\ c \in Active' => Cardinality(Winners(c)') >= Setbacks(c)'
             /\ result'[c] = "contention" => Cardinality(Winners(c)') >= MaxAttempts
  <2>1. /\ IsFiniteSet(Winners(c)) /\ Cardinality(Winners(c)) \in Nat
        /\ attempt[c] \in Nat /\ MaxAttempts \in Nat
    BY WinnersFinite, BoundsAssumption DEF SetbacksHaveWinners, IInv, TypeOK
  <2>2. Active' = Active
    BY <1>1 DEF Active
  <2>3. CASE c # d /\ SharesKey(d, c)
    <3>1. Winners(c)' = Winners(c) \cup {d} /\ d \notin Winners(c)
      BY <1>1, <1>2, <2>3 DEF Winners, SharesKey, IInv, TypeOK
    <3>2. Cardinality(Winners(c)') = Cardinality(Winners(c)) + 1
      BY <2>1, <3>1, FS_AddElement
    <3>3. Setbacks(c)' <= Setbacks(c) + 1 /\ Setbacks(c) \in Nat
      BY <1>1, <2>1 DEF Setbacks
    <3>4. Setbacks(c)' \in Nat
      BY <1>1, <2>1 DEF Setbacks
    <3> QED
      BY <1>1, <2>1, <2>2, <3>2, <3>3, <3>4 DEF SetbacksHaveWinners
  <2>4. CASE c = d \/ ~SharesKey(d, c)
    <3>1. Winners(c)' = Winners(c)
      BY <1>1, <1>2, <2>4 DEF Winners, SharesKey, IInv, TypeOK
    <3>2. Setbacks(c) \in Nat /\ Setbacks(c)' \in Nat
      BY <1>1, <2>1 DEF Setbacks
    <3>3. Setbacks(c)' <= Setbacks(c)
      BY <1>1, <2>1, <2>4 DEF Setbacks, IInv, TypeOK
    <3> QED
      BY <1>1, <2>1, <2>2, <3>1, <3>2, <3>3 DEF SetbacksHaveWinners
  <2> QED
    BY <2>3, <2>4
<1> QED
  BY <1>4, <1>5 DEF SetbacksHaveWinners

LEMMA SetbacksNext ==
    IInv /\ SetbacksHaveWinners /\ [Next]_vars => SetbacksHaveWinners'
<1> SUFFICES ASSUME IInv, SetbacksHaveWinners, [Next]_vars
             PROVE  SetbacksHaveWinners'
  OBVIOUS
<1> DEFINE Goal(c) ==
             /\ c \in Active' => Cardinality(Winners(c)') >= Setbacks(c)'
             /\ result'[c] = "contention" => Cardinality(Winners(c)') >= MaxAttempts
           Silent ==
             \A d \in Calls : /\ txn'[d] = "committed" <=> txn[d] = "committed"
                              /\ txn[d] = "committed" => req'[d] = req[d]
<1>1. TypeOK'
  BY NextInv DEF IInv
<1>2. ASSUME NEW d \in Calls, Exec(d), watch[d] = "clean"
      PROVE  SetbacksHaveWinners'
  BY <1>2, SetbacksCommit
<1>3. ASSUME Silent, \A c \in Calls : Goal(c)
      PROVE  SetbacksHaveWinners'
  <2>1. Committed' = Committed
    BY <1>3 DEF Committed
  <2> QED
    BY <1>3, <2>1 DEF SetbacksHaveWinners
<1>4. ASSUME Silent, NEW c \in Calls,
             req'[c] = req[c], attempt'[c] <= attempt[c], result'[c] = result[c],
             c \in Active' => c \in Active,
             \/ watch'[c] = "dirty" \/ txn'[c] = "aborted" \/ pc'[c] = "backoff" =>
                    watch[c] = "dirty" \/ txn[c] = "aborted" \/ pc[c] = "backoff"
      PROVE  Goal(c)
  <2>1. Setbacks(c)' <= Setbacks(c)
    BY <1>1, <1>4 DEF Setbacks, IInv, TypeOK
  <2> QED
    BY <1>1, <1>4, <2>1, SetbacksQuiet
<1>5. ASSUME Silent, NEW c \in Calls, c \notin Active', req'[c] = req[c],
             result'[c] \in {result[c], "none", "created", "replayed", "conflict",
                "insufficient", "unknown", "invalid", "unavailable", "lost"}
      PROVE  Goal(c)
  BY <1>1, <1>5, SetbacksQuiet
<1>6. CASE Boot \/ (\E s \in SeedSkus : SeedOne(s)) \/ Serve \/ Crash
  <2>1. Silent /\ req' = req
    BY <1>6 DEF Boot, SeedOne, Serve, Crash, redis, handlers
  <2>2. ASSUME NEW c \in Calls PROVE Goal(c)
    <3>1. CASE Serve \/ Boot
      BY <1>4, <2>1, <3>1 DEF Serve, Boot, redis, handlers, Active, IInv, TypeOK
    <3>2. CASE (\E s \in SeedSkus : SeedOne(s)) \/ Crash
      <4>1. c \notin Active' /\ result'[c] \in {result[c], "lost"}
        BY <3>2 DEF SeedOne, Crash, handlers, Active, IInv, TypeOK, Bookkeeping
      <4> QED
        BY <1>5, <2>1, <4>1
    <3> QED
      BY <1>6, <3>1, <3>2
  <2> QED
    BY <1>3, <2>1, <2>2
<1>7. ASSUME NEW d \in Calls, NEW r \in Requests, Receive(d, r)
      PROVE  SetbacksHaveWinners'
  <2>1. Silent /\ \A c \in Calls \ {d} : req'[c] = req[c]
    BY <1>7 DEF Receive, redis, IInv, TypeOK, Bookkeeping
  <2>2. ASSUME NEW c \in Calls \ {d} PROVE Goal(c)
    BY <1>4, <1>7, <2>1, <2>2 DEF Receive, redis, Active, IInv, TypeOK
  <2>3. Goal(d)
    <3>1. Winners(d)' \subseteq Committed
      BY <2>1 DEF Winners, Committed
    <3>2. Cardinality(Winners(d)') \in Nat
      BY <3>1, FS_Subset, FS_CardinalityType DEF SetbacksHaveWinners
    <3>3. d \in Active' => Setbacks(d)' = 0
      BY <1>7 DEF Receive, redis, Active, Setbacks, IInv, TypeOK, Bookkeeping
    <3>4. result'[d] # "contention"
      BY <1>7 DEF Receive, IInv, TypeOK, Bookkeeping
    <3> QED
      BY <3>2, <3>3, <3>4
  <2> QED
    BY <1>3, <2>1, <2>2, <2>3
<1>8. ASSUME NEW d \in Calls, NEW r \in Results \ {"contention"}, Answer(d, r)
      PROVE  SetbacksHaveWinners'
  <2>1. Silent /\ req' = req /\ attempt' = attempt
    BY <1>8 DEF Answer
  <2>2. ASSUME NEW c \in Calls PROVE Goal(c)
    <3>1. CASE c = d
      <4>1. c \notin Active' /\ result'[c] = r
        BY <1>8, <3>1 DEF Answer, Active, IInv, TypeOK
      <4> QED
        BY <1>5, <2>1, <4>1 DEF Results
    <3>2. CASE c # d
      BY <1>4, <1>8, <2>1, <3>2 DEF Answer, Active, IInv, TypeOK
    <3> QED
      BY <3>1, <3>2
  <2> QED
    BY <1>3, <2>1, <2>2
<1>9. ASSUME NEW d \in Calls, txn[d] = "aborted", pc[d] = "await", Retry(d)
      PROVE  SetbacksHaveWinners'
  <2>1. Silent /\ req' = req /\ attempt' = attempt
    BY <1>9 DEF Retry, IInv, TypeOK
  <2>2. ASSUME NEW c \in Calls PROVE Goal(c)
    <3>1. CASE c # d \/ MoreAttempts(d)
      BY <1>4, <1>9, <2>1, <3>1 DEF Retry, Active, IInv, TypeOK
    <3>2. CASE c = d /\ ~MoreAttempts(d)
      <4>1. c \in Active /\ c \notin Active'
        BY <1>9, <3>2 DEF Retry, Active, IInv, TypeOK
      <4>2. Setbacks(c) >= MaxAttempts
        BY <1>9, <3>2, BoundsAssumption DEF Setbacks, MoreAttempts, IInv, TypeOK
      <4> QED
        BY <1>1, <2>1, <4>1, <4>2, SetbacksQuiet
    <3> QED
      BY <3>1, <3>2
  <2> QED
    BY <1>3, <2>1, <2>2
<1>10. ASSUME NEW d \in Calls, BackoffOver(d) PROVE SetbacksHaveWinners'
  <2>1. Silent /\ req' = req
    BY <1>10 DEF BackoffOver, redis
  <2>2. ASSUME NEW c \in Calls PROVE Goal(c)
    <3>1. CASE c # d
      BY <1>4, <1>10, <2>1, <3>1 DEF BackoffOver, redis, Active, IInv, TypeOK
    <3>2. CASE c = d
      <4>1. c \in Active /\ Setbacks(c)' = Setbacks(c) /\ Setbacks(c) \in Int
        BY <1>10, <3>2 DEF BackoffOver, redis, Setbacks, Active, IInv, TypeOK,
           Bookkeeping
      <4>2. result' = result
        BY <1>10 DEF BackoffOver
      <4> QED
        BY <1>1, <2>1, <4>1, <4>2, SetbacksQuiet
    <3> QED
      BY <3>1, <3>2
  <2> QED
    BY <1>3, <2>1, <2>2
<1>11. ASSUME NEW d \in Calls,
              Watch(d) \/ LoseExec(d) \/ (Exec(d) /\ watch[d] # "clean")
       PROVE  SetbacksHaveWinners'
  <2>1. Silent /\ UNCHANGED <<req, attempt, result>>
    BY <1>11 DEF Watch, LoseExec, Exec, handlers, IInv, TypeOK
  <2>2. ASSUME NEW c \in Calls PROVE Goal(c)
    BY <1>4, <1>11, <2>1, <2>2 DEF Watch, LoseExec, Exec, handlers, Active, IInv,
       TypeOK, Bookkeeping
  <2> QED
    BY <1>3, <2>1, <2>2
<1>12. ASSUME NEW d \in Calls, d \in Active, txn[d] = "none",
              NEW p \in {"stock", "await"}, pc' = [pc EXCEPT ![d] = p],
              txn' = txn \/ txn' = [txn EXCEPT ![d] = "sent"],
              UNCHANGED <<watch, req, attempt, result>>
       PROVE  SetbacksHaveWinners'
  <2>1. Silent
    BY <1>12 DEF IInv, TypeOK
  <2>2. ASSUME NEW c \in Calls PROVE Goal(c)
    BY <1>4, <1>12, <2>1, <2>2 DEF Active, IInv, TypeOK
  <2> QED
    BY <1>3, <2>1, <2>2
<1>13. CASE RedisRestart \/ UNCHANGED vars
  <2>1. Silent /\ UNCHANGED <<req, attempt, result, pc>>
    BY <1>13 DEF RedisRestart, Disconnect, vars, redis, handlers
  <2>2. ASSUME NEW c \in Calls PROVE Goal(c)
    BY <1>4, <1>13, <2>1 DEF RedisRestart, Disconnect, vars, redis, handlers, Active,
       IInv, TypeOK
  <2> QED
    BY <1>3, <2>1, <2>2
<1> HIDE DEF Goal, Silent
<1>14. ASSUME NEW d \in Calls, ReadReservation(d) \/ ReadStock(d)
       PROVE  SetbacksHaveWinners'
  <2>1. d \in Active /\ txn[d] = "none"
    BY <1>14 DEF ReadReservation, ReadStock, Active, IInv, Bookkeeping
  <2>2. CASE \/ Answer(d, "replayed") \/ Answer(d, "conflict")
             \/ Answer(d, "unknown") \/ Answer(d, "insufficient")
    BY <1>8, <2>2 DEF Results
  <2>3. CASE /\ pc' = [pc EXCEPT ![d] = "stock"]
             /\ UNCHANGED <<txn, watch, req, attempt, result>>
    BY <1>12, <2>1, <2>3
  <2>4. CASE /\ pc' = [pc EXCEPT ![d] = "await"]
             /\ txn' = [txn EXCEPT ![d] = "sent"]
             /\ UNCHANGED <<watch, req, attempt, result>>
    BY <1>12, <2>1, <2>4
  <2> QED
    BY <1>14, <2>2, <2>3, <2>4 DEF ReadReservation, ReadStock, redis
<1>15. ASSUME NEW d \in Calls, ReadExecReply(d) \/ Fail(d)
       PROVE  SetbacksHaveWinners'
  BY <1>8, <1>9, <1>15 DEF ReadExecReply, Fail, Results
<1>16. ASSUME NEW d \in Calls, Handle(d) \/ Fail(d) PROVE SetbacksHaveWinners'
  BY <1>10, <1>11, <1>14, <1>15, <1>16 DEF Handle, ReadError
<1>17. ASSUME NEW d \in Calls, Exec(d) \/ LoseExec(d) PROVE SetbacksHaveWinners'
  BY <1>2, <1>11, <1>17
<1> QED
  BY <1>6, <1>7, <1>13, <1>16, <1>17 DEF Next

\* A call that runs out of attempts lost them to as many other calls.
THEOREM ContentionIsReal == Spec => []ContentionHasWinners
<1>1. Init => SetbacksHaveWinners
  BY SetbacksInit
<1>2. IInv /\ SetbacksHaveWinners /\ [Next]_vars => SetbacksHaveWinners'
  BY SetbacksNext
<1>3. SetbacksHaveWinners => ContentionHasWinners
  BY DEF SetbacksHaveWinners, ContentionHasWinners
<1> QED
  BY <1>1, <1>2, <1>3, InductiveInvariant, PTL DEF Spec

-----------------------------------------------------------------------------
(* Inventory implements OrderRegistry.                                     *)

\* The mapped verdicts, one call at a time.
LEMMA MappedInit == Init => Registry!Init
BY DEF Init, Registry!Init, Asked, Verdict

LEMMA MappedVars ==
    ASSUME UNCHANGED vars
    PROVE  UNCHANGED Registry!vars
BY DEF vars, redis, process, handlers, Registry!vars, Asked, Verdict

\* A step that moves no call's request or verdict and no reservation.
LEMMA Stutter ==
    ASSUME UNCHANGED resv,
           \A c \in Calls : Asked(c)' = Asked(c) /\ Verdict(c)' = Verdict(c)
    PROVE  UNCHANGED Registry!vars
BY DEF Registry!vars

\* A step of one call that leaves the reservations as they are.
LEMMA OneVerdict ==
    ASSUME NEW c \in Calls,
           UNCHANGED resv,
           \A d \in Calls : Asked(d)' = Asked(d),
           \A d \in Calls \ {c} : Verdict(d)' = Verdict(d),
           \/ /\ Verdict(c) \in {"pending", "written"}
              /\ Verdict(c)' = "accepted"
              /\ resv[Asked(c).order] = Asked(c).details
           \/ /\ Verdict(c) = "pending" /\ Verdict(c)' = "rejected"
              /\ resv[Asked(c).order] \notin {None, Asked(c).details}
           \/ Verdict(c) = "pending" /\ Verdict(c)' = "declined"
           \/ Verdict(c) \in {"pending", "written"} /\ Verdict(c)' = "unsure"
    PROVE  Registry!Next
<1> DEFINE A == [d \in Calls |-> Asked(d)]
           V == [d \in Calls |-> Verdict(d)]
<1>1. A' = A
  OBVIOUS
<1>2. V' = [V EXCEPT ![c] = Verdict(c)']
  OBVIOUS
<1>3. A[c] = Asked(c) /\ V[c] = Verdict(c)
  OBVIOUS
<1>4. Registry!Accept(c) \/ Registry!Reject(c) \/ Registry!Decline(c)
        \/ Registry!GiveUp(c)
  BY <1>1, <1>2, <1>3 DEF Registry!Accept, Registry!Reject, Registry!Decline,
     Registry!GiveUp
<1> QED
  BY <1>4 DEF Registry!Next

\* What the mapping makes of a call that Answer ends.
LEMMA AnswerMapped ==
    ASSUME IInv, NEW c \in Calls, c \in Active,
           NEW r \in Results \ {"none", "invalid"},
           Answer(c, r)
    PROVE  /\ UNCHANGED resv
           /\ \A d \in Calls : Asked(d)' = Asked(d)
           /\ \A d \in Calls \ {c} : Verdict(d)' = Verdict(d)
           /\ Asked(c) = [order |-> req[c].order, details |-> Fields(req[c])]
           /\ Verdict(c) = IF pc[c] = "await" /\ txn[c] = "committed"
                           THEN "written" ELSE "pending"
           /\ r \in {"created", "replayed"} => Verdict(c)' = "accepted"
           /\ r = "conflict" => Verdict(c)' = "rejected"
           /\ r \in {"insufficient", "unknown", "contention"} =>
                  Verdict(c)' = "declined"
           /\ r \in {"unavailable", "lost"} => Verdict(c)' = "unsure"
<1> USE DEF Answer, Active, process
<1>1. pc[c] \notin {"idle", "done"} /\ req[c] # None /\ result[c] = "none"
  BY DEF IInv, TypeOK, Bookkeeping
<1>2. /\ \A d \in Calls \ {c} : pc'[d] = pc[d] /\ result'[d] = result[d]
      /\ result'[c] = r
      /\ UNCHANGED <<resv, req, txn>>
  BY DEF IInv, TypeOK
<1>3. \A d \in Calls : Asked(d)' = Asked(d)
  BY <1>1, <1>2 DEF Asked
<1>4. \A d \in Calls \ {c} : Verdict(d)' = Verdict(d)
  BY <1>2 DEF Verdict
<1>5. Asked(c) = [order |-> req[c].order, details |-> Fields(req[c])]
  BY <1>1 DEF Asked
<1>6. Verdict(c) = IF pc[c] = "await" /\ txn[c] = "committed"
                  THEN "written" ELSE "pending"
  BY <1>1 DEF Verdict
<1>7. /\ r \in {"created", "replayed"} => Verdict(c)' = "accepted"
      /\ r = "conflict" => Verdict(c)' = "rejected"
      /\ r \in {"insufficient", "unknown", "contention"} => Verdict(c)' = "declined"
      /\ r \in {"unavailable", "lost"} => Verdict(c)' = "unsure"
  BY <1>2 DEF Verdict
<1> QED
  BY <1>2, <1>3, <1>4, <1>5, <1>6, <1>7

LEMMA MappedHandler ==
    ASSUME IInv, NEW c \in Calls,
           (\E r \in Requests : Receive(c, r)) \/ Handle(c) \/ Fail(c)
    PROVE  Registry!Next \/ UNCHANGED Registry!vars
<1>1. ASSUME NEW r \in Requests, Receive(c, r)
      PROVE  Registry!Next \/ UNCHANGED Registry!vars
  <2> USE <1>1 DEF Receive, redis, process
  <2>1. req[c] = None /\ result[c] = "none" /\ r # None /\ pc[c] = "idle"
    BY NoneAssumption DEF IInv, TypeOK, Bookkeeping
  <2>2. /\ \A d \in Calls \ {c} : /\ req'[d] = req[d] /\ pc'[d] = pc[d]
                                  /\ result'[d] = result[d]
        /\ req'[c] = r
        /\ UNCHANGED <<resv, txn>>
    BY DEF IInv, TypeOK
  <2>3. \A d \in Calls \ {c} : Asked(d)' = Asked(d) /\ Verdict(d)' = Verdict(d)
    BY <2>2 DEF Asked, Verdict
  <2>4. Asked(c) = None /\ Verdict(c) = "idle"
    BY <2>1 DEF Asked, Verdict
  <2>5. CASE Valid(r)
    <3> DEFINE a == [order |-> r.order, details |-> Fields(r)]
               A == [d \in Calls |-> Asked(d)]
               V == [d \in Calls |-> Verdict(d)]
    <3>1. result'[c] = "none" /\ pc'[c] = "attempt"
      BY <2>1, <2>5 DEF IInv, TypeOK
    <3>2. Asked(c)' = a /\ Verdict(c)' = "pending"
      BY <2>1, <2>2, <3>1 DEF Asked, Verdict
    <3>3. A' = [A EXCEPT ![c] = a] /\ V' = [V EXCEPT ![c] = "pending"]
      BY <2>3, <3>2
    <3>4. V[c] = "idle"
      BY <2>4
    <3>5. a \in Registry!Request
      BY RequestsAssumption DEF Registry!Request
    <3>6. Registry!Ask(c, a)
      BY <2>2, <3>3, <3>4 DEF Registry!Ask
    <3> QED
      BY <3>5, <3>6 DEF Registry!Next
  <2>6. CASE ~Valid(r)
    <3>1. result'[c] = "invalid"
      BY <2>6 DEF IInv, TypeOK
    <3>2. Asked(c)' = None /\ Verdict(c)' = "idle"
      BY <3>1 DEF Asked, Verdict
    <3> QED
      BY <2>2, <2>3, <2>4, <3>2, Stutter
  <2> QED
    BY <2>5, <2>6
<1>2. ASSUME NEW r \in Results \ {"none", "invalid", "lost"}, c \in Active, Answer(c, r),
             r \in {"created", "replayed"} => resv[req[c].order] = Fields(req[c]),
             r = "conflict" => resv[req[c].order] \notin {None, Fields(req[c])},
             r \in {"replayed", "conflict", "insufficient", "unknown"} =>
                txn[c] = "none",
             r # "contention"
      PROVE  Registry!Next
  BY <1>2, AnswerMapped, OneVerdict DEF Results
<1>3. ASSUME c \in Active, c \in Active', txn'[c] # "committed",
             ~(pc[c] = "await" /\ txn[c] = "committed"),
             UNCHANGED <<resv, req, result>>,
             \A d \in Calls \ {c} : pc'[d] = pc[d] /\ txn'[d] = txn[d]
      PROVE  UNCHANGED Registry!vars
  <2>1. result[c] = "none" /\ pc[c] # "idle" /\ pc'[c] # "idle"
    BY <1>3 DEF IInv, TypeOK, Bookkeeping, Active
  <2>2. \A d \in Calls : Asked(d)' = Asked(d) /\ Verdict(d)' = Verdict(d)
    BY <1>3, <2>1 DEF Asked, Verdict
  <2> QED
    BY <1>3, <2>2, Stutter
<1>4. CASE Watch(c)
  BY <1>3, <1>4 DEF Watch, Active, IInv, TypeOK, Bookkeeping, process
<1>5. CASE ReadReservation(c)
  <2>1. c \in Active /\ txn[c] = "none"
    BY <1>5 DEF ReadReservation, Active, IInv, Bookkeeping
  <2>2. CASE resv[req[c].order] = None /\ pc' = [pc EXCEPT ![c] = "stock"]
               /\ UNCHANGED <<redis, process, req, attempt, seen, result>>
    BY <1>3, <2>1, <2>2 DEF Active, IInv, TypeOK, redis
  <2>3. CASE resv[req[c].order] = Fields(req[c]) /\ Answer(c, "replayed")
    BY <1>2, <2>1, <2>3 DEF Results
  <2>4. CASE resv[req[c].order] \notin {None, Fields(req[c])}
               /\ Answer(c, "conflict")
    BY <1>2, <2>1, <2>4 DEF Results
  <2> QED
    BY <1>5, <2>2, <2>3, <2>4 DEF ReadReservation
<1>6. CASE ReadStock(c)
  <2>1. c \in Active /\ txn[c] = "none"
    BY <1>6 DEF ReadStock, Active, IInv, Bookkeeping
  <2>2. CASE Answer(c, "unknown") \/ Answer(c, "insufficient")
    BY <1>2, <2>1, <2>2 DEF Results
  <2>3. CASE /\ pc' = [pc EXCEPT ![c] = "await"]
             /\ txn' = [txn EXCEPT ![c] = "sent"]
             /\ UNCHANGED <<resv, req, result>>
    BY <1>3, <2>1, <2>3 DEF Active, IInv, TypeOK
  <2> QED
    BY <1>6, <2>2, <2>3 DEF ReadStock
<1>7. CASE ReadExecReply(c)
  <2>1. c \in Active /\ pc[c] = "await"
    BY <1>7 DEF ReadExecReply, Active
  <2>2. CASE txn[c] = "committed" /\ Answer(c, "created")
    BY <1>2, <2>1, <2>2 DEF Results, IInv, CommittedIsHeld
  <2>3. CASE txn[c] = "aborted" /\ Retry(c)
    <3> USE <2>1, <2>3 DEF Retry, process
    <3>1. CASE MoreAttempts(c)
      BY <1>3, <3>1 DEF Active, IInv, TypeOK
    <3>2. CASE ~MoreAttempts(c)
      <4>1. req[c] # None /\ result[c] = "none"
        BY DEF IInv, TypeOK, Bookkeeping
      <4>2. /\ \A d \in Calls \ {c} : /\ txn'[d] = txn[d] /\ pc'[d] = pc[d]
                                      /\ result'[d] = result[d]
            /\ result'[c] = "contention"
            /\ UNCHANGED <<resv, req>>
        BY <3>2 DEF IInv, TypeOK
      <4>3. \A d \in Calls : Asked(d)' = Asked(d)
        BY <4>1, <4>2 DEF Asked
      <4>4. \A d \in Calls \ {c} : Verdict(d)' = Verdict(d)
        BY <4>2 DEF Verdict
      <4>5. Verdict(c) = "pending" /\ Verdict(c)' = "declined"
        BY <4>1, <4>2 DEF Verdict
      <4> QED
        BY <4>2, <4>3, <4>4, <4>5, OneVerdict
    <3> QED
      BY <3>1, <3>2
  <2> QED
    BY <1>7, <2>2, <2>3 DEF ReadExecReply
<1>8. CASE BackoffOver(c)
  BY <1>3, <1>8 DEF BackoffOver, Active, IInv, TypeOK, Bookkeeping, redis
<1>9. CASE Fail(c)
  BY <1>2, <1>9 DEF Fail, Results
<1> QED
  BY <1>1, <1>4, <1>5, <1>6, <1>7, <1>8, <1>9 DEF Handle, ReadError

LEMMA MappedProcess ==
    ASSUME IInv, Boot \/ (\E s \in SeedSkus : SeedOne(s)) \/ Serve \/ Crash
    PROVE  Registry!Next \/ UNCHANGED Registry!vars
<1>1. CASE Boot \/ (\E s \in SeedSkus : SeedOne(s)) \/ Serve
  BY <1>1 DEF Boot, SeedOne, Serve, redis, handlers, Registry!vars, Asked, Verdict
<1>2. CASE Crash
  <2> DEFINE V == [c \in Calls |-> Verdict(c)]
             A == [c \in Calls |-> Asked(c)]
  <2>1. ASSUME NEW c \in Calls
        PROVE  /\ Asked(c)' = Asked(c)
               /\ Verdict(c)' = IF Verdict(c) \in {"pending", "written"}
                                THEN "unsure" ELSE Verdict(c)
    <3>1. CASE c \in Active
      <4>1. /\ result[c] = "none" /\ pc[c] # "idle"
            /\ result'[c] = "lost" /\ req' = req
        BY <1>2, <3>1 DEF Crash, Active, IInv, TypeOK, Bookkeeping
      <4> QED
        BY <4>1 DEF Asked, Verdict
    <3>2. CASE c \notin Active
      <4>1. /\ result[c] = "none" => pc[c] = "idle"
            /\ pc'[c] = pc[c] /\ result'[c] = result[c]
            /\ UNCHANGED <<req, txn>>
        BY <1>2, <3>2 DEF Crash, Active, IInv, TypeOK, Bookkeeping
      <4>2. Verdict(c) \notin {"pending", "written"}
        BY <4>1 DEF Verdict
      <4> QED
        BY <4>1, <4>2 DEF Asked, Verdict
    <3> QED
      BY <3>1, <3>2
  <2>2. A' = A
    BY <2>1
  <2>3. V' = [c \in Calls |-> IF V[c] \in {"pending", "written"}
                              THEN "unsure" ELSE V[c]]
    BY <2>1
  <2>4. Registry!Outage
    BY <1>2, <2>2, <2>3 DEF Registry!Outage, Crash
  <2> QED
    BY <2>4 DEF Registry!Next
<1> QED
  BY <1>1, <1>2

\* A committing EXEC is the write of the registry, even when the call that
\* sent it was given up; what else Redis does is invisible.
LEMMA MappedRedis ==
    ASSUME IInv, (\E c \in Calls : Exec(c) \/ LoseExec(c)) \/ RedisRestart
    PROVE  Registry!Next \/ UNCHANGED Registry!vars
<1>1. ASSUME NEW c \in Calls, Exec(c), watch[c] = "clean"
      PROVE  Registry!Next
  <2> DEFINE V == [d \in Calls |-> Verdict(d)]
             A == [d \in Calls |-> Asked(d)]
  <2>1. /\ resv' = [resv EXCEPT ![req[c].order] = Fields(req[c])]
        /\ txn[c] = "sent" /\ txn' = [txn EXCEPT ![c] = "committed"]
        /\ UNCHANGED <<pc, req, result>>
    BY <1>1 DEF Exec, handlers
  <2>2. /\ req[c] # None /\ pc[c] # "idle"
        /\ pc[c] = "await" \/ result[c] \in {"unavailable", "lost"}
        /\ pc[c] = "done" <=> result[c] # "none"
    BY <2>1 DEF IInv, TypeOK, Bookkeeping
  <2>3. resv[req[c].order] = None
    BY <1>1, <2>1 DEF IInv, CleanWatch
  <2>4. A[c] = [order |-> req[c].order, details |-> Fields(req[c])]
    BY <2>2 DEF Asked
  <2>5. A' = A
    BY <2>1 DEF Asked
  <2>6. \A d \in Calls \ {c} : Verdict(d)' = Verdict(d)
    BY <2>1 DEF Verdict, IInv, TypeOK
  <2>7. \/ Verdict(c) = "pending" /\ Verdict(c)' = "written"
        \/ Verdict(c) = "unsure" /\ Verdict(c)' = "unsure"
    BY <2>1, <2>2 DEF Verdict, IInv, TypeOK
  <2>8. /\ V[c] \in {"pending", "unsure"}
        /\ V' = [V EXCEPT ![c] = IF V[c] = "pending" THEN "written" ELSE V[c]]
    BY <2>6, <2>7
  <2>9. A[c].order = req[c].order /\ A[c].details = Fields(req[c])
    BY <2>4
  <2>10. /\ resv[A[c].order] = None
         /\ resv' = [resv EXCEPT ![A[c].order] = A[c].details]
    BY <2>1, <2>3, <2>9
  <2>11. Registry!Write(c)
    BY <2>5, <2>8, <2>10 DEF Registry!Write
  <2> QED
    BY <2>11 DEF Registry!Next
<1>2. ASSUME NEW c \in Calls, (Exec(c) /\ watch[c] # "clean") \/ LoseExec(c)
      PROVE  UNCHANGED Registry!vars
  <2>1. /\ txn[c] = "sent" /\ txn'[c] # "committed"
        /\ \A d \in Calls \ {c} : txn'[d] = txn[d]
        /\ UNCHANGED <<resv, pc, req, result>>
    BY <1>2 DEF Exec, LoseExec, handlers, IInv, TypeOK
  <2>2. \A d \in Calls : Asked(d)' = Asked(d) /\ Verdict(d)' = Verdict(d)
    BY <2>1 DEF Asked, Verdict
  <2> QED
    BY <2>1, <2>2, Stutter
<1>3. CASE RedisRestart
  <2>1. /\ \A d \in Calls : txn'[d] = "committed" <=> txn[d] = "committed"
        /\ UNCHANGED <<resv, pc, req, result>>
    BY <1>3 DEF RedisRestart, Disconnect, handlers
  <2>2. \A d \in Calls : Asked(d)' = Asked(d) /\ Verdict(d)' = Verdict(d)
    BY <2>1 DEF Asked, Verdict
  <2> QED
    BY <2>1, <2>2, Stutter
<1> QED
  BY <1>1, <1>2, <1>3

\* Seen from its callers, Inventory is a registry of write-once records.
THEOREM ImplementsRegistry == Spec => RefinesRegistry
<1>1. Init => Registry!Init
  BY MappedInit
<1>2. IInv /\ [Next]_vars => [Registry!Next]_Registry!vars
  <2> SUFFICES ASSUME IInv, [Next]_vars
               PROVE  Registry!Next \/ UNCHANGED Registry!vars
    OBVIOUS
  <2>1. CASE Next
    BY <2>1, MappedProcess, MappedHandler, MappedRedis DEF Next
  <2>2. CASE UNCHANGED vars
    BY <2>2, MappedVars
  <2> QED
    BY <2>1, <2>2
<1> QED
  BY <1>1, <1>2, InductiveInvariant, PTL DEF Spec, RefinesRegistry, Registry!Spec

-----------------------------------------------------------------------------
(* Durability: what holds although the host may fail.                      *)

LEMMA AnswerConnected ==
    ASSUME Connected, NEW c \in Calls, c \in Active,
           NEW r \in Results \ {"none", "invalid"},
           Answer(c, r),
           txn[c] # "none" => \/ r \in {"unavailable", "lost"}
                              \/ r = "created" /\ txn[c] = "committed"
    PROVE  Connected'
<1> USE DEF Answer, process, Active, Connected
<1>1. TypeOK'
  BY DEF TypeOK
<1>2. Bookkeeping'
  BY DEF TypeOK, Bookkeeping
<1>3. CleanWatch'
  BY DEF TypeOK, CleanWatch, Bookkeeping
<1> QED
  BY <1>1, <1>2, <1>3

LEMMA ProcessConnected ==
    ASSUME Connected, Boot \/ (\E s \in SeedSkus : SeedOne(s)) \/ Serve \/ Crash
    PROVE  Connected'
<1> USE DEF Connected
<1>1. CASE Boot \/ Serve
  BY <1>1 DEF Boot, Serve, TypeOK, Bookkeeping, CleanWatch, redis, handlers, Active
<1>2. ASSUME NEW s \in SeedSkus, SeedOne(s) PROVE Connected'
  <2> USE <1>2 DEF SeedOne, handlers
  <2>1. TypeOK'
    BY SeedAssumption DEF TypeOK, Dirtied
  <2>2. Bookkeeping'
    BY DEF TypeOK, Bookkeeping, Active, Dirtied
  <2>3. CleanWatch'
    BY NoneAssumption, SeedAssumption, RequestsAssumption
       DEF TypeOK, CleanWatch, Bookkeeping, Dirtied
  <2> QED
    BY <2>1, <2>2, <2>3
<1>3. CASE Crash
  <2> USE <1>3 DEF Crash, Active
  <2>1. TypeOK'
    BY DEF TypeOK, Results
  <2>2. Bookkeeping'
    BY DEF TypeOK, Bookkeeping
  <2>3. CleanWatch'
    BY DEF TypeOK, CleanWatch, Bookkeeping
  <2> QED
    BY <2>1, <2>2, <2>3
<1> QED
  BY <1>1, <1>2, <1>3

LEMMA HandlerConnected ==
    ASSUME Connected, NEW c \in Calls,
           (\E r \in Requests : Receive(c, r)) \/ Handle(c) \/ Fail(c)
    PROVE  Connected'
<1> USE DEF Connected
<1>1. ASSUME NEW r \in Requests, Receive(c, r) PROVE Connected'
  <2> USE <1>1 DEF Receive, Valid, redis, process
  <2>1. TypeOK'
    BY DEF TypeOK, Results
  <2>2. Bookkeeping'
    BY NoneAssumption, RequestsAssumption DEF TypeOK, Bookkeeping, Active
  <2>3. CleanWatch'
    BY DEF TypeOK, CleanWatch, Bookkeeping
  <2> QED
    BY <2>1, <2>2, <2>3
<1>2. CASE Watch(c)
  <2> USE <1>2 DEF Watch, process
  <2>1. TypeOK'
    BY DEF TypeOK
  <2>2. Bookkeeping'
    BY DEF TypeOK, Bookkeeping, Active
  <2>3. CleanWatch'
    BY DEF TypeOK, CleanWatch, Bookkeeping
  <2> QED
    BY <2>1, <2>2, <2>3
<1>3. CASE ReadReservation(c)
  <2>1. c \in Active /\ txn[c] = "none"
    BY <1>3 DEF ReadReservation, Active, Bookkeeping
  <2>2. ASSUME resv[req[c].order] = None, pc' = [pc EXCEPT ![c] = "stock"],
               UNCHANGED <<redis, process, req, attempt, seen, result>>
        PROVE  Connected'
    <3> USE <2>2, <1>3 DEF ReadReservation, redis, process
    <3>1. TypeOK'
      BY DEF TypeOK
    <3>2. Bookkeeping'
      BY DEF TypeOK, Bookkeeping, Active
    <3>3. CleanWatch'
      BY DEF TypeOK, CleanWatch, Bookkeeping
    <3> QED
      BY <3>1, <3>2, <3>3
  <2>3. ASSUME Answer(c, "replayed") \/ Answer(c, "conflict")
        PROVE  Connected'
    BY <2>1, <2>3, AnswerConnected DEF Results
  <2> QED
    BY <1>3, <2>2, <2>3 DEF ReadReservation
<1>4. CASE ReadStock(c)
  <2> DEFINE available == stock[req[c].sku]
  <2>1. c \in Active /\ txn[c] = "none" /\ pc[c] = "stock" /\ watch[c] # "none"
    BY <1>4 DEF ReadStock, Active, Bookkeeping
  <2>2. req[c] \in Requests /\ req[c].sku \in Skus /\ req[c].quantity \in Int
    BY <2>1, RequestsAssumption DEF TypeOK, Bookkeeping
  <2>3. ASSUME Answer(c, "unknown") \/ Answer(c, "insufficient")
        PROVE  Connected'
    BY <2>1, <2>3, AnswerConnected DEF Results
  <2>4. ASSUME available # None, Enough(available, req[c].quantity),
               seen' = [seen EXCEPT ![c] = available],
               txn' = [txn EXCEPT ![c] = "sent"],
               pc' = [pc EXCEPT ![c] = "await"],
               UNCHANGED <<stock, resv, watch, process, req, attempt, result>>
        PROVE  Connected'
    <3> USE <2>1, <2>2, <2>4 DEF process, Enough
    <3>1. TypeOK'
      BY DEF TypeOK
    <3>2. Bookkeeping'
      BY DEF TypeOK, Bookkeeping, Active
    <3>3. CleanWatch'
      BY DEF TypeOK, CleanWatch, Bookkeeping
    <3> QED
      BY <3>1, <3>2, <3>3
  <2> QED
    BY <1>4, <2>3, <2>4 DEF ReadStock
<1>5. CASE ReadExecReply(c)
  <2>1. c \in Active /\ pc[c] = "await"
    BY <1>5 DEF ReadExecReply, Active
  <2>2. ASSUME txn[c] = "committed", Answer(c, "created") PROVE Connected'
    BY <2>1, <2>2, AnswerConnected DEF Results
  <2>3. ASSUME txn[c] = "aborted", Retry(c) PROVE Connected'
    <3> USE <2>1, <2>3 DEF Retry, MoreAttempts, process
    <3>1. TypeOK'
      BY DEF TypeOK, Results
    <3>2. Bookkeeping'
      BY DEF TypeOK, Bookkeeping, Active
    <3>3. CleanWatch'
      BY DEF TypeOK, CleanWatch, Bookkeeping
    <3> QED
      BY <3>1, <3>2, <3>3
  <2> QED
    BY <1>5, <2>2, <2>3 DEF ReadExecReply
<1>6. CASE BackoffOver(c)
  <2> USE <1>6 DEF BackoffOver, redis, process
  <2>1. TypeOK'
    BY BoundsAssumption DEF TypeOK, Bookkeeping
  <2>2. Bookkeeping'
    BY DEF TypeOK, Bookkeeping, Active
  <2>3. CleanWatch'
    BY DEF TypeOK, CleanWatch, Bookkeeping
  <2> QED
    BY <2>1, <2>2, <2>3
<1>7. CASE Fail(c)
  BY <1>7, AnswerConnected DEF Fail, Results
<1> QED
  BY <1>1, <1>2, <1>3, <1>4, <1>5, <1>6, <1>7 DEF Handle, ReadError

\* A commit writes an order that is free; the stock does not go negative.
LEMMA CommitConnected ==
    ASSUME Connected, NEW c \in Calls, Exec(c), watch[c] = "clean"
    PROVE  /\ Connected'
           /\ resv[req[c].order] = None
           /\ resv' = [resv EXCEPT ![req[c].order] = Fields(req[c])]
           /\ NoOversell => NoOversell'
<1> DEFINE o == req[c].order
           s == req[c].sku
           q == req[c].quantity
<1>1. /\ txn[c] = "sent"
      /\ stock' = [stock EXCEPT ![s] = seen[c] - q]
      /\ resv' = [resv EXCEPT ![o] = Fields(req[c])]
      /\ txn' = [txn EXCEPT ![c] = "committed"]
      /\ watch' = [d \in Calls |-> IF d = c THEN "none"
                                   ELSE IF SharesKey(c, d) THEN Dirtied(d)
                                   ELSE watch[d]]
      /\ UNCHANGED <<process, handlers>>
  BY DEF Exec
<1>2. /\ req[c] \in Requests /\ req[c] # None
      /\ o \in Orders /\ s \in Skus /\ q \in Int /\ q > 0
  BY <1>1, RequestsAssumption DEF Connected, TypeOK, Bookkeeping
<1>3. resv[o] = None /\ seen[c] \in Int /\ seen[c] >= q
  BY <1>1 DEF Connected, CleanWatch, TypeOK
<1>4. Fields(req[c]) \in [sku : Skus, quantity : Int]
  BY <1>2 DEF Fields
<1> HIDE DEF o, s, q
<1>5. TypeOK'
  BY <1>1, <1>2, <1>3, <1>4
     DEF Connected, TypeOK, Dirtied, process, handlers, o, s, q
<1>6. Bookkeeping'
  BY <1>1, <1>2
     DEF Connected, TypeOK, Bookkeeping, Dirtied, Active, process, handlers
<1>7. CleanWatch'
  <2> SUFFICES ASSUME NEW d \in Calls, watch'[d] = "clean"
               PROVE  /\ pc[d] = "stock" \/ txn'[d] = "sent" =>
                            resv'[req[d].order] = None
                      /\ txn'[d] = "sent" => /\ stock'[req[d].sku] = seen[d]
                                            /\ seen[d] >= req[d].quantity
    BY <1>1 DEF CleanWatch, process, handlers
  <2>1. d # c /\ ~SharesKey(c, d) /\ watch[d] = "clean" /\ txn'[d] = txn[d]
    BY <1>1 DEF Dirtied, Connected, TypeOK
  <2>2. req[d] # None
    BY <2>1 DEF Connected, Bookkeeping, TypeOK
  <2>3. req[d].sku # s /\ req[d].order # o
    BY <1>2, <2>1, <2>2 DEF SharesKey, s, o
  <2>4. /\ stock'[req[d].sku] = stock[req[d].sku]
        /\ resv'[req[d].order] = resv[req[d].order]
    BY <1>1, <2>2, <2>3, RequestsAssumption DEF Connected, TypeOK
  <2> QED
    BY <2>1, <2>4 DEF Connected, CleanWatch
<1>8. NoOversell => NoOversell'
  BY <1>1, <1>2, <1>3 DEF Connected, TypeOK, NoOversell
<1> QED
  BY <1>1, <1>3, <1>5, <1>6, <1>7, <1>8 DEF Connected, o

LEMMA RedisConnected ==
    ASSUME Connected, (\E c \in Calls : Exec(c) \/ LoseExec(c)) \/ RedisRestart
    PROVE  Connected'
<1> USE DEF Connected
<1>1. ASSUME NEW c \in Calls, (Exec(c) /\ watch[c] # "clean") \/ LoseExec(c)
      PROVE  Connected'
  <2> USE <1>1 DEF Exec, LoseExec, process, handlers
  <2>1. TypeOK' /\ Bookkeeping'
    BY DEF TypeOK, Bookkeeping, Active
  <2>2. CleanWatch'
    BY DEF TypeOK, CleanWatch
  <2> QED
    BY <2>1, <2>2
<1>2. CASE RedisRestart
  BY <1>2 DEF RedisRestart, Disconnect, process, handlers, TypeOK, Bookkeeping,
     Active, CleanWatch
<1> QED
  BY <1>1, <1>2, CommitConnected

LEMMA NextConnected == Connected /\ [Next]_vars => Connected'
<1>1. CASE UNCHANGED vars
  BY <1>1 DEF vars, redis, process, handlers, Connected, TypeOK, Bookkeeping,
     Active, CleanWatch
<1> QED
  BY <1>1, ProcessConnected, HandlerConnected, RedisConnected DEF Next

\* Whatever the step, a reservation that is held stays as it is.
LEMMA HeldStays ==
    ASSUME Connected, NoOversell, [Next]_vars
    PROVE  /\ NoOversell'
           /\ \A o \in Orders : resv[o] # None => resv'[o] = resv[o]
<1>1. CASE UNCHANGED <<stock, resv>>
  BY <1>1 DEF NoOversell
<1>2. ASSUME NEW s \in SeedSkus, SeedOne(s)
      PROVE  NoOversell' /\ resv' = resv
  BY <1>2, SeedAssumption DEF SeedOne, Connected, TypeOK, NoOversell
<1>3. ASSUME NEW c \in Calls, Exec(c) /\ watch[c] = "clean"
      PROVE  NoOversell' /\ \A o \in Orders : resv[o] # None => resv'[o] = resv[o]
  BY <1>3, CommitConnected DEF Connected, TypeOK
<1>4. \/ UNCHANGED <<stock, resv>>
      \/ \E s \in SeedSkus : SeedOne(s)
      \/ \E c \in Calls : Exec(c) /\ watch[c] = "clean"
  BY DataStep
<1> QED
  BY <1>1, <1>2, <1>3, <1>4

LEMMA LossyInvInit == LossyInit => DurabilityInv
<1> SUFFICES ASSUME LossyInit PROVE DurabilityInv
  OBVIOUS
<1>1. Connected /\ NoOversell
  BY InitInv DEF LossyInit, IInv, Connected
<1> QED
  BY <1>1 DEF LossyInit, Init, DurabilityInv, DiskIsHeld

LEMMA LossyInvNext ==
    ASSUME DurabilityInv, [LossyNext]_lossyVars
    PROVE  /\ DurabilityInv'
           /\ \A o \in Orders : diskResv[o] # None =>
                  diskResv'[o] = diskResv[o] /\ resv'[o] = diskResv[o]
<1> USE DEF DurabilityInv
<1>1. CASE [Next]_vars /\ UNCHANGED disk
  BY <1>1, NextConnected, HeldStays DEF disk, DiskIsHeld
<1>2. CASE Fsync
  <2>1. Connected'
    BY <1>2, NextConnected DEF Fsync
  <2> QED
    BY <1>2, <2>1
       DEF Fsync, vars, redis, Connected, TypeOK, NoOversell, DiskIsHeld
<1>3. CASE HostFailure
  <2> USE <1>3 DEF HostFailure, Disconnect, process, handlers, disk
  <2>1. Connected'
    BY DEF Connected, TypeOK, Bookkeeping, Active, CleanWatch
  <2>2. NoOversell'
    BY DEF NoOversell
  <2> QED
    BY <2>1, <2>2 DEF DiskIsHeld
<1> QED
  BY <1>1, <1>2, <1>3 DEF LossyNext, lossyVars

\* The invariant holds although the host of Redis may fail at any moment.
THEOREM LossyInvariant == LossySpec => []DurabilityInv
<1>1. DurabilityInv /\ [LossyNext]_lossyVars => DurabilityInv'
  BY LossyInvNext
<1> QED
  BY <1>1, LossyInvInit, PTL DEF LossySpec

\* A failure of the host never makes Inventory sell more than there is.
THEOREM NeverOversellsAcrossLoss == LossySpec => []NoOversell
<1>1. DurabilityInv => NoOversell
  BY DEF DurabilityInv
<1> QED
  BY <1>1, LossyInvariant, PTL

\* A reservation that reached the disk is never lost or changed.
THEOREM DurableReservationsAreFinal == LossySpec => DurableReservationsStay
<1> DEFINE Stays == \A o \in Orders :
                        diskResv[o] # None =>
                            /\ diskResv'[o] = diskResv[o]
                            /\ resv'[o] = diskResv[o]
<1>1. DurabilityInv /\ [LossyNext]_lossyVars => Stays
  BY LossyInvNext
<1>2. [](DurabilityInv) /\ [][LossyNext]_lossyVars => [][Stays]_lossyVars
  BY <1>1, PTL
<1> QED
  BY <1>2, LossyInvariant, PTL DEF LossySpec, DurableReservationsStay

-----------------------------------------------------------------------------
(* Sums over finite sets.  Total is the recursive function that the sum of *)
(* the model is defined by; induction is by the smallest counterexample.   *)

Pick(T) == CHOOSE o \in T : TRUE

IsSum(g, rv, S) ==
    g = [T \in SUBSET S |-> IF T = {} THEN 0
                            ELSE rv[Pick(T)].quantity + g[T \ {Pick(T)}]]

Total(rv, S) == (CHOOSE g : IsSum(g, rv, S))[S]

LEMMA UnitsHeldIsTotal ==
    ASSUME NEW rv, NEW s
    PROVE  UnitsHeld(rv, s) = Total(rv, Holding(rv, s))
BY DEF UnitsHeld, MapThenSumSet, MapThenFoldSet, Total, IsSum, Pick

LEMMA SmallestSubset ==
    ASSUME NEW S, IsFiniteSet(S), NEW F \in SUBSET (SUBSET S), F # {}
    PROVE  \E T \in F : \A U \in F : U \subseteq T => U = T
<1>1. F \subseteq FiniteSubsetsOf(S)
  BY FS_FiniteSubsetsOfFinite
<1>2. PICK T \in F : \A U \in F : <<U, T>> \notin StrictSubsetOrdering(S)
  BY <1>1, FS_StrictSubsetOrderingWellFounded, WFMin
<1>3. \A U \in F : U \subseteq T => U = T
  BY <1>2 DEF StrictSubsetOrdering
<1> QED
  BY <1>3

LEMMA PickIn ==
    ASSUME NEW T, T # {}
    PROVE  Pick(T) \in T
BY DEF Pick

LEMMA SumValue ==
    ASSUME NEW S, NEW g, NEW rv, IsSum(g, rv, S), NEW T \in SUBSET S
    PROVE  g[T] = IF T = {} THEN 0
                  ELSE rv[Pick(T)].quantity + g[T \ {Pick(T)}]
<1> DEFINE e(U) == IF U = {} THEN 0
                   ELSE rv[Pick(U)].quantity + g[U \ {Pick(U)}]
<1>1. g = [U \in SUBSET S |-> e(U)]
  BY DEF IsSum
<1> HIDE DEF e
<1>2. g[T] = e(T)
  BY <1>1
<1> QED
  BY <1>2 DEF e

\* The sum depends on nothing but the summands.
LEMMA SumsAgree ==
    ASSUME NEW S, IsFiniteSet(S), NEW R \in SUBSET S, NEW g, NEW h, NEW rv, NEW rw,
           IsSum(g, rv, S), IsSum(h, rw, R),
           \A o \in R : rv[o].quantity = rw[o].quantity
    PROVE  g[R] = h[R]
<1> DEFINE F == {T \in SUBSET R : g[T] # h[T]}
<1>1. ASSUME F # {} PROVE FALSE
  <2>1. F \in SUBSET (SUBSET S)
    OBVIOUS
  <2>2. PICK T \in F : \A U \in F : U \subseteq T => U = T
    <3> HIDE DEF F
    <3> QED
      BY <1>1, <2>1, SmallestSubset
  <2>3. /\ g[T] = IF T = {} THEN 0
                  ELSE rv[Pick(T)].quantity + g[T \ {Pick(T)}]
        /\ h[T] = IF T = {} THEN 0
                  ELSE rw[Pick(T)].quantity + h[T \ {Pick(T)}]
    BY <2>2, SumValue
  <2>4. T # {} /\ T \in SUBSET R /\ g[T] # h[T]
    BY <2>2, <2>3
  <2>5. Pick(T) \in T
    BY <2>4, PickIn
  <2>6. T \ {Pick(T)} \notin F
    BY <2>2, <2>5
  <2>7. g[T \ {Pick(T)}] = h[T \ {Pick(T)}]
    BY <2>4, <2>6
  <2> QED
    BY <2>3, <2>4, <2>5, <2>7
<1>2. R \notin F
  BY <1>1
<1> QED
  BY <1>2

\* The equation that defines the sum has a solution.
LEMMA SumExists ==
    ASSUME NEW S, IsFiniteSet(S), NEW rv
    PROVE  \E g : IsSum(g, rv, S)
<1> DEFINE F == {T \in SUBSET S : ~ \E g : IsSum(g, rv, T)}
<1>1. ASSUME F # {} PROVE FALSE
  <2>1. F \in SUBSET (SUBSET S)
    OBVIOUS
  <2>2. PICK T \in F : \A U \in F : U \subseteq T => U = T
    <3> HIDE DEF F
    <3> QED
      BY <1>1, <2>1, SmallestSubset
  <2>3. IsFiniteSet(T)
    BY <2>2, FS_Subset
  <2>4. ASSUME NEW U \in SUBSET T, U # T
        PROVE  \E g : IsSum(g, rv, U)
    BY <2>2, <2>4
  <2> DEFINE Unfolded(U) == IF U = {} THEN 0
                            ELSE rv[Pick(U)].quantity + Total(rv, U \ {Pick(U)})
  <2>5. ASSUME NEW U \in SUBSET T, U # T
        PROVE  Total(rv, U) = Unfolded(U)
    <3> DEFINE g == CHOOSE f : IsSum(f, rv, U)
    <3>1. IsSum(g, rv, U)
      BY <2>4, <2>5
    <3>2. Total(rv, U) = g[U]
      BY DEF Total
    <3> HIDE DEF g
    <3>3. g[U] = IF U = {} THEN 0
                 ELSE rv[Pick(U)].quantity + g[U \ {Pick(U)}]
      BY <3>1, SumValue
    <3>4. ASSUME U # {} PROVE g[U \ {Pick(U)}] = Total(rv, U \ {Pick(U)})
      <4> DEFINE V == U \ {Pick(U)}
                 h == CHOOSE f : IsSum(f, rv, V)
      <4>1. V \in SUBSET T /\ V # T /\ V \in SUBSET U
        BY <3>4, <2>5, PickIn
      <4>2. IsSum(h, rv, V)
        BY <4>1, <2>4
      <4>3. IsFiniteSet(U)
        BY <2>3, FS_Subset
      <4>4. Total(rv, V) = h[V]
        BY DEF Total
      <4> HIDE DEF h, V
      <4>5. g[V] = h[V]
        BY <3>1, <4>1, <4>2, <4>3, SumsAgree
      <4> QED
        BY <4>4, <4>5 DEF V
    <3> QED
      BY <3>2, <3>3, <3>4
  <2> DEFINE G == [U \in SUBSET T |-> IF U = T THEN Unfolded(U) ELSE Total(rv, U)]
  <2>6. \A U \in SUBSET T : G[U] = Unfolded(U)
    BY <2>5
  <2>7. \A U \in SUBSET T : U # {} => G[U \ {Pick(U)}] = Total(rv, U \ {Pick(U)})
    BY PickIn
  <2>8. \A U \in SUBSET T : G[U] = IF U = {} THEN 0
                                   ELSE rv[Pick(U)].quantity + G[U \ {Pick(U)}]
    BY <2>6, <2>7
  <2>9. G = [U \in SUBSET T |-> G[U]]
    OBVIOUS
  <2> HIDE DEF G
  <2>10. IsSum(G, rv, T)
    BY <2>8, <2>9 DEF IsSum
  <2> QED
    BY <2>2, <2>10
<1>2. S \notin F
  BY <1>1
<1> QED
  BY <1>2

LEMMA TotalSame ==
    ASSUME NEW S, IsFiniteSet(S), NEW rv, NEW rw,
           \A o \in S : rv[o].quantity = rw[o].quantity
    PROVE  Total(rv, S) = Total(rw, S)
<1> DEFINE g == CHOOSE f : IsSum(f, rv, S)
           h == CHOOSE f : IsSum(f, rw, S)
<1>1. IsSum(g, rv, S) /\ IsSum(h, rw, S)
  BY SumExists
<1>2. Total(rv, S) = g[S] /\ Total(rw, S) = h[S]
  BY DEF Total
<1> HIDE DEF g, h
<1> QED
  BY <1>1, <1>2, SumsAgree

LEMMA TotalUnfold ==
    ASSUME NEW S, IsFiniteSet(S), NEW rv
    PROVE  Total(rv, S) = IF S = {} THEN 0
                          ELSE rv[Pick(S)].quantity + Total(rv, S \ {Pick(S)})
<1> DEFINE R == S \ {Pick(S)}
           g == CHOOSE f : IsSum(f, rv, S)
           h == CHOOSE f : IsSum(f, rv, R)
<1>1. IsFiniteSet(R) /\ R \in SUBSET S
  BY FS_Subset
<1>2. IsSum(g, rv, S) /\ IsSum(h, rv, R)
  BY <1>1, SumExists
<1>3. Total(rv, S) = g[S] /\ Total(rv, R) = h[R]
  BY DEF Total
<1> HIDE DEF g, h
<1>4. g[R] = h[R]
  BY <1>1, <1>2, SumsAgree
<1> QED
  BY <1>2, <1>3, <1>4, SumValue

LEMMA TotalType ==
    ASSUME NEW S, IsFiniteSet(S), NEW rv, \A o \in S : rv[o].quantity \in Int
    PROVE  Total(rv, S) \in Int
<1> DEFINE F == {T \in SUBSET S : Total(rv, T) \notin Int}
<1>1. ASSUME F # {} PROVE FALSE
  <2>1. F \in SUBSET (SUBSET S)
    OBVIOUS
  <2>2. PICK T \in F : \A U \in F : U \subseteq T => U = T
    <3> HIDE DEF F
    <3> QED
      BY <1>1, <2>1, SmallestSubset
  <2>3. Total(rv, T) = IF T = {} THEN 0
                       ELSE rv[Pick(T)].quantity + Total(rv, T \ {Pick(T)})
    BY <2>2, FS_Subset, TotalUnfold
  <2>4. T # {}
    BY <2>2, <2>3
  <2>5. Pick(T) \in T
    BY <2>4, PickIn
  <2>6. T \ {Pick(T)} \notin F
    BY <2>2, <2>5
  <2>7. Total(rv, T \ {Pick(T)}) \in Int
    BY <2>2, <2>6
  <2> QED
    BY <2>2, <2>3, <2>5, <2>7
<1>2. S \notin F
  BY <1>1
<1> QED
  BY <1>2

\* Any element can be taken out of the sum, not only the one that is picked.
LEMMA TotalRemove ==
    ASSUME NEW S, IsFiniteSet(S), NEW rv, \A o \in S : rv[o].quantity \in Int,
           NEW x \in S
    PROVE  Total(rv, S) = rv[x].quantity + Total(rv, S \ {x})
<1> DEFINE q(o) == rv[o].quantity
           Splits(T) == \A o \in T : Total(rv, T) = q(o) + Total(rv, T \ {o})
           F == {T \in SUBSET S : ~ Splits(T)}
<1>1. ASSUME F # {} PROVE FALSE
  <2>1. F \in SUBSET (SUBSET S)
    OBVIOUS
  <2>2. PICK T \in F : \A U \in F : U \subseteq T => U = T
    <3> HIDE DEF F
    <3> QED
      BY <1>1, <2>1, SmallestSubset
  <2>3. PICK o \in T : Total(rv, T) # q(o) + Total(rv, T \ {o})
    BY <2>2
  <2> DEFINE p == Pick(T)
             R == T \ {p}
             U == T \ {o}
             Rest == T \ {o, p}
  <2>4. p \in T
    BY <2>3, PickIn
  <2>5. T \in SUBSET S /\ IsFiniteSet(T)
    BY <2>2, FS_Subset
  <2>6. Total(rv, T) = q(p) + Total(rv, R)
    BY <2>3, <2>5, TotalUnfold
  <2>7. p # o
    BY <2>3, <2>6
  <2>8. R \ {o} = Rest /\ U \ {p} = Rest /\ o \in R /\ p \in U
    BY <2>3, <2>4, <2>7
  <2>9. Splits(R) /\ Splits(U)
    BY <2>2, <2>3, <2>4, <2>5
  <2>10. Total(rv, R) = q(o) + Total(rv, Rest) /\ Total(rv, U) = q(p) + Total(rv, Rest)
    BY <2>8, <2>9
  <2>11. q(o) \in Int /\ q(p) \in Int /\ Total(rv, Rest) \in Int
    BY <2>3, <2>4, <2>5, FS_Subset, TotalType
  <2> HIDE DEF p, q, R, U, Rest
  <2> QED
    BY <2>3, <2>6, <2>10, <2>11 DEF U
<1>2. S \notin F
  BY <1>1
<1> QED
  BY <1>2

LEMMA TotalAdd ==
    ASSUME NEW S, IsFiniteSet(S), NEW rv, NEW rw, NEW x, x \notin S,
           \A o \in S : rv[o].quantity \in Int /\ rw[o].quantity = rv[o].quantity,
           rw[x].quantity \in Int
    PROVE  Total(rw, S \cup {x}) = Total(rv, S) + rw[x].quantity
<1> DEFINE R == S \cup {x}
<1>1. IsFiniteSet(R) /\ R \ {x} = S /\ x \in R
  BY FS_AddElement
<1>2. \A o \in R : rw[o].quantity \in Int
  OBVIOUS
<1>3. Total(rw, R) = rw[x].quantity + Total(rw, S)
  BY <1>1, <1>2, TotalRemove
<1>4. Total(rw, S) = Total(rv, S) /\ Total(rv, S) \in Int
  BY TotalSame, TotalType
<1> QED
  BY <1>3, <1>4

-----------------------------------------------------------------------------
(* Conservation of stock.                                                  *)

Reserved(rv) == {o \in Orders : rv[o] # None}

Accounts(st, rv) == Conserved(st, rv) /\ IsFiniteSet(Reserved(rv))

LEMMA HoldingTotal ==
    ASSUME NEW rv \in [Orders -> [sku : Skus, quantity : Int] \cup {None}],
           NEW s, IsFiniteSet(Reserved(rv))
    PROVE  /\ IsFiniteSet(Holding(rv, s))
           /\ \A o \in Holding(rv, s) : rv[o].quantity \in Int
           /\ UnitsHeld(rv, s) = Total(rv, Holding(rv, s))
           /\ Total(rv, Holding(rv, s)) \in Int
<1>1. Holding(rv, s) \in SUBSET Reserved(rv)
  BY DEF Holding, Reserved
<1>2. IsFiniteSet(Holding(rv, s))
  BY <1>1, FS_Subset
<1>3. \A o \in Holding(rv, s) : rv[o].quantity \in Int
  BY DEF Holding
<1> QED
  BY <1>2, <1>3, TotalType, UnitsHeldIsTotal

LEMMA AccountsInit == Init => Accounts(stock, resv)
<1> SUFFICES ASSUME Init PROVE Accounts(stock, resv)
  OBVIOUS
<1>1. Reserved(resv) = {}
  BY DEF Init, Reserved
<1>2. Conserved(stock, resv)
  BY SeedAssumption DEF Init, Conserved, Holding
<1> QED
  BY <1>1, <1>2, FS_EmptySet DEF Accounts

\* A SKU that is seeded now had no reservations, so it starts in balance.
LEMMA SeedAccounts ==
    ASSUME Connected, Accounts(stock, resv), NEW s \in SeedSkus, SeedOne(s)
    PROVE  Accounts(stock', resv')
<1>1. resv' = resv
  BY DEF SeedOne
<1>2. CASE stock' = stock
  BY <1>1, <1>2 DEF Accounts, Conserved, Holding, Reserved
<1>3. CASE stock[s] = None /\ stock' = [stock EXCEPT ![s] = SeedStock[s]]
  <2>1. Holding(resv, s) = {} /\ s \in Skus /\ SeedStock[s] \in Nat
    BY <1>3, SeedAssumption DEF Accounts, Conserved
  <2>2. UnitsHeld(resv, s) = 0
    <3>1. Total(resv, {}) = 0
      BY TotalUnfold, FS_EmptySet
    <3> QED
      BY <2>1, <3>1, UnitsHeldIsTotal
  <2>3. stock'[s] = SeedStock[s] /\ \A t \in Skus \ {s} : stock'[t] = stock[t]
    BY <1>3, <2>1 DEF Connected, TypeOK
  <2>4. stock'[s] # None
    BY <2>1, <2>3, NoneAssumption
  <2>5. Conserved(stock', resv)
    BY <2>1, <2>2, <2>3, <2>4, SeedAssumption DEF Accounts, Conserved
  <2> QED
    BY <1>1, <2>5 DEF Accounts, Conserved, Holding, Reserved
<1> QED
  BY <1>2, <1>3 DEF SeedOne

\* A commit moves the units of one order from the stock to the reservations.
LEMMA CommitAccounts ==
    ASSUME Connected, Accounts(stock, resv),
           NEW c \in Calls, Exec(c), watch[c] = "clean"
    PROVE  Accounts(stock', resv')
<1> DEFINE o == req[c].order
           s == req[c].sku
           q == req[c].quantity
<1>1. /\ txn[c] = "sent"
      /\ stock' = [stock EXCEPT ![s] = seen[c] - q]
      /\ resv' = [resv EXCEPT ![o] = Fields(req[c])]
  BY DEF Exec
<1>2. /\ o \in Orders /\ s \in Skus /\ q \in Int
      /\ req[c] \in Requests
  BY <1>1, RequestsAssumption DEF Connected, TypeOK, Bookkeeping
<1>3. resv[o] = None /\ stock[s] = seen[c] /\ seen[c] \in Int
  BY <1>1 DEF Connected, CleanWatch, TypeOK
<1>4. /\ resv'[o] = [sku |-> s, quantity |-> q] /\ resv'[o] # None
      /\ \A p \in Orders \ {o} : resv'[p] = resv[p]
      /\ stock'[s] = stock[s] - q /\ stock[s] # None /\ stock'[s] # None
      /\ \A t \in Skus \ {s} : stock'[t] = stock[t]
  BY <1>1, <1>2, <1>3, NoneAssumption DEF Connected, TypeOK, Fields
<1>5. /\ resv \in [Orders -> [sku : Skus, quantity : Int] \cup {None}]
      /\ resv' \in [Orders -> [sku : Skus, quantity : Int] \cup {None}]
      /\ stock \in [Skus -> Int \cup {None}]
  BY CommitConnected DEF Connected, TypeOK
<1> HIDE DEF o, s, q
<1>6. IsFiniteSet(Reserved(resv')) /\ IsFiniteSet(Reserved(resv))
  <2>1. Reserved(resv') = Reserved(resv) \cup {o}
    BY <1>2, <1>4 DEF Reserved
  <2> QED
    BY <2>1, FS_AddElement DEF Accounts
<1>7. ASSUME NEW t \in SeedSkus, t # s
      PROVE  IF stock'[t] = None THEN Holding(resv', t) = {}
             ELSE stock'[t] + Total(resv', Holding(resv', t)) = SeedStock[t]
  <2>1. Holding(resv', t) = Holding(resv, t)
    BY <1>3, <1>4, <1>7 DEF Holding
  <2>2. \A p \in Holding(resv, t) : resv'[p].quantity = resv[p].quantity
    BY <1>3, <1>4 DEF Holding
  <2>3. Total(resv', Holding(resv, t)) = Total(resv, Holding(resv, t))
    BY <1>5, <1>6, <2>2, HoldingTotal, TotalSame
  <2>4. stock'[t] = stock[t]
    BY <1>4, <1>7, SeedAssumption
  <2> QED
    BY <1>5, <1>6, <2>1, <2>3, <2>4, HoldingTotal DEF Accounts, Conserved
<1>8. ASSUME s \in SeedSkus
      PROVE  stock'[s] + Total(resv', Holding(resv', s)) = SeedStock[s]
  <2> DEFINE H == Holding(resv, s)
  <2>1. Holding(resv', s) = H \cup {o} /\ o \notin H
    BY <1>2, <1>3, <1>4 DEF Holding
  <2>2. \A p \in H : resv'[p].quantity = resv[p].quantity
    BY <1>3, <1>4 DEF Holding
  <2>3. resv'[o].quantity = q /\ q \in Int
    BY <1>2, <1>4
  <2>4. /\ IsFiniteSet(H) /\ Total(resv, H) \in Int
        /\ \A p \in H : resv[p].quantity \in Int
        /\ UnitsHeld(resv, s) = Total(resv, H)
    BY <1>5, <1>6, HoldingTotal
  <2>5. stock[s] + Total(resv, H) = SeedStock[s]
    BY <1>4, <1>8, <2>4 DEF Accounts, Conserved
  <2> HIDE DEF H
  <2>6. Total(resv', H \cup {o}) = Total(resv, H) + q
    <3>1. /\ \A p \in H : resv[p].quantity \in Int /\ resv'[p].quantity = resv[p].quantity
          /\ resv'[o].quantity \in Int
      BY <2>2, <2>3, <2>4
    <3>2. Total(resv', H \cup {o}) = Total(resv, H) + resv'[o].quantity
      BY <2>1, <2>4, <3>1, TotalAdd
    <3> QED
      BY <2>3, <3>2
  <2>7. stock[s] \in Int
    BY <1>3
  <2> QED
    BY <1>4, <2>1, <2>3, <2>4, <2>5, <2>6, <2>7
<1>9. Conserved(stock', resv')
  BY <1>4, <1>5, <1>6, <1>7, <1>8, HoldingTotal DEF Conserved
<1> QED
  BY <1>6, <1>9 DEF Accounts, Conserved, Holding, Reserved

LEMMA AccountsNext ==
    ASSUME Connected, Accounts(stock, resv), [Next]_vars
    PROVE  Accounts(stock', resv')
<1>1. CASE UNCHANGED <<stock, resv>>
  BY <1>1 DEF Accounts, Conserved, Holding, Reserved
<1> QED
  BY <1>1, DataStep, SeedAccounts, CommitAccounts

\* What is left of a SKU and what its reservations hold is what was seeded.
THEOREM StockIsConserved == Spec => []StockConserved
<1>1. IInv => Connected
  BY DEF IInv, Connected
<1>2. Connected /\ Accounts(stock, resv) /\ [Next]_vars => Accounts(stock, resv)'
  BY AccountsNext
<1>3. Accounts(stock, resv) => StockConserved
  BY DEF Accounts, StockConserved
<1> QED
  BY <1>1, <1>2, <1>3, AccountsInit, InductiveInvariant, PTL DEF Spec

\* It is so in the data and on the disk, whenever the host fails and whatever
\* is seeded again afterwards.
THEOREM StockIsConservedAcrossLoss == LossySpec => []ConservedAcrossLoss
<1> DEFINE Both == Accounts(stock, resv) /\ Accounts(diskStock, diskResv)
<1>1. LossyInit => Both
  BY AccountsInit DEF LossyInit
<1>2. ASSUME DurabilityInv, Both, [LossyNext]_lossyVars PROVE Both'
  <2> USE DEF Accounts, Conserved, Holding, Reserved
  <2>1. CASE [Next]_vars /\ UNCHANGED disk
    <3>1. Accounts(stock, resv)'
      BY <1>2, <2>1, AccountsNext DEF DurabilityInv
    <3> QED
      BY <1>2, <2>1, <3>1 DEF disk
  <2>2. CASE Fsync
    BY <1>2, <2>2 DEF Fsync, vars, redis
  <2>3. CASE HostFailure
    BY <1>2, <2>3 DEF HostFailure, disk
  <2> QED
    BY <1>2, <2>1, <2>2, <2>3 DEF LossyNext, lossyVars
<1>3. Both => ConservedAcrossLoss
  BY DEF Accounts, ConservedAcrossLoss
<1> HIDE DEF Both
<1>4. DurabilityInv /\ Both /\ [LossyNext]_lossyVars => Both'
  BY <1>2
<1> QED
  BY <1>1, <1>3, <1>4, LossyInvariant, PTL DEF LossySpec

-----------------------------------------------------------------------------
(* How long a call takes.                                                  *)

Rank == [idle |-> 6, attempt |-> 5, read |-> 4, stock |-> 3, await |-> 2,
         backoff |-> 1, done |-> 0]

\* The steps that call c has left at most.
Left(c) == 5 * (MaxAttempts - 1 - attempt[c]) + Rank[pc[c]]

\* What EveryCallAnswered rests on besides fairness: whatever the other calls,
\* Redis and crashes do, each step of a handler brings its answer closer, and
\* nothing takes it further away: a call takes at most five steps for each
\* attempt, however many rivals take its keys in between.
CallsAreShort ==
    \A c \in Calls :
        /\ Left(c)' \in Nat
        /\ Left(c)' <= Left(c)
        /\ Handle(c) => Left(c)' < Left(c)

LEMMA StepShortens ==
    ASSUME TypeOK, TypeOK', Next, NEW c \in Calls
    PROVE  /\ Left(c)' \in Nat
           /\ Left(c)' <= Left(c)
           /\ Handle(c) => Left(c)' < Left(c)
<1> DEFINE a == attempt[c]
           b == attempt'[c]
           x == Rank[pc[c]]
           y == Rank[pc'[c]]
<1>1. /\ MaxAttempts \in Nat \ {0} /\ a \in 0 .. MaxAttempts - 1
      /\ b \in 0 .. MaxAttempts - 1 /\ x \in 0 .. 6 /\ y \in 0 .. 6
      /\ Left(c) = 5 * (MaxAttempts - 1 - a) + x
      /\ Left(c)' = 5 * (MaxAttempts - 1 - b) + y
  BY BoundsAssumption DEF TypeOK, Rank, Left
<1>2. Handle(c) => (b = a /\ y < x) \/ (b = a + 1 /\ y = 5 /\ x = 1)
  BY DEF Handle, Watch, ReadReservation, ReadStock, ReadExecReply, Retry,
     BackoffOver, ReadError, ConnectionLost, Fail, Active, Answer, TypeOK, Rank
<1>3. (b = a /\ y <= x) \/ (b = a + 1 /\ y = 5 /\ x = 1)
  <2>1. CASE Crash
    BY <2>1 DEF Crash, Active, TypeOK, Rank
  <2>2. CASE UNCHANGED handlers
    BY <1>1, <2>2 DEF handlers
  <2>3. ASSUME NEW d \in Calls, Handle(d)
        PROVE  (b = a /\ y <= x) \/ (b = a + 1 /\ y = 5 /\ x = 1)
    <3>1. CASE d = c
      BY <1>1, <1>2, <2>3, <3>1
    <3>2. CASE d # c
      <4>1. pc'[c] = pc[c] /\ b = a
        BY <2>3, <3>2
        DEF Handle, Watch, ReadReservation, ReadStock, ReadExecReply, Retry,
            BackoffOver, ReadError, Fail, Answer, TypeOK
      <4> QED
        BY <1>1, <4>1
    <3> QED
      BY <3>1, <3>2
  <2>4. ASSUME NEW d \in Calls, Fail(d) \/ \E r \in Requests : Receive(d, r)
        PROVE  (b = a /\ y <= x) \/ (b = a + 1 /\ y = 5 /\ x = 1)
    BY <2>4 DEF Fail, Receive, Active, Answer, TypeOK, Rank
  <2> QED
    BY <2>1, <2>2, <2>3, <2>4
    DEF Next, Boot, SeedOne, Serve, Exec, LoseExec, RedisRestart
<1> HIDE DEF a, b, x, y
<1> QED
  BY <1>1, <1>2, <1>3

THEOREM CallsTakeBoundedTime == Spec => [][CallsAreShort]_vars
<1>1. TypeOK /\ TypeOK' /\ [Next]_vars => [CallsAreShort]_vars
  BY StepShortens DEF CallsAreShort
<1> QED
  BY <1>1, TypeCorrect, PTL DEF Spec
=============================================================================
