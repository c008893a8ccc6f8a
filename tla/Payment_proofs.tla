--------------------------- MODULE Payment_proofs ---------------------------
(***************************************************************************)
(* Proofs about Payment, for any number of calls, orders and connections.  *)
(***************************************************************************)
EXTENDS Payment, TLAPS

LEMMA InitInv == Init => IInv
BY DEF Init, IInv, TypeOK, Results, Bookkeeping, Active, DoubtAndLedger,
   AnswersMatchLedger, LoserSeesWinner, ChargedOnce

\* An answer that agrees with the ledger keeps the invariant.
LEMMA AnswerInv ==
    ASSUME IInv, NEW c \in Calls, c \in Active,
           NEW r \in Results \ {"none", "invalid"},
           Answer(c, r),
           r \in {"created", "replayed"} => row[req[c].order] = req[c].amount,
           r = "conflict" => row[req[c].order] \notin {None, req[c].amount},
           stmt[c] \in {"sent", "holding", "created"} =>
                r = "unavailable" \/ (stmt[c] = "created" /\ r = "created")
    PROVE  IInv'
<1> USE DEF Answer, ledger, Active
<1>1. TypeOK'
  BY DEF IInv, TypeOK
<1>2. Bookkeeping'
  BY DEF IInv, TypeOK, Bookkeeping
<1>3. (DoubtAndLedger /\ ChargedOnce)'
  BY DEF IInv, DoubtAndLedger, ChargedOnce
<1>4. AnswersMatchLedger'
  BY DEF IInv, TypeOK, AnswersMatchLedger
<1>5. LoserSeesWinner'
  BY DEF IInv, TypeOK, LoserSeesWinner
<1> QED
  BY <1>1, <1>2, <1>3, <1>4, <1>5 DEF IInv

LEMMA ProcessInv == IInv /\ (Boot \/ Crash) => IInv'
<1>1. ASSUME IInv, Boot PROVE IInv'
  BY <1>1 DEF Boot, ledger, handlers, IInv, TypeOK, Bookkeeping, Active,
     DoubtAndLedger, AnswersMatchLedger, LoserSeesWinner, ChargedOnce
<1>2. ASSUME IInv, Crash PROVE IInv'
  <2> USE <1>2 DEF Crash, ledger, Active
  <2>1. TypeOK' /\ Bookkeeping'
    BY DEF IInv, TypeOK, Results, Bookkeeping
  <2>2. (DoubtAndLedger /\ ChargedOnce)'
    BY DEF IInv, DoubtAndLedger, ChargedOnce
  <2>3. (AnswersMatchLedger /\ LoserSeesWinner)'
    BY DEF IInv, TypeOK, AnswersMatchLedger, LoserSeesWinner
  <2> QED
    BY <2>1, <2>2, <2>3 DEF IInv
<1> QED
  BY <1>1, <1>2

LEMMA HandlerInv ==
    ASSUME IInv, NEW c \in Calls,
           (\E r \in Requests : Receive(c, r)) \/ Handle(c) \/ Fail(c)
    PROVE  IInv'
<1>1. ASSUME NEW r \in Requests, Receive(c, r) PROVE IInv'
  <2> USE <1>1 DEF Receive, ledger
  <2>1. stmt[c] = "none"
    BY DEF IInv, Bookkeeping
  <2>2. TypeOK' /\ Bookkeeping'
    BY NoneAssumption DEF IInv, TypeOK, Results, Bookkeeping, Active
  <2>3. (DoubtAndLedger /\ ChargedOnce)'
    BY <2>1 DEF IInv, TypeOK, DoubtAndLedger, ChargedOnce
  <2>4. (AnswersMatchLedger /\ LoserSeesWinner)'
    BY <2>1 DEF IInv, TypeOK, Bookkeeping, AnswersMatchLedger, LoserSeesWinner
  <2> QED
    BY <2>2, <2>3, <2>4 DEF IInv
<1>2. CASE SendInsert(c)
  <2> USE <1>2 DEF SendInsert
  <2>1. TypeOK' /\ Bookkeeping'
    BY DEF IInv, TypeOK, Bookkeeping, Active
  <2>2. (DoubtAndLedger /\ ChargedOnce)'
    BY DEF IInv, TypeOK, DoubtAndLedger, ChargedOnce
  <2>3. (AnswersMatchLedger /\ LoserSeesWinner)'
    BY DEF IInv, TypeOK, Bookkeeping, AnswersMatchLedger, LoserSeesWinner
  <2> QED
    BY <2>1, <2>2, <2>3 DEF IInv
<1>3. CASE ReadInsertReply(c)
  <2>1. CASE stmt[c] = "created" /\ Answer(c, "created")
    <3>1. c \in Active /\ row[req[c].order] = req[c].amount
      BY <1>3, <2>1 DEF ReadInsertReply, Active, IInv, DoubtAndLedger
    <3> QED
      BY <2>1, <3>1, AnswerInv DEF Results
  <2>2. CASE /\ stmt[c] = "nothing" /\ pc[c] = "inserting"
             /\ pc' = [pc EXCEPT ![c] = "select"]
             /\ UNCHANGED <<ledger, up, req, result>>
    <3> USE <2>2 DEF ledger
    <3>1. TypeOK' /\ Bookkeeping'
      BY DEF IInv, TypeOK, Bookkeeping, Active
    <3>2. (DoubtAndLedger /\ ChargedOnce /\ AnswersMatchLedger)'
      BY DEF IInv, DoubtAndLedger, ChargedOnce, AnswersMatchLedger
    <3>3. LoserSeesWinner'
      BY DEF IInv, TypeOK, LoserSeesWinner
    <3> QED
      BY <3>1, <3>2, <3>3 DEF IInv
  <2> QED
    BY <1>3, <2>1, <2>2 DEF ReadInsertReply
<1>4. CASE SendSelect(c)
  <2> USE <1>4 DEF SendSelect
  <2>1. TypeOK' /\ Bookkeeping'
    BY DEF IInv, TypeOK, Bookkeeping, Active
  <2>2. (DoubtAndLedger /\ ChargedOnce)'
    BY DEF IInv, TypeOK, DoubtAndLedger, ChargedOnce
  <2>3. (AnswersMatchLedger /\ LoserSeesWinner)'
    BY DEF IInv, TypeOK, AnswersMatchLedger, LoserSeesWinner
  <2> QED
    BY <2>1, <2>2, <2>3 DEF IInv
<1>5. CASE ReadSelectReply(c)
  <2> DEFINE stored == row[req[c].order]
             r == Compared(stored, req[c].amount)
  <2>1. c \in Active /\ stmt[c] = "reading" /\ Answer(c, r)
    BY <1>5 DEF ReadSelectReply, Active
  <2>2. /\ r \in Results \ {"none", "invalid"}
        /\ r # "created"
        /\ r = "replayed" => stored = req[c].amount
        /\ r = "conflict" => stored \notin {None, req[c].amount}
    BY DEF Compared, Results
  <2> HIDE DEF r
  <2> QED
    BY <2>1, <2>2, AnswerInv
<1>6. CASE Fail(c)
  BY <1>6, AnswerInv DEF Fail, Results
<1> QED
  BY <1>1, <1>2, <1>3, <1>4, <1>5, <1>6 DEF Handle, ReadError

\* An INSERT that waited out its rivals and found no row is alone in doubt.
LEMMA LedgerInv ==
    ASSUME IInv,
           (\E c \in Calls : Serve(c) \/ Abort(c)) \/ PostgresRestart
    PROVE  IInv'
<1>1. ASSUME NEW c \in Calls, Insert(c) PROVE IInv'
  <2> USE <1>1 DEF Insert, handlers
  <2>1. req[c] # None
    BY DEF IInv, Bookkeeping, TypeOK
  <2>2. TypeOK' /\ Bookkeeping'
    BY DEF IInv, TypeOK, Bookkeeping, Active
  <2>3. DoubtAndLedger'
    BY DEF IInv, TypeOK, DoubtAndLedger
  <2>4. ChargedOnce'
    <3>1. ASSUME NEW d \in Calls \ {c}, stmt[d] \in {"holding", "created"},
                 req[d].order = req[c].order
          PROVE  stmt'[c] = "nothing"
      <4>1. stmt[d] = "created"
        BY <3>1 DEF Rivals
      <4>2. req[d] \in Requests
        BY <4>1 DEF IInv, TypeOK, Bookkeeping
      <4>3. row[req[c].order] # None
        BY <3>1, <4>1, <4>2, RequestsAssumption, NoneAssumption
           DEF IInv, DoubtAndLedger
      <4> QED
        BY <4>3 DEF IInv, TypeOK
    <3> QED
      BY <3>1 DEF IInv, TypeOK, ChargedOnce
  <2>5. (AnswersMatchLedger /\ LoserSeesWinner)'
    BY DEF IInv, TypeOK, AnswersMatchLedger, LoserSeesWinner
  <2> QED
    BY <2>2, <2>3, <2>4, <2>5 DEF IInv
<1>2. ASSUME NEW c \in Calls, Commit(c) PROVE IInv'
  <2> DEFINE o == req[c].order
  <2>1. /\ stmt[c] = "holding" /\ stmt' = [stmt EXCEPT ![c] = "created"]
        /\ row' = [row EXCEPT ![o] = req[c].amount]
        /\ UNCHANGED <<up, pc, req, result>>
    BY <1>2 DEF Commit, handlers
  <2>2. /\ req[c] \in Requests /\ req[c] # None
        /\ o \in Orders /\ req[c].amount \in Int /\ req[c].amount # None
        /\ row[o] = None
    BY <2>1, RequestsAssumption, NoneAssumption
       DEF IInv, TypeOK, Bookkeeping, DoubtAndLedger
  <2> HIDE DEF o
  <2>3. row' \in [Orders -> Int \cup {None}] /\ row'[o] = req[c].amount
        /\ \A p \in Orders \ {o} : row'[p] = row[p]
    BY <2>1, <2>2 DEF IInv, TypeOK
  <2>4. TypeOK'
    BY <2>1, <2>3 DEF IInv, TypeOK
  <2>5. Bookkeeping'
    BY <2>1 DEF IInv, TypeOK, Bookkeeping, Active
  <2>6. ASSUME NEW d \in Calls, req[d] # None
        PROVE  req[d].order \in Orders /\ req[d].amount # None
    BY <2>6, RequestsAssumption, NoneAssumption DEF IInv, TypeOK
  <2>7. DoubtAndLedger'
    <3> SUFFICES ASSUME NEW d \in Calls
                 PROVE  /\ stmt'[d] = "holding" => row'[req[d].order] = None
                        /\ stmt'[d] = "created" =>
                                row'[req[d].order] = req[d].amount
      BY <2>1 DEF DoubtAndLedger
    <3>1. CASE d = c
      BY <2>1, <2>3, <3>1 DEF IInv, TypeOK, o
    <3>2. CASE d # c /\ stmt[d] \in {"holding", "created"}
      <4>1. req[d] # None /\ req[d].order # o
        BY <2>1, <3>2 DEF IInv, TypeOK, Bookkeeping, ChargedOnce, o
      <4> QED
        BY <2>1, <2>3, <2>6, <3>2, <4>1 DEF IInv, TypeOK, DoubtAndLedger
    <3>3. CASE d # c /\ stmt[d] \notin {"holding", "created"}
      BY <2>1, <3>3 DEF IInv, TypeOK
    <3> QED
      BY <3>1, <3>2, <3>3
  <2>8. ChargedOnce'
    BY <2>1 DEF IInv, TypeOK, ChargedOnce
  <2>9. AnswersMatchLedger'
    <3> SUFFICES ASSUME NEW d \in Calls
                 PROVE  /\ result[d] \in {"created", "replayed"} =>
                                row'[req[d].order] = req[d].amount
                        /\ result[d] = "conflict" =>
                                row'[req[d].order] \notin {None, req[d].amount}
      BY <2>1 DEF AnswersMatchLedger
    <3>1. CASE result[d] \in {"created", "replayed", "conflict"}
      <4>1. req[d] # None
        BY <3>1 DEF IInv, Bookkeeping
      <4>2. req[d].order # o
        BY <2>2, <2>6, <3>1, <4>1 DEF IInv, AnswersMatchLedger
      <4> QED
        BY <2>3, <2>6, <4>1, <4>2 DEF IInv, AnswersMatchLedger
    <3> QED
      BY <3>1
  <2>10. LoserSeesWinner'
    <3> SUFFICES ASSUME NEW d \in Calls,
                        stmt'[d] = "nothing" \/ pc[d] \in {"select", "selecting"}
                 PROVE  row'[req[d].order] # None
      BY <2>1 DEF LoserSeesWinner
    <3>1. row[req[d].order] # None
      BY <2>1 DEF IInv, TypeOK, LoserSeesWinner
    <3>2. CASE req[d].order = o
      BY <2>2, <2>3, <3>2
    <3>3. CASE req[d].order # o
      <4>1. row'[req[d].order] = row[req[d].order]
        BY <2>1, <3>3 DEF IInv, TypeOK
      <4> QED
        BY <3>1, <4>1
    <3> QED
      BY <3>2, <3>3
  <2> QED
    BY <2>4, <2>5, <2>7, <2>8, <2>9, <2>10 DEF IInv
<1>3. ASSUME (\E c \in Calls : Abort(c)) \/ PostgresRestart PROVE IInv'
  <2>1. /\ UNCHANGED <<row, up, handlers>>
        /\ stmt' \in [Calls -> {"none", "sent", "holding", "created", "nothing",
                                "reading"}]
        /\ \A c \in Calls : \/ stmt'[c] = stmt[c]
                            \/ stmt'[c] = "none" /\ InFlight(c)
    BY <1>3 DEF Abort, PostgresRestart, IInv, TypeOK
  <2> USE <2>1 DEF handlers, InFlight
  <2>2. TypeOK' /\ Bookkeeping'
    BY DEF IInv, TypeOK, Bookkeeping, Active
  <2>3. (DoubtAndLedger /\ ChargedOnce)'
    BY DEF IInv, TypeOK, DoubtAndLedger, ChargedOnce
  <2>4. (AnswersMatchLedger /\ LoserSeesWinner)'
    BY DEF IInv, TypeOK, AnswersMatchLedger, LoserSeesWinner
  <2> QED
    BY <2>2, <2>3, <2>4 DEF IInv
<1> QED
  BY <1>1, <1>2, <1>3 DEF Serve

LEMMA NextInv == IInv /\ [Next]_vars => IInv'
<1> SUFFICES ASSUME IInv, [Next]_vars PROVE IInv'
  OBVIOUS
<1>1. CASE Next
  BY <1>1, ProcessInv, HandlerInv, LedgerInv DEF Next
<1>2. CASE UNCHANGED vars
  BY <1>2 DEF vars, ledger, handlers, IInv, TypeOK, Bookkeeping, Active,
     DoubtAndLedger, AnswersMatchLedger, LoserSeesWinner, ChargedOnce
<1> QED
  BY <1>1, <1>2

\* The invariant holds in every reachable state.
THEOREM InductiveInvariant == Spec => []IInv
BY InitInv, NextInv, PTL DEF Spec

\* Created, replayed and conflict answers agree with the ledger for ever.
THEOREM AnswersAreTrue == Spec => []AnswersMatchLedger
<1>1. IInv => AnswersMatchLedger
  BY DEF IInv
<1> QED
  BY <1>1, InductiveInvariant, PTL

\* A call whose INSERT did nothing finds the row that won.
THEOREM LosersFindTheRow == Spec => []LoserSeesWinner
<1>1. IInv => LoserSeesWinner
  BY DEF IInv
<1> QED
  BY <1>1, InductiveInvariant, PTL

\* One INSERT at most charges an order or is about to.
THEOREM ChargesOnce == Spec => []ChargedOnce
<1>1. IInv => ChargedOnce
  BY DEF IInv
<1> QED
  BY <1>1, InductiveInvariant, PTL

-----------------------------------------------------------------------------
(* Payment implements OrderRegistry.                                       *)

LEMMA MappedInit == Init => Registry!Init
BY DEF Init, Registry!Init, Asked, Verdict

\* A step that moves no call's request or verdict and no row.
LEMMA Stutter ==
    ASSUME UNCHANGED row,
           \A c \in Calls : Asked(c)' = Asked(c) /\ Verdict(c)' = Verdict(c)
    PROVE  UNCHANGED Registry!vars
BY DEF Registry!vars

\* A step that decides one call and leaves the ledger as it is.
LEMMA OneVerdict ==
    ASSUME NEW c \in Calls,
           UNCHANGED row,
           \A d \in Calls : Asked(d)' = Asked(d),
           \A d \in Calls \ {c} : Verdict(d)' = Verdict(d),
           \/ /\ Verdict(c) \in {"pending", "written"}
              /\ Verdict(c)' = "accepted"
              /\ row[Asked(c).order] = Asked(c).details
           \/ /\ Verdict(c) = "pending" /\ Verdict(c)' = "rejected"
              /\ row[Asked(c).order] \notin {None, Asked(c).details}
           \/ Verdict(c) \in {"pending", "written"} /\ Verdict(c)' = "unsure"
    PROVE  Registry!Next
<1> DEFINE A == [d \in Calls |-> Asked(d)]
           V == [d \in Calls |-> Verdict(d)]
<1>1. A' = A
  OBVIOUS
<1>2. V' = [V EXCEPT ![c] = Verdict(c)']
  OBVIOUS
<1>3. A[c] = Asked(c) /\ V[c] = Verdict(c)
  OBVIOUS
<1>4. Registry!Accept(c) \/ Registry!Reject(c) \/ Registry!GiveUp(c)
  BY <1>1, <1>2, <1>3 DEF Registry!Accept, Registry!Reject, Registry!GiveUp
<1> QED
  BY <1>4 DEF Registry!Next

LEMMA MappedAnswer ==
    ASSUME IInv, NEW c \in Calls, c \in Active,
           NEW r \in Results \ {"none", "invalid"},
           Answer(c, r),
           r \in {"created", "replayed"} => row[req[c].order] = req[c].amount,
           r = "conflict" => /\ row[req[c].order] \notin {None, req[c].amount}
                             /\ stmt[c] = "reading"
    PROVE  Registry!Next
<1> USE DEF Answer, Active, ledger
<1>1. pc[c] \notin {"idle", "done"} /\ req[c] # None /\ result[c] = "none"
  BY DEF IInv, TypeOK, Bookkeeping
<1>2. /\ \A d \in Calls \ {c} : pc'[d] = pc[d] /\ result'[d] = result[d]
      /\ result'[c] = r
      /\ UNCHANGED <<row, stmt, req>>
  BY DEF IInv, TypeOK
<1>3. \A d \in Calls : Asked(d)' = Asked(d)
  BY <1>1, <1>2 DEF Asked
<1>4. \A d \in Calls \ {c} : Verdict(d)' = Verdict(d)
  BY <1>2 DEF Verdict
<1>5. Asked(c) = [order |-> req[c].order, details |-> req[c].amount]
  BY <1>1 DEF Asked
<1>6. Verdict(c) = IF pc[c] = "inserting" /\ stmt[c] = "created"
                  THEN "written" ELSE "pending"
  BY <1>1 DEF Verdict
<1>7. /\ r \in {"created", "replayed"} => Verdict(c)' = "accepted"
      /\ r = "conflict" => Verdict(c)' = "rejected"
      /\ r \in {"unavailable", "lost"} => Verdict(c)' = "unsure"
  BY <1>2 DEF Verdict
<1>8. Asked(c).order = req[c].order /\ Asked(c).details = req[c].amount
  BY <1>5
<1> QED
  BY <1>2, <1>3, <1>4, <1>6, <1>7, <1>8, OneVerdict DEF Results

LEMMA MappedReceive ==
    ASSUME IInv, NEW c \in Calls, NEW r \in Requests, Receive(c, r)
    PROVE  Registry!Next \/ UNCHANGED Registry!vars
<1> USE DEF Receive, ledger
<1>1. req[c] = None /\ result[c] = "none" /\ r # None /\ pc[c] = "idle"
  BY NoneAssumption DEF IInv, TypeOK, Bookkeeping
<1>2. /\ \A d \in Calls \ {c} : /\ req'[d] = req[d] /\ pc'[d] = pc[d]
                                /\ result'[d] = result[d]
      /\ req'[c] = r
      /\ UNCHANGED <<row, stmt>>
  BY DEF IInv, TypeOK
<1>3. \A d \in Calls \ {c} : Asked(d)' = Asked(d) /\ Verdict(d)' = Verdict(d)
  BY <1>2 DEF Asked, Verdict
<1>4. Asked(c) = None /\ Verdict(c) = "idle"
  BY <1>1 DEF Asked, Verdict
<1>5. CASE Valid(r)
  <2> DEFINE a == [order |-> r.order, details |-> r.amount]
             A == [d \in Calls |-> Asked(d)]
             V == [d \in Calls |-> Verdict(d)]
  <2>1. result'[c] = "none" /\ pc'[c] = "insert"
    BY <1>1, <1>5 DEF IInv, TypeOK
  <2>2. Asked(c)' = a /\ Verdict(c)' = "pending"
    BY <1>1, <1>2, <2>1 DEF Asked, Verdict
  <2>3. A' = [A EXCEPT ![c] = a] /\ V' = [V EXCEPT ![c] = "pending"]
    BY <1>3, <2>2
  <2>4. V[c] = "idle"
    BY <1>4
  <2>5. a \in Registry!Request
    BY RequestsAssumption DEF Registry!Request
  <2>6. Registry!Ask(c, a)
    BY <1>2, <2>3, <2>4 DEF Registry!Ask
  <2> QED
    BY <2>5, <2>6 DEF Registry!Next
<1>6. CASE ~Valid(r)
  <2>1. result'[c] = "invalid"
    BY <1>6 DEF IInv, TypeOK
  <2>2. Asked(c)' = None /\ Verdict(c)' = "idle"
    BY <2>1 DEF Asked, Verdict
  <2> QED
    BY <1>2, <1>3, <1>4, <2>2, Stutter
<1> QED
  BY <1>5, <1>6

\* A statement on its way, and its commit apart, is invisible.
LEMMA MappedQuiet ==
    ASSUME IInv, UNCHANGED <<row, req, result>>,
           \A c \in Calls :
                \/ pc'[c] = pc[c] /\ stmt'[c] = stmt[c]
                \/ /\ stmt[c] # "created" /\ stmt'[c] # "created"
                   /\ pc[c] # "idle" /\ pc'[c] # "idle"
    PROVE  UNCHANGED Registry!vars
<1>1. \A c \in Calls : Asked(c)' = Asked(c) /\ Verdict(c)' = Verdict(c)
  BY DEF Asked, Verdict
<1> QED
  BY <1>1, Stutter

LEMMA MappedHandler ==
    ASSUME IInv, NEW c \in Calls, Handle(c) \/ Fail(c)
    PROVE  Registry!Next \/ UNCHANGED Registry!vars
<1>1. CASE SendInsert(c) \/ SendSelect(c)
  BY <1>1, MappedQuiet DEF SendInsert, SendSelect, IInv, TypeOK, Bookkeeping
<1>2. CASE ReadInsertReply(c)
  <2>1. CASE stmt[c] = "created" /\ Answer(c, "created")
    <3>1. c \in Active /\ row[req[c].order] = req[c].amount
      BY <1>2, <2>1 DEF ReadInsertReply, Active, IInv, DoubtAndLedger
    <3> QED
      BY <2>1, <3>1, MappedAnswer DEF Results
  <2>2. CASE /\ stmt[c] = "nothing" /\ pc[c] = "inserting"
             /\ pc' = [pc EXCEPT ![c] = "select"]
             /\ UNCHANGED <<ledger, up, req, result>>
    BY <2>2, MappedQuiet DEF ledger, IInv, TypeOK
  <2> QED
    BY <1>2, <2>1, <2>2 DEF ReadInsertReply
<1>3. CASE ReadSelectReply(c)
  <2> DEFINE stored == row[req[c].order]
             r == Compared(stored, req[c].amount)
  <2>1. c \in Active /\ stmt[c] = "reading" /\ Answer(c, r)
    BY <1>3 DEF ReadSelectReply, Active
  <2>2. /\ r \in Results \ {"none", "invalid"}
        /\ r # "created"
        /\ r = "replayed" => stored = req[c].amount
        /\ r = "conflict" => stored \notin {None, req[c].amount}
    BY DEF Compared, Results
  <2> HIDE DEF r
  <2> QED
    BY <2>1, <2>2, MappedAnswer
<1>4. CASE Fail(c)
  BY <1>4, MappedAnswer DEF Fail, Results
<1> QED
  BY <1>1, <1>2, <1>3, <1>4 DEF Handle, ReadError

\* A commit is the write of the registry, even for a call given up on.
LEMMA MappedCommit ==
    ASSUME IInv, NEW c \in Calls, Commit(c)
    PROVE  Registry!Next
<1> DEFINE V == [d \in Calls |-> Verdict(d)]
           A == [d \in Calls |-> Asked(d)]
<1>1. /\ stmt[c] = "holding" /\ stmt' = [stmt EXCEPT ![c] = "created"]
      /\ row' = [row EXCEPT ![req[c].order] = req[c].amount]
      /\ UNCHANGED <<pc, req, result>>
  BY DEF Commit, handlers
<1>2. /\ req[c] # None /\ pc[c] # "idle"
      /\ pc[c] = "inserting" \/ result[c] \in {"unavailable", "lost"}
      /\ pc[c] = "done" <=> result[c] # "none"
      /\ row[req[c].order] = None
  BY <1>1 DEF IInv, TypeOK, Bookkeeping, DoubtAndLedger
<1>3. A[c] = [order |-> req[c].order, details |-> req[c].amount]
  BY <1>2 DEF Asked
<1>4. A' = A
  BY <1>1 DEF Asked
<1>5. \A d \in Calls \ {c} : Verdict(d)' = Verdict(d)
  BY <1>1 DEF Verdict, IInv, TypeOK
<1>6. \/ Verdict(c) = "pending" /\ Verdict(c)' = "written"
      \/ Verdict(c) = "unsure" /\ Verdict(c)' = "unsure"
  BY <1>1, <1>2 DEF Verdict, IInv, TypeOK
<1>7. /\ V[c] \in {"pending", "unsure"}
      /\ V' = [V EXCEPT ![c] = IF V[c] = "pending" THEN "written" ELSE V[c]]
  BY <1>5, <1>6
<1>8. A[c].order = req[c].order /\ A[c].details = req[c].amount
  BY <1>3
<1>9. /\ row[A[c].order] = None
      /\ row' = [row EXCEPT ![A[c].order] = A[c].details]
  BY <1>1, <1>2, <1>8
<1>10. Registry!Write(c)
  BY <1>4, <1>7, <1>9 DEF Registry!Write
<1> QED
  BY <1>10 DEF Registry!Next

LEMMA MappedCrash ==
    ASSUME IInv, Crash
    PROVE  Registry!Next
<1> DEFINE V == [c \in Calls |-> Verdict(c)]
           A == [c \in Calls |-> Asked(c)]
<1>1. ASSUME NEW c \in Calls
      PROVE  /\ Asked(c)' = Asked(c)
             /\ Verdict(c)' = IF Verdict(c) \in {"pending", "written"}
                              THEN "unsure" ELSE Verdict(c)
  <2>1. CASE c \in Active
    <3>1. /\ result[c] = "none" /\ pc[c] # "idle"
          /\ result'[c] = "lost" /\ req' = req
      BY <2>1 DEF Crash, Active, IInv, TypeOK, Bookkeeping
    <3> QED
      BY <3>1 DEF Asked, Verdict
  <2>2. CASE c \notin Active
    <3>1. /\ result[c] = "none" => pc[c] = "idle"
          /\ pc'[c] = pc[c] /\ result'[c] = result[c]
          /\ UNCHANGED <<req, stmt>>
      BY <2>2 DEF Crash, ledger, Active, IInv, TypeOK, Bookkeeping
    <3>2. Verdict(c) \notin {"pending", "written"}
      BY <3>1 DEF Verdict
    <3> QED
      BY <3>1, <3>2 DEF Asked, Verdict
  <2> QED
    BY <2>1, <2>2
<1>2. A' = A
  BY <1>1
<1>3. V' = [c \in Calls |-> IF V[c] \in {"pending", "written"}
                            THEN "unsure" ELSE V[c]]
  BY <1>1
<1>4. Registry!Outage
  BY <1>2, <1>3 DEF Registry!Outage, Crash, ledger
<1> QED
  BY <1>4 DEF Registry!Next

\* Seen from its callers, Payment is a registry of write-once records.
THEOREM ImplementsRegistry == Spec => RefinesRegistry
<1>1. Init => Registry!Init
  BY MappedInit
<1>2. IInv /\ [Next]_vars => [Registry!Next]_Registry!vars
  <2> SUFFICES ASSUME IInv, [Next]_vars
               PROVE  Registry!Next \/ UNCHANGED Registry!vars
    OBVIOUS
  <2>1. CASE Boot \/ UNCHANGED vars
    BY <2>1, MappedQuiet DEF Boot, vars, ledger, handlers
  <2>2. CASE Crash
    BY <2>2, MappedCrash
  <2>3. ASSUME NEW c \in Calls, NEW r \in Requests, Receive(c, r)
        PROVE  Registry!Next \/ UNCHANGED Registry!vars
    BY <2>3, MappedReceive
  <2>4. ASSUME NEW c \in Calls, Handle(c) \/ Fail(c)
        PROVE  Registry!Next \/ UNCHANGED Registry!vars
    BY <2>4, MappedHandler
  <2>5. ASSUME NEW c \in Calls, Serve(c)
        PROVE  Registry!Next \/ UNCHANGED Registry!vars
    <3>1. CASE Insert(c)
      BY <3>1, MappedQuiet DEF Insert, handlers, IInv, TypeOK, Bookkeeping
    <3>2. CASE Commit(c)
      BY <3>2, MappedCommit
    <3> QED
      BY <2>5, <3>1, <3>2 DEF Serve
  <2>6. CASE (\E c \in Calls : Abort(c)) \/ PostgresRestart
    BY <2>6, MappedQuiet DEF Abort, PostgresRestart, InFlight, handlers, IInv,
       TypeOK, Bookkeeping
  <2> QED
    BY <2>1, <2>2, <2>3, <2>4, <2>5, <2>6 DEF Next
<1> QED
  BY <1>1, <1>2, InductiveInvariant, PTL DEF Spec, RefinesRegistry, Registry!Spec
=============================================================================
