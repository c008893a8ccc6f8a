-------------------------- MODULE Checkout_proofs --------------------------
(***************************************************************************)
(* Proofs about Checkout, for any number of checkouts, orders and bodies.  *)
(***************************************************************************)
EXTENDS Checkout, TLAPS

LEMMA InitInv == Init => IInv
<1> SUFFICES ASSUME Init PROVE IInv
  OBVIOUS
<1>1. TypeOK
  BY DEF Init, TypeOK, Answers, Inv!TypeOK, Inv!Init, Inv!Verdicts,
     Pay!TypeOK, Pay!Init, Pay!Verdicts
<1>2. Progress /\ Recorded /\ ChargedImpliesReserved /\ ConflictIsFinal
  BY DEF Init, Inv!Init, Pay!Init, Progress, Recorded, ChargedImpliesReserved,
     ConflictIsFinal
<1> QED
  BY <1>1, <1>2 DEF IInv

\* What the statuses passed on come down to.
LEMMA DownstreamStatus ==
    ASSUME NEW s PROVE Downstream(s) \in {"409", "502"}
BY DEF Downstream

LEMMA UnsureIsNoConflict ==
    /\ \A s \in ReserveStatuses("unsure") : Downstream(s) = "502"
    /\ Downstream(ChargeStatus("unsure")) = "502"
BY DEF Downstream, ReserveStatuses, ChargeStatus

-----------------------------------------------------------------------------
(* The handler.                                                            *)

\* An answer given to an open call, provided that it is true.
LEMMA AnswerInv ==
    ASSUME IInv, NEW c \in Open, NEW a \in Answers \ {"none"},
           Answer(c, a),
           a = "200" => payVerdict[c] = "accepted",
           a = "409" => \/ /\ leg[c] = "reserve"
                           /\ invVerdict[c] \in {"rejected", "declined"}
                        \/ /\ leg[c] = "charge"
                           /\ payVerdict[c] = "rejected"
    PROVE  IInv'
<1> USE DEF Answer, inventory, payment
<1>1. c \in Calls /\ leg[c] # "none" /\ answer[c] = "none"
  BY DEF Open
<1>2. TypeOK'
  BY <1>1 DEF IInv, TypeOK, Answers, Inv!TypeOK, Pay!TypeOK
<1>3. Progress'
  BY <1>1 DEF IInv, TypeOK, Progress
<1>4. (Recorded /\ ChargedImpliesReserved)'
  BY DEF IInv, Recorded, ChargedImpliesReserved
<1>5. ConflictIsFinal'
  BY <1>1 DEF IInv, TypeOK, Progress, Recorded, ConflictIsFinal
<1> QED
  BY <1>2, <1>3, <1>4, <1>5 DEF IInv

LEMMA ProcessInv == IInv /\ (Boot \/ Crash) => IInv'
<1>1. ASSUME IInv, Boot PROVE IInv'
  BY <1>1 DEF Boot, inventory, payment, handlers, IInv, TypeOK, Progress,
     Recorded, ChargedImpliesReserved, ConflictIsFinal, Inv!TypeOK, Pay!TypeOK
<1>2. ASSUME IInv, Crash PROVE IInv'
  <2> USE <1>2 DEF Crash, inventory, payment, Open
  <2>1. TypeOK'
    BY DEF IInv, TypeOK, Answers, Inv!TypeOK, Pay!TypeOK
  <2>2. Progress'
    BY DEF IInv, TypeOK, Progress
  <2>3. (Recorded /\ ChargedImpliesReserved)'
    BY DEF IInv, Recorded, ChargedImpliesReserved
  <2>4. ConflictIsFinal'
    BY DEF IInv, TypeOK, ConflictIsFinal
  <2> QED
    BY <2>1, <2>2, <2>3, <2>4 DEF IInv
<1> QED
  BY <1>1, <1>2

LEMMA ReceiveInv ==
    ASSUME IInv, NEW c \in Calls, NEW r \in Requests, Receive(c, r)
    PROVE  IInv'
<1> USE DEF Receive, inventory, payment
<1>1. /\ leg[c] = "none" /\ answer[c] = "none" /\ r # None
      /\ invVerdict[c] = "idle" /\ payVerdict[c] = "idle"
  BY NoneAssumption DEF IInv, Progress
<1>2. TypeOK'
  BY DEF IInv, TypeOK, Answers, Inv!TypeOK, Pay!TypeOK
<1>3. Progress'
  BY <1>1 DEF IInv, TypeOK, Progress
<1>4. (Recorded /\ ChargedImpliesReserved)'
  BY <1>1 DEF IInv, TypeOK, Recorded, ChargedImpliesReserved
<1>5. ConflictIsFinal'
  BY <1>1 DEF IInv, TypeOK, ConflictIsFinal
<1> QED
  BY <1>2, <1>3, <1>4, <1>5 DEF IInv

LEMMA ReserveReplyInv ==
    ASSUME IInv, NEW c \in Calls, ReserveReply(c)
    PROVE  IInv'
<1>1. c \in Open /\ leg[c] = "reserve" /\ answer[c] = "none"
  BY DEF ReserveReply, Open
<1>2. CASE /\ invVerdict[c] = "accepted"
           /\ leg' = [leg EXCEPT ![c] = "charge"]
           /\ UNCHANGED <<inventory, payment, up, req, answer>>
  <2> USE <1>1, <1>2 DEF inventory, payment
  <2>1. TypeOK' /\ Progress'
    BY DEF IInv, TypeOK, Progress, Inv!TypeOK, Pay!TypeOK
  <2>2. (Recorded /\ ChargedImpliesReserved)'
    BY DEF IInv, Recorded, ChargedImpliesReserved
  <2>3. ConflictIsFinal'
    BY DEF IInv, TypeOK, ConflictIsFinal
  <2> QED
    BY <2>1, <2>2, <2>3 DEF IInv
<1>3. CASE /\ invVerdict[c] \in {"rejected", "declined", "unsure"}
           /\ \E s \in ReserveStatuses(invVerdict[c]) : Answer(c, Downstream(s))
  <2>1. PICK s \in ReserveStatuses(invVerdict[c]) : Answer(c, Downstream(s))
    BY <1>3
  <2>2. /\ Downstream(s) \in {"409", "502"}
        /\ invVerdict[c] = "unsure" => Downstream(s) = "502"
    BY DownstreamStatus, UnsureIsNoConflict
  <2> QED
    BY <1>1, <1>3, <2>1, <2>2, AnswerInv DEF Answers
<1> QED
  BY <1>2, <1>3 DEF ReserveReply

LEMMA ChargeReplyInv ==
    ASSUME IInv, NEW c \in Calls, ChargeReply(c)
    PROVE  IInv'
<1>1. c \in Open /\ leg[c] = "charge"
  BY DEF ChargeReply
<1>2. CASE payVerdict[c] = "accepted" /\ Answer(c, "200")
  BY <1>1, <1>2, AnswerInv DEF Answers
<1>3. CASE /\ payVerdict[c] \in {"rejected", "unsure"}
           /\ Answer(c, Downstream(ChargeStatus(payVerdict[c])))
  <2>1. /\ Downstream(ChargeStatus(payVerdict[c])) \in {"409", "502"}
        /\ payVerdict[c] = "unsure" =>
                Downstream(ChargeStatus(payVerdict[c])) = "502"
    BY DownstreamStatus, UnsureIsNoConflict
  <2> QED
    BY <1>1, <1>3, <2>1, AnswerInv DEF Answers
<1> QED
  BY <1>2, <1>3 DEF ChargeReply

LEMMA GivenUpInv ==
    ASSUME IInv, NEW c \in Calls, Timeout(c) \/ Unreachable(c) \/ HangUp(c)
    PROVE  IInv'
BY AnswerInv DEF Timeout, Unreachable, HangUp, Answers

-----------------------------------------------------------------------------
(* The network and the two services.                                       *)

LEMMA DeliverReserveInv ==
    ASSUME IInv, NEW c \in Calls, DeliverReserve(c)
    PROVE  IInv'
<1> USE DEF DeliverReserve, Inv!Ask, payment, handlers
<1>1. req[c] \in Requests /\ req[c].order \in Orders /\ req[c].item \in Items
  BY RequestsAssumption DEF IInv, TypeOK, Progress
<1>2. TypeOK'
  BY <1>1 DEF IInv, TypeOK, Inv!TypeOK, Inv!Request, Inv!Verdicts, Pay!TypeOK
<1>3. Progress'
  BY DEF IInv, TypeOK, Inv!TypeOK, Progress
<1>4. (Recorded /\ ChargedImpliesReserved)'
  BY DEF IInv, TypeOK, Inv!TypeOK, Recorded, ChargedImpliesReserved
<1>5. ConflictIsFinal'
  BY DEF IInv, TypeOK, Inv!TypeOK, ConflictIsFinal
<1> QED
  BY <1>2, <1>3, <1>4, <1>5 DEF IInv

LEMMA DeliverChargeInv ==
    ASSUME IInv, NEW c \in Calls, DeliverCharge(c)
    PROVE  IInv'
<1> USE DEF DeliverCharge, Pay!Ask, inventory, handlers
<1>1. req[c] \in Requests /\ req[c].order \in Orders /\ req[c].amount \in Amounts
  BY RequestsAssumption DEF IInv, TypeOK, Progress
<1>2. TypeOK'
  BY <1>1 DEF IInv, TypeOK, Pay!TypeOK, Pay!Request, Pay!Verdicts, Inv!TypeOK
<1>3. Progress'
  BY DEF IInv, TypeOK, Pay!TypeOK, Progress
<1>4. (Recorded /\ ChargedImpliesReserved)'
  BY DEF IInv, TypeOK, Pay!TypeOK, Recorded, ChargedImpliesReserved
<1>5. ConflictIsFinal'
  BY DEF IInv, TypeOK, Pay!TypeOK, ConflictIsFinal
<1> QED
  BY <1>2, <1>3, <1>4, <1>5 DEF IInv

\* A call that a service knows is that of a request it was sent.
LEMMA AskedCall ==
    ASSUME IInv, NEW c \in Calls
    PROVE  /\ invVerdict[c] # "idle" =>
                /\ req[c] \in Requests
                /\ invAsked[c].order = req[c].order
                /\ invAsked[c].details = req[c].item
                /\ req[c].order \in Orders
                /\ req[c].item \in Items /\ req[c].item # None
                /\ leg[c] # "none"
           /\ payVerdict[c] # "idle" =>
                /\ req[c] \in Requests
                /\ payAsked[c].order = req[c].order
                /\ payAsked[c].details = req[c].amount
                /\ req[c].order \in Orders
                /\ req[c].amount \in Amounts /\ req[c].amount # None
                /\ leg[c] = "charge"
                /\ resv[req[c].order] # None
<1>1. invVerdict[c] # "idle" \/ payVerdict[c] # "idle" => req[c] \in Requests
  BY DEF IInv, TypeOK, Progress
<1>2. req[c] \in Requests => /\ req[c].order \in Orders
                             /\ req[c].item \in Items /\ req[c].item # None
                             /\ req[c].amount \in Amounts /\ req[c].amount # None
  BY RequestsAssumption, NoneAssumption
<1>3. ASSUME invVerdict[c] # "idle"
      PROVE  /\ invAsked[c].order = req[c].order
             /\ invAsked[c].details = req[c].item
             /\ leg[c] # "none"
  <2>1. /\ invAsked[c] = [order |-> req[c].order, details |-> req[c].item]
        /\ leg[c] # "none"
    BY <1>3 DEF IInv, Progress, Recorded
  <2> QED
    BY <2>1
<1>4. ASSUME payVerdict[c] # "idle"
      PROVE  /\ payAsked[c].order = req[c].order
             /\ payAsked[c].details = req[c].amount
             /\ leg[c] = "charge"
             /\ invVerdict[c] = "accepted"
             /\ resv[req[c].order] = req[c].item
  <2>1. payAsked[c] = [order |-> req[c].order, details |-> req[c].amount]
    BY <1>4 DEF IInv, Recorded
  <2>2. leg[c] = "charge" /\ invVerdict[c] = "accepted"
    BY <1>4 DEF IInv, Progress
  <2>3. resv[req[c].order] = req[c].item
    BY <2>2 DEF IInv, Recorded
  <2> QED
    BY <2>1, <2>2, <2>3
<1> QED
  BY <1>1, <1>2, <1>3, <1>4

LEMMA InventoryWriteInv ==
    ASSUME IInv, NEW c \in Calls, Inv!Write(c), UNCHANGED <<payment, up, handlers>>
    PROVE  IInv'
<1> USE DEF Inv!Write, payment, handlers
<1>1. /\ invVerdict[c] \in {"pending", "unsure"}
      /\ resv[req[c].order] = None
      /\ resv' = [resv EXCEPT ![req[c].order] = req[c].item]
      /\ req[c].order \in Orders /\ req[c].item \in Items /\ req[c].item # None
      /\ leg[c] # "none"
  BY AskedCall
<1>2. TypeOK'
  BY <1>1 DEF IInv, TypeOK, Inv!TypeOK, Inv!Verdicts, Pay!TypeOK
<1>3. Progress'
  BY <1>1 DEF IInv, TypeOK, Inv!TypeOK, Progress
<1>4. Recorded'
  <2>1. ASSUME NEW d \in Calls, invVerdict[d] = "accepted"
        PROVE  /\ req[d].order # req[c].order
               /\ resv'[req[d].order] = req[d].item
    <3>1. /\ resv[req[d].order] = req[d].item /\ req[d].item # None
          /\ req[d].order \in Orders
      BY <2>1, AskedCall DEF IInv, Recorded
    <3> QED
      BY <1>1, <3>1 DEF IInv, TypeOK, Inv!TypeOK
  <2> QED
    BY <1>1, <2>1 DEF IInv, TypeOK, Inv!TypeOK, Recorded
<1>5. ChargedImpliesReserved'
  BY <1>1 DEF IInv, TypeOK, Inv!TypeOK, ChargedImpliesReserved
<1>6. ConflictIsFinal'
  BY <1>1 DEF IInv, TypeOK, Inv!TypeOK, ConflictIsFinal
<1> QED
  BY <1>2, <1>3, <1>4, <1>5, <1>6 DEF IInv

LEMMA InventoryVerdictInv ==
    ASSUME IInv, UNCHANGED <<payment, up, handlers>>,
           (\E c \in Calls : Inv!Accept(c) \/ Inv!Reject(c) \/ Inv!Decline(c)
                             \/ Inv!GiveUp(c)) \/ Inv!Outage
    PROVE  IInv'
<1> USE DEF payment, handlers
<1>1. /\ UNCHANGED <<resv, invAsked>>
      /\ invVerdict' \in [Calls -> Inv!Verdicts]
      /\ \A d \in Calls :
            \/ invVerdict'[d] = invVerdict[d]
            \/ /\ invVerdict[d] \in {"pending", "written"}
               /\ invVerdict'[d] \in {"rejected", "declined", "unsure"}
            \/ /\ invVerdict[d] \in {"pending", "written"}
               /\ invVerdict'[d] = "accepted"
               /\ resv[req[d].order] = req[d].item
  BY AskedCall DEF Inv!Accept, Inv!Reject, Inv!Decline, Inv!GiveUp, Inv!Outage,
     IInv, TypeOK, Inv!TypeOK, Inv!Verdicts
<1> HIDE DEF Inv!Verdicts
<1>2. TypeOK'
  BY <1>1 DEF IInv, TypeOK, Inv!TypeOK, Pay!TypeOK
<1>3. Progress'
  BY <1>1 DEF IInv, Progress
<1>4. (Recorded /\ ChargedImpliesReserved)'
  BY <1>1 DEF IInv, Recorded, ChargedImpliesReserved
<1>5. ConflictIsFinal'
  BY <1>1 DEF IInv, ConflictIsFinal
<1> QED
  BY <1>2, <1>3, <1>4, <1>5 DEF IInv

LEMMA PaymentWriteInv ==
    ASSUME IInv, NEW c \in Calls, Pay!Write(c), UNCHANGED <<inventory, up, handlers>>
    PROVE  IInv'
<1> USE DEF Pay!Write, inventory, handlers
<1>1. /\ payVerdict[c] \in {"pending", "unsure"}
      /\ ledger[req[c].order] = None
      /\ ledger' = [ledger EXCEPT ![req[c].order] = req[c].amount]
      /\ req[c].order \in Orders /\ req[c].amount \in Amounts
      /\ leg[c] = "charge" /\ resv[req[c].order] # None
  BY AskedCall
<1>2. TypeOK'
  BY <1>1 DEF IInv, TypeOK, Pay!TypeOK, Pay!Verdicts, Inv!TypeOK
<1>3. Progress'
  BY <1>1 DEF IInv, TypeOK, Pay!TypeOK, Progress
<1>4. \A d \in Calls : payVerdict[d] \in {"accepted", "rejected"} =>
            req[d].order # req[c].order /\ d # c
  <2> SUFFICES ASSUME NEW d \in Calls, payVerdict[d] \in {"accepted", "rejected"}
               PROVE  req[d].order # req[c].order /\ d # c
    OBVIOUS
  <2>1. req[d].amount # None
    BY AskedCall
  <2>2. ledger[req[d].order] # None
    BY <2>1 DEF IInv, Recorded
  <2> QED
    BY <1>1, <2>2
<1>5. \A o \in Orders : o # req[c].order => ledger'[o] = ledger[o]
  BY <1>1 DEF IInv, TypeOK, Pay!TypeOK
<1>6. Recorded'
  BY <1>1, <1>4, <1>5, AskedCall DEF IInv, TypeOK, Pay!TypeOK, Recorded
<1>7. ChargedImpliesReserved'
  BY <1>1, <1>5 DEF IInv, ChargedImpliesReserved
<1>8. ConflictIsFinal'
  BY <1>1, <1>4, <1>5, AskedCall DEF IInv, TypeOK, Pay!TypeOK, ConflictIsFinal
<1> QED
  BY <1>2, <1>3, <1>6, <1>7, <1>8 DEF IInv

LEMMA PaymentVerdictInv ==
    ASSUME IInv, UNCHANGED <<inventory, up, handlers>>,
           (\E c \in Calls : Pay!Accept(c) \/ Pay!Reject(c) \/ Pay!GiveUp(c))
           \/ Pay!Outage
    PROVE  IInv'
<1> USE DEF inventory, handlers
<1>1. /\ UNCHANGED <<ledger, payAsked>>
      /\ payVerdict' \in [Calls -> Pay!Verdicts]
      /\ \A d \in Calls :
            \/ payVerdict'[d] = payVerdict[d]
            \/ /\ payVerdict[d] \in {"pending", "written"}
               /\ \/ payVerdict'[d] = "unsure"
                  \/ /\ payVerdict'[d] = "accepted"
                     /\ ledger[req[d].order] = req[d].amount
                  \/ /\ payVerdict'[d] = "rejected"
                     /\ ledger[req[d].order] \notin {None, req[d].amount}
  BY AskedCall DEF Pay!Accept, Pay!Reject, Pay!GiveUp, Pay!Outage,
     IInv, TypeOK, Pay!TypeOK, Pay!Verdicts
<1>2. TypeOK'
  BY <1>1 DEF IInv, TypeOK, Pay!TypeOK, Inv!TypeOK
<1>3. Progress'
  BY <1>1 DEF IInv, Progress
<1>4. (Recorded /\ ChargedImpliesReserved)'
  BY <1>1 DEF IInv, Recorded, ChargedImpliesReserved
<1>5. ConflictIsFinal'
  BY <1>1 DEF IInv, ConflictIsFinal
<1> QED
  BY <1>2, <1>3, <1>4, <1>5 DEF IInv
-----------------------------------------------------------------------------
LEMMA NextInv == IInv /\ [Next]_vars => IInv'
<1> SUFFICES ASSUME IInv, [Next]_vars PROVE IInv'
  OBVIOUS
<1>1. CASE Boot \/ Crash
  BY <1>1, ProcessInv
<1>2. CASE \E c \in Calls, r \in Requests : Receive(c, r)
  BY <1>2, ReceiveInv
<1>3. CASE \E c \in Calls : ReserveReply(c) \/ ChargeReply(c)
  BY <1>3, ReserveReplyInv, ChargeReplyInv
<1>4. CASE \E c \in Calls : Timeout(c) \/ Unreachable(c) \/ HangUp(c)
  BY <1>4, GivenUpInv
<1>5. CASE \E c \in Calls : DeliverReserve(c) \/ DeliverCharge(c)
  BY <1>5, DeliverReserveInv, DeliverChargeInv
<1>6. CASE InventoryStep
  BY <1>6, InventoryWriteInv, InventoryVerdictInv DEF InventoryStep
<1>7. CASE PaymentStep
  BY <1>7, PaymentWriteInv, PaymentVerdictInv DEF PaymentStep
<1>8. CASE UNCHANGED vars
  BY <1>8 DEF vars, inventory, payment, handlers, IInv, TypeOK, Progress,
     Recorded, ChargedImpliesReserved, ConflictIsFinal, Inv!TypeOK, Pay!TypeOK
<1> QED
  BY <1>1, <1>2, <1>3, <1>4, <1>5, <1>6, <1>7, <1>8 DEF Next

\* The inductive invariant holds for every number of checkouts and orders.
THEOREM InductiveInvariant == Spec => []IInv
<1> QED
  BY InitInv, NextInv, PTL DEF Spec

\* No order is ever charged without being reserved.
THEOREM NoChargeWithoutReservation == Spec => []ChargedImpliesReserved
<1>1. IInv => ChargedImpliesReserved
  BY DEF IInv
<1> QED
  BY <1>1, InductiveInvariant, PTL

\* What a 200 reported is in both records for good.
THEOREM CompletedStaysTrue == Spec => []CompletedIsRecorded
<1>1. IInv => CompletedIsRecorded
  <2> SUFFICES ASSUME IInv, NEW c \in Calls, answer[c] = "200"
               PROVE  /\ resv[req[c].order] = req[c].item
                      /\ ledger[req[c].order] = req[c].amount
    BY DEF CompletedIsRecorded
  <2>1. payVerdict[c] = "accepted"
    BY DEF IInv, Progress
  <2>2. invVerdict[c] = "accepted"
    BY <2>1 DEF IInv, Progress
  <2> QED
    BY <2>1, <2>2 DEF IInv, Recorded
<1> QED
  BY <1>1, InductiveInvariant, PTL

\* A 409 says that this checkout charged nothing and never will.
THEOREM ConflictsAreFinal == Spec => []ConflictIsFinal
<1>1. IInv => ConflictIsFinal
  BY DEF IInv
<1> QED
  BY <1>1, InductiveInvariant, PTL

-----------------------------------------------------------------------------
(* Checkout implements the life of an order.                               *)

\* The requests of the checkouts reported as completed.
Completed == {req[c] : c \in {d \in Calls : answer[d] = "200"}}

\* A step that leaves the records alone and reports nothing as completed.
LEMMA MappedQuiet ==
    ASSUME UNCHANGED <<resv, ledger>>,
           \A c \in Calls : (answer[c] = "200") <=> (answer'[c] = "200"),
           \A c \in Calls : answer[c] = "200" => req'[c] = req[c]
    PROVE  UNCHANGED Lifecycle!vars
<1>1. Completed' = Completed
  BY DEF Completed
<1> QED
  BY <1>1 DEF Lifecycle!vars, Completed

LEMMA MappedAnswer ==
    ASSUME IInv, NEW c \in Open, NEW a \in Answers \ {"none"}, Answer(c, a),
           a = "200" => payVerdict[c] = "accepted"
    PROVE  Lifecycle!Next \/ UNCHANGED Lifecycle!vars
<1>1. /\ c \in Calls /\ leg[c] # "none" /\ answer[c] = "none"
      /\ answer' = [answer EXCEPT ![c] = a]
      /\ UNCHANGED <<resv, ledger, req>>
      /\ answer \in [Calls -> Answers]
  BY DEF Open, Answer, inventory, payment, IInv, TypeOK
<1>2. CASE a # "200"
  BY <1>1, <1>2, MappedQuiet
<1>3. CASE a = "200"
  <2>1. payVerdict[c] = "accepted" /\ invVerdict[c] = "accepted"
    BY <1>1, <1>3 DEF IInv, Progress
  <2>2. resv[req[c].order] = req[c].item /\ ledger[req[c].order] = req[c].amount
    BY <2>1, <1>1 DEF IInv, Recorded
  <2>3. req[c] \in Lifecycle!Checkout
    BY <1>1, <2>1, AskedCall, RequestsAssumption DEF Lifecycle!Checkout
  <2>4. PICK k \in Lifecycle!Checkout : k = req[c]
    BY <2>3
  <2>5. Completed' = Completed \cup {k}
    BY <1>1, <1>3, <2>4 DEF Completed
  <2>6. Lifecycle!Complete(k)
    BY <1>1, <2>2, <2>4, <2>5 DEF Lifecycle!Complete, Completed
  <2> QED
    BY <2>6 DEF Lifecycle!Next
<1> QED
  BY <1>2, <1>3

LEMMA MappedInventory ==
    ASSUME IInv, InventoryStep
    PROVE  Lifecycle!Next \/ UNCHANGED Lifecycle!vars
<1>1. UNCHANGED <<ledger, req, answer>>
  BY DEF InventoryStep, payment, handlers
<1>2. ASSUME NEW c \in Calls, Inv!Write(c)
      PROVE  Lifecycle!Next
  <2>1. /\ req[c].order \in Orders /\ req[c].item \in Items
        /\ resv[req[c].order] = None
        /\ resv' = [resv EXCEPT ![req[c].order] = req[c].item]
    BY <1>2, AskedCall DEF Inv!Write
  <2>2. Lifecycle!Reserve(req[c].order, req[c].item)
    BY <1>1, <2>1 DEF Lifecycle!Reserve
  <2> QED
    BY <2>1, <2>2 DEF Lifecycle!Next
<1>3. CASE UNCHANGED resv
  BY <1>1, <1>3, MappedQuiet
<1> QED
  BY <1>2, <1>3 DEF InventoryStep, Inv!Accept, Inv!Reject, Inv!Decline,
     Inv!GiveUp, Inv!Outage

LEMMA MappedPayment ==
    ASSUME IInv, PaymentStep
    PROVE  Lifecycle!Next \/ UNCHANGED Lifecycle!vars
<1>1. UNCHANGED <<resv, req, answer>>
  BY DEF PaymentStep, inventory, handlers
<1>2. ASSUME NEW c \in Calls, Pay!Write(c)
      PROVE  Lifecycle!Next
  <2>1. /\ req[c].order \in Orders /\ req[c].amount \in Amounts
        /\ resv[req[c].order] # None
        /\ ledger[req[c].order] = None
        /\ ledger' = [ledger EXCEPT ![req[c].order] = req[c].amount]
    BY <1>2, AskedCall DEF Pay!Write
  <2>2. Lifecycle!Charge(req[c].order, req[c].amount)
    BY <1>1, <2>1 DEF Lifecycle!Charge
  <2> QED
    BY <2>1, <2>2 DEF Lifecycle!Next
<1>3. CASE UNCHANGED ledger
  BY <1>1, <1>3, MappedQuiet
<1> QED
  BY <1>2, <1>3 DEF PaymentStep, Pay!Accept, Pay!Reject, Pay!GiveUp, Pay!Outage

LEMMA MappedReserveReply ==
    ASSUME IInv, NEW c \in Calls, ReserveReply(c)
    PROVE  Lifecycle!Next \/ UNCHANGED Lifecycle!vars
<1>1. CASE UNCHANGED <<inventory, payment, up, req, answer>>
  BY <1>1, MappedQuiet DEF inventory, payment
<1>2. ASSUME NEW s, Answer(c, Downstream(s))
      PROVE  Lifecycle!Next \/ UNCHANGED Lifecycle!vars
  BY <1>2, DownstreamStatus, MappedAnswer DEF ReserveReply, Answers
<1> QED
  BY <1>1, <1>2 DEF ReserveReply

LEMMA MappedChargeReply ==
    ASSUME IInv, NEW c \in Calls, ChargeReply(c)
    PROVE  Lifecycle!Next \/ UNCHANGED Lifecycle!vars
<1>1. CASE payVerdict[c] = "accepted" /\ Answer(c, "200")
  BY <1>1, MappedAnswer DEF ChargeReply, Answers
<1>2. ASSUME NEW s, Answer(c, Downstream(s))
      PROVE  Lifecycle!Next \/ UNCHANGED Lifecycle!vars
  BY <1>2, DownstreamStatus, MappedAnswer DEF ChargeReply, Answers
<1> QED
  BY <1>1, <1>2 DEF ChargeReply

\* ShopSim, with everything that can fail in it, implements the life of an
\* order: reserved first, then charged, reported completed only when it is.
THEOREM ImplementsLifecycle == Spec => RefinesLifecycle
<1>1. Init => Lifecycle!Init
  BY DEF Init, Inv!Init, Pay!Init, Lifecycle!Init
<1>2. IInv /\ [Next]_vars => [Lifecycle!Next]_Lifecycle!vars
  <2> SUFFICES ASSUME IInv, [Next]_vars
               PROVE  Lifecycle!Next \/ UNCHANGED Lifecycle!vars
    OBVIOUS
  <2>1. CASE Boot \/ Crash \/ UNCHANGED vars
    BY <2>1, MappedQuiet DEF Boot, Crash, Open, vars, inventory, payment,
       handlers, IInv, TypeOK
  <2>2. ASSUME NEW c \in Calls, NEW r \in Requests, Receive(c, r)
        PROVE  UNCHANGED Lifecycle!vars
    <3>1. answer[c] = "none" /\ answer'[c] # "200"
      BY <2>2 DEF Receive, IInv, TypeOK, Progress
    <3> QED
      BY <2>2, <3>1, MappedQuiet DEF Receive, inventory, payment, IInv, TypeOK
  <2>3. ASSUME NEW c \in Calls, Timeout(c) \/ Unreachable(c) \/ HangUp(c)
        PROVE  Lifecycle!Next \/ UNCHANGED Lifecycle!vars
    BY <2>3, MappedAnswer DEF Timeout, Unreachable, HangUp, Answers
  <2>4. ASSUME NEW c \in Calls, DeliverReserve(c) \/ DeliverCharge(c)
        PROVE  UNCHANGED Lifecycle!vars
    BY <2>4, MappedQuiet DEF DeliverReserve, DeliverCharge, Inv!Ask, Pay!Ask,
       inventory, payment, handlers
  <2> QED
    BY <2>1, <2>2, <2>3, <2>4, MappedReserveReply, MappedChargeReply,
       MappedInventory, MappedPayment DEF Next
<1> QED
  BY <1>1, <1>2, InductiveInvariant, PTL
     DEF Spec, RefinesLifecycle, Lifecycle!Spec
=============================================================================
