------------------------------ MODULE Checkout ------------------------------
(***************************************************************************)
(* The Checkout service (shopsim/checkout/main.go) with the two stores it  *)
(* drives: POST /reserve to Inventory, then POST /charge to Payment, each  *)
(* at most once per checkout, with a client timeout and no retry.          *)
(*                                                                         *)
(* Inventory and Payment are the registries of OrderRegistry, which the    *)
(* modules Inventory and Payment implement.  A POST that Checkout gave up  *)
(* on may still arrive, and may still be carried out.                      *)
(***************************************************************************)
CONSTANTS
    Calls,          \* executions of the /checkout handler
    Orders,         \* order ids
    Items,          \* what is reserved: a SKU and a quantity
    Amounts,        \* what is charged
    Requests,       \* the decoded bodies: [order, item, amount] records
    BadRequests,    \* those with a blank or non-positive field
    None            \* nothing recorded, no request

ASSUME RequestsAssumption ==
    Requests \subseteq [order : Orders, item : Items, amount : Amounts]
ASSUME NoneAssumption ==
    /\ None \notin Items
    /\ None \notin Amounts
    /\ None \notin Requests

VARIABLES
    \* Inventory and Payment, see OrderRegistry
    resv, invAsked, invVerdict,
    ledger, payAsked, payVerdict,
    \* the Checkout process
    up,             \* whether it runs
    req,            \* req[c]: the checkout asked for, or None
    leg,            \* leg[c]: the POST that was sent last
    answer          \* answer[c]: the HTTP status, or what came of it instead

inventory == <<resv, invAsked, invVerdict>>
payment == <<ledger, payAsked, payVerdict>>
handlers == <<req, leg, answer>>
vars == <<inventory, payment, up, handlers>>

Inv == INSTANCE OrderRegistry WITH
           Details <- Items,
           record <- resv, asked <- invAsked, verdict <- invVerdict

Pay == INSTANCE OrderRegistry WITH
           Details <- Amounts,
           record <- ledger, asked <- payAsked, verdict <- payVerdict

\* "gone": the caller hung up or Checkout crashed, nobody read an answer.
Answers == {"none", "200", "400", "409", "502", "504", "gone"}

TypeOK ==
    /\ Inv!TypeOK
    /\ Pay!TypeOK
    /\ up \in BOOLEAN
    /\ req \in [Calls -> Requests \cup {None}]
    /\ leg \in [Calls -> {"none", "reserve", "charge"}]
    /\ answer \in [Calls -> Answers]

Init ==
    /\ Inv!Init
    /\ Pay!Init
    /\ up = FALSE
    /\ req = [c \in Calls |-> None]
    /\ leg = [c \in Calls |-> "none"]
    /\ answer = [c \in Calls |-> "none"]

-----------------------------------------------------------------------------
(* The handler.                                                            *)

\* The calls that wait for Inventory or Payment.
Open == {c \in Calls : leg[c] # "none" /\ answer[c] = "none"}

Boot ==
    /\ ~up
    /\ up' = TRUE
    /\ UNCHANGED <<inventory, payment, handlers>>

Crash ==
    /\ up
    /\ up' = FALSE
    /\ answer' = [c \in Calls |-> IF c \in Open THEN "gone" ELSE answer[c]]
    /\ UNCHANGED <<inventory, payment, req, leg>>

Receive(c, r) ==
    /\ up
    /\ req[c] = None
    /\ req' = [req EXCEPT ![c] = r]
    /\ IF r \in BadRequests
       THEN /\ answer' = [answer EXCEPT ![c] = "400"]
            /\ UNCHANGED leg
       ELSE /\ leg' = [leg EXCEPT ![c] = "reserve"]
            /\ UNCHANGED answer
    /\ UNCHANGED <<inventory, payment, up>>

Answer(c, a) ==
    /\ answer' = [answer EXCEPT ![c] = a]
    /\ UNCHANGED <<inventory, payment, up, req, leg>>

\* (Mutant: every failure is passed on as a conflict.)
DownstreamConflict(status) == "409"

\* downstreamError keeps a conflict and hides every other error status.
Downstream(status) == IF status = "409" THEN "409" ELSE "502"

\* The statuses Inventory sends: insufficient stock is a 409 as well, and
\* contention a 503.
ReserveStatuses(verdict) ==
    CASE verdict = "rejected" -> {"409"}
      [] verdict = "declined" -> {"404", "409", "503"}
      [] verdict = "unsure" -> {"503"}

\* (Mutant: the charge is sent whatever Inventory answered.)
ReserveReplyUnchecked(c) ==
    /\ c \in Open
    /\ leg[c] = "reserve"
    /\ invVerdict[c] \in {"accepted", "rejected", "declined", "unsure"}
    /\ leg' = [leg EXCEPT ![c] = "charge"]
    /\ UNCHANGED <<inventory, payment, up, req, answer>>

ReserveReply(c) ==
    /\ c \in Open
    /\ leg[c] = "reserve"
    /\ \/ /\ invVerdict[c] = "accepted"
          /\ leg' = [leg EXCEPT ![c] = "charge"]
          /\ UNCHANGED <<inventory, payment, up, req, answer>>
       \/ /\ invVerdict[c] \in {"rejected", "declined", "unsure"}
          /\ \E status \in ReserveStatuses(invVerdict[c]) :
                Answer(c, Downstream(status))

\* A failed payment leaves the reservation in place: nothing undoes it.
ChargeStatus(verdict) == IF verdict = "rejected" THEN "409" ELSE "503"

\* (Mutant: the checkout is completed whatever Payment answered.)
ChargeReplyUnchecked(c) ==
    /\ c \in Open
    /\ leg[c] = "charge"
    /\ payVerdict[c] \in {"accepted", "rejected", "unsure"}
    /\ Answer(c, "200")

ChargeReply(c) ==
    /\ c \in Open
    /\ leg[c] = "charge"
    /\ \/ payVerdict[c] = "accepted" /\ Answer(c, "200")
       \/ /\ payVerdict[c] \in {"rejected", "unsure"}
          /\ Answer(c, Downstream(ChargeStatus(payVerdict[c])))

\* (Mutant: a timeout for the first POST only.)
TimeoutOfReserve(c) == c \in Open /\ leg[c] = "reserve" /\ Answer(c, "504")

\* The two-second client timeout of the POST in progress.
Timeout(c) == c \in Open /\ Answer(c, "504")

\* The POST fails otherwise: no connection, a broken or unreadable reply.
Unreachable(c) == c \in Open /\ Answer(c, "502")

\* The caller of Checkout hangs up, which cancels the POST in progress.
HangUp(c) == c \in Open /\ Answer(c, "gone")

-----------------------------------------------------------------------------
(* The network and the two services.                                       *)

DeliverReserve(c) ==
    /\ leg[c] # "none"
    /\ Inv!Ask(c, [order |-> req[c].order, details |-> req[c].item])
    /\ UNCHANGED <<payment, up, handlers>>

DeliverCharge(c) ==
    /\ leg[c] = "charge"
    /\ Pay!Ask(c, [order |-> req[c].order, details |-> req[c].amount])
    /\ UNCHANGED <<inventory, up, handlers>>

InventoryStep ==
    /\ \/ \E c \in Calls : \/ Inv!Write(c) \/ Inv!Accept(c) \/ Inv!Reject(c)
                           \/ Inv!Decline(c) \/ Inv!GiveUp(c)
       \/ Inv!Outage
    /\ UNCHANGED <<payment, up, handlers>>

\* Payment refuses an order only for its amount: it never declines.
PaymentStep ==
    /\ \/ \E c \in Calls : \/ Pay!Write(c) \/ Pay!Accept(c) \/ Pay!Reject(c)
                           \/ Pay!GiveUp(c)
       \/ Pay!Outage
    /\ UNCHANGED <<inventory, up, handlers>>

-----------------------------------------------------------------------------
Next ==
    \/ Boot \/ Crash
    \/ \E c \in Calls :
        \/ \E r \in Requests : Receive(c, r)
        \/ ReserveReply(c) \/ ChargeReply(c)
        \/ Timeout(c) \/ Unreachable(c) \/ HangUp(c)
        \/ DeliverReserve(c) \/ DeliverCharge(c)
    \/ InventoryStep
    \/ PaymentStep

Spec == Init /\ [][Next]_vars

\* The client timeout of a POST expires.  The handler reads what has arrived.
Fairness ==
    \A c \in Calls : /\ WF_vars(Timeout(c))
                     /\ WF_vars(ReserveReply(c) \/ ChargeReply(c))

FairSpec == Spec /\ Fairness

-----------------------------------------------------------------------------
(* Properties.                                                             *)

\* A payment failure can leave a reservation without a charge, but nothing
\* leaves a charge without a reservation.
ChargedImpliesReserved ==
    \A o \in Orders : ledger[o] # None => resv[o] # None

\* A 200 is true for good: the order is reserved and charged exactly as that
\* checkout asked.  Two completed checkouts of an order asked for the same.
CompletedIsRecorded ==
    \A c \in Calls :
        answer[c] = "200" =>
            /\ resv[req[c].order] = req[c].item
            /\ ledger[req[c].order] = req[c].amount

\* A 409 is final, unlike a 502 or a 504: this checkout charged nothing and
\* never will, and it came from the store that refused: Inventory, which then
\* never hears of it again, or a ledger that holds another amount.
ConflictIsFinal ==
    \A c \in Calls :
        answer[c] = "409" =>
            \/ /\ leg[c] = "reserve"
               /\ invVerdict[c] \in {"rejected", "declined"}
               /\ payVerdict[c] = "idle"
            \/ /\ leg[c] = "charge"
               /\ payVerdict[c] = "rejected"
               /\ ledger[req[c].order] \notin {None, req[c].amount}

\* No checkout waits for ever, not even for a service that never answers.
EveryCheckoutAnswered ==
    \A c \in Calls : req[c] # None ~> answer[c] # "none"

\* ShopSim implements the life of an order.
Lifecycle ==
    INSTANCE OrderLifecycle WITH
        item <- resv,
        amount <- ledger,
        completed <- {req[c] : c \in {d \in Calls : answer[d] = "200"}}

RefinesLifecycle == Lifecycle!Spec

-----------------------------------------------------------------------------
(* The inductive invariant behind these properties.                        *)

\* How far a checkout has come: what was sent, and that the charge is sent
\* only once Inventory has accepted.
Progress ==
    \A c \in Calls :
        /\ req[c] = None => leg[c] = "none" /\ answer[c] = "none"
        /\ leg[c] = "none" => /\ answer[c] \in {"none", "400"}
                              /\ invVerdict[c] = "idle"
        /\ leg[c] = "charge" => invVerdict[c] = "accepted"
        /\ leg[c] # "charge" => payVerdict[c] = "idle"
        /\ answer[c] = "200" => payVerdict[c] = "accepted"

\* The services were asked what the checkout says, and what they answered
\* is in their records.
Recorded ==
    \A c \in Calls :
        /\ invVerdict[c] # "idle" =>
                invAsked[c] = [order |-> req[c].order, details |-> req[c].item]
        /\ payVerdict[c] # "idle" =>
                payAsked[c] = [order |-> req[c].order, details |-> req[c].amount]
        /\ invVerdict[c] = "accepted" => resv[req[c].order] = req[c].item
        /\ payVerdict[c] = "accepted" => ledger[req[c].order] = req[c].amount
        /\ payVerdict[c] = "rejected" =>
                ledger[req[c].order] \notin {None, req[c].amount}

IInv ==
    /\ TypeOK
    /\ Progress
    /\ Recorded
    /\ ChargedImpliesReserved
    /\ ConflictIsFinal
=============================================================================
