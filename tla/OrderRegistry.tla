--------------------------- MODULE OrderRegistry ---------------------------
(***************************************************************************)
(* What each of the two ShopSim stores promises its callers, whatever      *)
(* database it is built on: one write-once record per order.               *)
(*                                                                         *)
(* A call asks for an order to carry some details (a SKU and a quantity in *)
(* Inventory, an amount in Payment).  The first write of an order wins and *)
(* is never changed; a call is accepted only when the record holds exactly *)
(* its details, rejected only when it holds others, and declined only when *)
(* it wrote nothing and never will.  A call that ends "unsure" (a timeout, *)
(* a lost connection, a crash) may have written, or may still write later. *)
(*                                                                         *)
(* Inventory and Payment are shown to implement this module; Checkout is   *)
(* built on two instances of it.                                           *)
(***************************************************************************)
CONSTANTS
    Calls,      \* the calls made to the service, each made once
    Orders,     \* order identifiers, the keys of the registry
    Details,    \* what an order can be recorded with
    None        \* no record, no request

VARIABLES
    record,     \* record[o]: the details order o holds, or None
    asked,      \* asked[c]: the request of call c, or None before it is made
    verdict     \* verdict[c]: how far call c has come

vars == <<record, asked, verdict>>

Request == [order : Orders, details : Details]

\* "written" is a pending call whose write has been applied.
Verdicts == {"idle", "pending", "written",
             "accepted", "rejected", "declined", "unsure"}

TypeOK ==
    /\ record \in [Orders -> Details \cup {None}]
    /\ asked \in [Calls -> Request \cup {None}]
    /\ verdict \in [Calls -> Verdicts]

Init ==
    /\ record = [o \in Orders |-> None]
    /\ asked = [c \in Calls |-> None]
    /\ verdict = [c \in Calls |-> "idle"]

-----------------------------------------------------------------------------
Ask(c, r) ==
    /\ verdict[c] = "idle"
    /\ asked' = [asked EXCEPT ![c] = r]
    /\ verdict' = [verdict EXCEPT ![c] = "pending"]
    /\ UNCHANGED record

\* The write of a call that was given up on may still take effect.
Write(c) ==
    /\ verdict[c] \in {"pending", "unsure"}
    /\ record[asked[c].order] = None
    /\ record' = [record EXCEPT ![asked[c].order] = asked[c].details]
    /\ verdict' = [verdict EXCEPT ![c] = IF @ = "pending" THEN "written" ELSE @]
    /\ UNCHANGED asked

Accept(c) ==
    /\ verdict[c] \in {"pending", "written"}
    /\ record[asked[c].order] = asked[c].details
    /\ verdict' = [verdict EXCEPT ![c] = "accepted"]
    /\ UNCHANGED <<record, asked>>

Reject(c) ==
    /\ verdict[c] = "pending"
    /\ record[asked[c].order] \notin {None, asked[c].details}
    /\ verdict' = [verdict EXCEPT ![c] = "rejected"]
    /\ UNCHANGED <<record, asked>>

Decline(c) ==
    /\ verdict[c] = "pending"
    /\ verdict' = [verdict EXCEPT ![c] = "declined"]
    /\ UNCHANGED <<record, asked>>

GiveUp(c) ==
    /\ verdict[c] \in {"pending", "written"}
    /\ verdict' = [verdict EXCEPT ![c] = "unsure"]
    /\ UNCHANGED <<record, asked>>

\* A crash of the service leaves every call in progress unsure at once.
Outage ==
    /\ verdict' = [c \in Calls |-> IF verdict[c] \in {"pending", "written"}
                                   THEN "unsure" ELSE verdict[c]]
    /\ UNCHANGED <<record, asked>>

Next ==
    \/ \E c \in Calls :
        \/ \E r \in Request : Ask(c, r)
        \/ Write(c) \/ Accept(c) \/ Reject(c) \/ Decline(c) \/ GiveUp(c)
    \/ Outage

Spec == Init /\ [][Next]_vars
=============================================================================
