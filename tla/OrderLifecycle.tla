--------------------------- MODULE OrderLifecycle ---------------------------
(***************************************************************************)
(* What ShopSim as a whole promises about an order, whatever fails on the  *)
(* way: it is first reserved, with one item for good, and only then        *)
(* charged, with one amount for good.  It may stay reserved and uncharged  *)
(* for ever, but a checkout is reported completed only when the order is   *)
(* reserved and charged exactly as that checkout asked.                    *)
(***************************************************************************)
CONSTANTS Orders, Items, Amounts, None

VARIABLES
    item,       \* item[o]: what is reserved for order o, or None
    amount,     \* amount[o]: what was charged for order o, or None
    completed   \* the checkouts reported as completed

vars == <<item, amount, completed>>

Checkout == [order : Orders, item : Items, amount : Amounts]

Init ==
    /\ item = [o \in Orders |-> None]
    /\ amount = [o \in Orders |-> None]
    /\ completed = {}

Reserve(o, i) ==
    /\ item[o] = None
    /\ item' = [item EXCEPT ![o] = i]
    /\ UNCHANGED <<amount, completed>>

Charge(o, a) ==
    /\ item[o] # None
    /\ amount[o] = None
    /\ amount' = [amount EXCEPT ![o] = a]
    /\ UNCHANGED <<item, completed>>

Complete(k) ==
    /\ item[k.order] = k.item
    /\ amount[k.order] = k.amount
    /\ completed' = completed \cup {k}
    /\ UNCHANGED <<item, amount>>

Next ==
    \/ \E o \in Orders : \/ \E i \in Items : Reserve(o, i)
                         \/ \E a \in Amounts : Charge(o, a)
    \/ \E k \in Checkout : Complete(k)

Spec == Init /\ [][Next]_vars
=============================================================================
