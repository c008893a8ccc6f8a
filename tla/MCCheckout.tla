----------------------------- MODULE MCCheckout -----------------------------
(***************************************************************************)
(* An instance of Checkout for TLC.                                        *)
(***************************************************************************)
EXTENDS Checkout, TLC

CONSTANT noAmount

\* Every checkout of an order, the one with a bad amount included.
MCRequests == [order : Orders, item : Items, amount : Amounts]

MCBadRequests == {r \in MCRequests : r.amount = noAmount}

=============================================================================
