----------------------------- MODULE MCPayment -----------------------------
(***************************************************************************)
(* Instances of Payment for TLC.                                           *)
(***************************************************************************)
EXTENDS Payment

\* Calls repeat or contradict each other's amounts; zero is invalid.
MCRequests == [order : Orders, amount : {0, 1, 2}]
=============================================================================
