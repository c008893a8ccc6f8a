---------------------------- MODULE MCValidation ----------------------------
(***************************************************************************)
(* An instance of Validation for TLC: the stock may run out at each        *)
(* checkout or suffice, and a loop makes three attempts.                   *)
(***************************************************************************)
EXTENDS Validation

MCStocks == 0..4
=============================================================================
