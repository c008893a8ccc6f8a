----------------------- MODULE MCInventoryDurability -----------------------
(***************************************************************************)
(* An instance of InventoryDurability for TLC.                             *)
(***************************************************************************)
EXTENDS InventoryDurability, TLC

CONSTANT s1

MCSeedStock == s1 :> 2

\* Two orders compete for the two units of s1.
MCRequests == [order : Orders, sku : {s1}, quantity : {1, 2}]

MCSymmetry == Permutations(Calls) \cup Permutations(Orders)
=============================================================================
