---------------------------- MODULE MCInventory ----------------------------
(***************************************************************************)
(* Instances of Inventory for TLC.                                         *)
(***************************************************************************)
EXTENDS Inventory, TLC

CONSTANTS s1, s2, s9

\* s9 is a SKU that is never seeded; a quantity of zero is invalid.
MCSeedStock == (s1 :> 2) @@ (s2 :> 1)

\* Both orders may ask for either quantity of s1, or for s2; or for an unknown
\* SKU, or for nothing.
MCRequests ==
    [order : Orders, sku : {s1}, quantity : {0, 1, 2}]
    \cup [order : Orders, sku : {s2, s9}, quantity : {1}]

\* Every call wants one unit of the same SKU.
MCRaceRequests == [order : Orders, sku : {s1}, quantity : {1}]
MCRaceStock == s1 :> 2

MCSymmetry == Permutations(Calls) \cup Permutations(Orders)

-----------------------------------------------------------------------------
\* ADR 0006 says "Replays with matching SKU and quantity succeed without
\* another decrement".  The code breaks this in a race of identical calls: the
\* first can commit, and take the last units, between HGETALL and GET of the
\* second, which is then refused for want of the stock that its own order
\* holds.  (WATCH does not help: the second call never gets to EXEC.)
MatchingReplaysSucceed ==
    \A c \in Calls :
        result[c] = "insufficient" => resv[req[c].order] # Fields(req[c])
=============================================================================
