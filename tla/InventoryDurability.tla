------------------------ MODULE InventoryDurability ------------------------
(***************************************************************************)
(* Inventory on a Redis that can lose its last writes.  Redis runs with an *)
(* append-only file synced every second, so a failure of its host brings   *)
(* it back with the data of an earlier moment, while the Inventory process *)
(* keeps running and keeps believing that the stock is seeded.             *)
(***************************************************************************)
EXTENDS Inventory

VARIABLES
    diskStock,      \* the stock keys in the synced part of the file
    diskResv        \* the reservations in the synced part of the file

disk == <<diskStock, diskResv>>
lossyVars == <<vars, disk>>

LossyInit ==
    /\ Init
    /\ diskStock = stock
    /\ diskResv = resv

\* The file holds whole transactions in order: its synced part is the data
\* of a moment between two commands.
Fsync ==
    /\ diskStock' = stock
    /\ diskResv' = resv
    /\ UNCHANGED vars

\* The host fails; Redis comes back with what the disk held.
HostFailure ==
    /\ Disconnect
    /\ stock' = diskStock
    /\ resv' = diskResv
    /\ UNCHANGED <<process, handlers, disk>>

LossyNext ==
    \/ Next /\ UNCHANGED disk
    \/ Fsync
    \/ HostFailure

LossySpec == LossyInit /\ [][LossyNext]_lossyVars

-----------------------------------------------------------------------------
(* Properties.                                                             *)

\* What is left of a seeded SKU and what its reservations hold add up to the
\* seeded quantity, in the data and on the disk, across failures and seeding:
\* a missing stock key is one from which nothing is reserved, so that seeding
\* it again never gives out the same units twice.
ConservedAcrossLoss == Conserved(stock, resv) /\ Conserved(diskStock, diskResv)

\* A reservation that reached the disk is never lost or changed, whatever is
\* reserved, replayed or lost afterwards: retries after a failure re-create
\* only what the failure lost.
DurableReservationsStay ==
    [][\A o \in Orders :
            diskResv[o] # None =>
                /\ diskResv'[o] = diskResv[o]
                /\ resv'[o] = diskResv[o]]_lossyVars

-----------------------------------------------------------------------------
(* The inductive invariant behind it.                                      *)

\* Connections and transactions are consistent even when the data is older
\* than what they once saw: a failure of the host breaks them all.
Connected == TypeOK /\ Bookkeeping /\ CleanWatch

\* The data holds at least the reservations of the disk.
DiskIsHeld ==
    \A o \in Orders : diskResv[o] # None => resv[o] = diskResv[o]

DurabilityInv ==
    /\ Connected
    /\ NoOversell
    /\ diskStock \in [Skus -> Nat \cup {None}]
    /\ diskResv \in [Orders -> [sku : Skus, quantity : Int] \cup {None}]
    /\ DiskIsHeld
===========================================================================
