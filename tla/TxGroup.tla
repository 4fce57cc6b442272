------------------------------ MODULE TxGroup ------------------------------
(***************************************************************************)
(* One group of the memory transaction pool (node/src/memtxpool) bounded   *)
(* by maxsz.  Every operation runs under the group's mutex, so an          *)
(* operation is one step.                                                  *)
(***************************************************************************)
EXTENDS TxOrder

CONSTANTS
    GroupMax,    \* maxsz: 10 on a normal node, 2000 and 100 on a miner
    MaxTx,       \* bound: transactions that arrive in a behaviour
    MaxLeave     \* bound: removals in a behaviour

\* A configured size of 0 would still hold one package: insert pushes into an
\* empty group before it looks at maxsz.
ASSUME GroupConstants ==
    /\ GroupMax \in Nat \ {0}
    /\ MaxTx \in Nat
    /\ MaxLeave \in Nat

VARIABLES
    txpkgs,   \* the group
    arrived,  \* how many transactions have arrived: hashes are named in order
    removals  \* how many removals there have been

groupVars == <<txpkgs, arrived, removals>>

GroupInit == txpkgs = <<>> /\ arrived = 0 /\ removals = 0

\* A transaction the group has not seen
InsertNew(key) ==
    /\ arrived < MaxTx
    /\ arrived' = arrived + 1
    /\ txpkgs' = InsertResultOf(txpkgs, Pkg(arrived + 1, key), GroupMax)
    /\ UNCHANGED removals

\* A transaction that has been here before, in the group or not, comes again
Resubmit(tx, key) ==
    /\ tx <= arrived
    /\ txpkgs' = InsertResultOf(txpkgs, Pkg(tx, key), GroupMax)
    /\ UNCHANGED <<arrived, removals>>

\* Packages leave: a block has them, or they no longer execute
Leave(gone) ==
    /\ gone # {}
    /\ removals < MaxLeave
    /\ removals' = removals + 1
    /\ txpkgs' = Retain(txpkgs, Txs(txpkgs) \ gone)
    /\ UNCHANGED arrived

GroupNext ==
    \/ \E key \in Keys : InsertNew(key)
    \/ \E tx \in 1..arrived, key \in Keys : Resubmit(tx, key)
    \/ \E gone \in SUBSET Txs(txpkgs) : Leave(gone)

GroupSpec == GroupInit /\ [][GroupNext]_groupVars
-----------------------------------------------------------------------------
(* Properties *)

\* A group never outgrows maxsz and holds a transaction at most once, however
\* many versions of it are submitted (TxGroup::insert replaces, then pops).
GroupSound ==
    /\ Len(txpkgs) <= GroupMax
    /\ \A i, j \in DOMAIN txpkgs : txpkgs[i].tx = txpkgs[j].tx => i = j

\* Best first: the order insert_rng is meant to keep, on which the full-group
\* test against the tail, first_at (the "highest" bid) and the block builder's
\* scan all rely.  It holds while a group fits the linear scan, as on a normal
\* node, and fails on a miner, whose groups are bisected.
Ordered ==
    \A i, j \in DOMAIN txpkgs : i < j => txpkgs[i].key >= txpkgs[j].key

\* What an insertion displaces other than an older version of itself is worth
\* strictly less than the newcomer and no more than anything that stays.
DisplacesTheLowest ==
    [][\A i \in DOMAIN txpkgs :
          LET old == txpkgs[i]
              new == {txpkgs'[j] : j \in DOMAIN txpkgs'}
              came == {p \in new : \A k \in DOMAIN txpkgs : txpkgs[k] # p}
          IN  came # {} /\ old.tx \notin Txs(txpkgs') =>
                 /\ \A p \in came : old.key < p.key
                 /\ \A p \in new : old.key <= p.key]_groupVars

\* While a transaction stays in the group the key it is held at never drops.
KeyNeverDrops ==
    [][\A i \in DOMAIN txpkgs, j \in DOMAIN txpkgs' :
          txpkgs[i].tx = txpkgs'[j].tx => txpkgs[i].key <= txpkgs'[j].key]_groupVars
=============================================================================
