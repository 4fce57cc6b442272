------------------------------ MODULE TxOrder ------------------------------
(***************************************************************************)
(* The operations of one group of the memory transaction pool              *)
(* (node/src/memtxpool) as functions of the group: a sequence of packages  *)
(* meant to stay in descending order.                                      *)
(*                                                                         *)
(* A package is its transaction hash (which does not cover the fee, so a   *)
(* transaction can be resubmitted with another fee) and the key its group  *)
(* compares: the fee purity when fpmd, the fee otherwise.  Indexes are     *)
(* from 1 where the code counts from 0.                                    *)
(***************************************************************************)
EXTENDS Integers, Sequences, SequencesExt, Filter

CONSTANTS
    Keys,        \* the fee purities, or fees of the diamond mints
    LinearScan   \* 10 in the code: longer groups are bisected first

ASSUME KeysAssumption == Keys \subseteq Nat
ASSUME LinearScanAssumption == LinearScan \in Nat \ {0}

Pkg(tx, key) == [tx |-> tx, key |-> key]

Txs(q) == {q[i].tx : i \in DOMAIN q}

\* search, find: the position of the first package with this hash, or 0
Search(q, tx) == SelectInSeq(q, LAMBDA p : p.tx = tx)

\* remove, del_one: without the package of this hash, if there is one
RemoveTx(q, tx) ==
    IF Search(q, tx) = 0 THEN q ELSE RemoveAt(q, Search(q, tx))

\* drain, delete, retain: only the packages whose hash is kept
Retain(q, keep) == Filter(q, {p \in Range(q) : p.tx \in keep})

\* scan_group_rng_by_feep: bisect [l, r) until it is short enough or the
\* middle package has the very key of the new one.  The recursion is on the
\* number of halvings, of which Len(q) are more than enough.
Scan(q, key) ==
    LET halve[n \in 0..Len(q)] ==
          IF n = 0 THEN <<1, Len(q) + 1>>
          ELSE LET l == halve[n - 1][1]
                   r == halve[n - 1][2]
                   m == l + (r - l) \div 2
               IN  IF r - l <= LinearScan \/ q[m].key = key THEN <<l, r>>
                   ELSE IF key > q[m].key THEN <<l, m>> ELSE <<m, r>>
    IN  halve[Len(q)]

\* insert_rng with the first position of the range skipped
MutInsertRng(q, p, l, r) ==
    LET lower == {i \in (l + 1)..(r - 1) : p.key > q[i].key}
    IN  IF lower = {} THEN Append(q, p)
        ELSE InsertAt(q, CHOOSE i \in lower : \A j \in lower : i <= j, p)

\* insert_rng: before the first package of [l, r) with a lower key; when there
\* is none, at the end of the group
InsertRng(q, p, l, r) ==
    LET lower == {i \in l..(r - 1) : p.key > q[i].key}
    IN  IF lower = {} THEN Append(q, p)
        ELSE InsertAt(q, CHOOSE i \in lower : \A j \in lower : i <= j, p)

\* a resubmission that replaces whatever version is there
MutOutbid(q, p) == FALSE

\* The group already has this transaction at the same or a higher key
Outbid(q, p) == p.tx \in Txs(q) /\ p.key <= q[Search(q, p.tx)].key

\* The group is full and its tail is at least as good
TooLow(q, p, max) == Len(q) >= max /\ Len(q) > 0 /\ p.key <= q[Len(q)].key

\* the two error returns of TxGroup::insert
Refused(q, p, max) ==
    \/ Outbid(q, p)
    \/ TooLow(RemoveTx(q, p.tx), p, max)

\* the old version is left in place
MutReplaced(q, p) == q

\* the versions a resubmission replaces
Replaced(q, p) == RemoveTx(q, p.tx)

\* the group loses its head instead of its tail
MutPopped(q, max) == IF Len(q) > max THEN Tail(q) ELSE q

\* pop the tail when the group has outgrown maxsz
Popped(q, max) == IF Len(q) > max THEN Front(q) ELSE q

\* TxGroup::insert, when it is not refused
Inserted(q, p, max) ==
    LET old   == Replaced(q, p)
        range == IF Len(old) > LinearScan THEN Scan(old, p.key)
                 ELSE <<1, Len(old) + 1>>
    IN  IF Len(old) = 0 THEN <<p>>
        ELSE Popped(InsertRng(old, p, range[1], range[2]), max)

InsertResultOf(q, p, max) ==
    IF Refused(q, p, max) THEN q ELSE Inserted(q, p, max)
=============================================================================
