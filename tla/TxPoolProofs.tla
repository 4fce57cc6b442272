---------------------------- MODULE TxPoolProofs ----------------------------
(***************************************************************************)
(* One group of the transaction pool, and the pool of two groups that      *)
(* handlers, blocks and the builder share.  A group stays within its size  *)
(* and holds every transaction once, whatever its size; a group that is    *)
(* never bisected stays in descending order and displaces only its lowest  *)
(* package.  Each step of the pool is such a step of each of its groups,   *)
(* and a confirmed transaction stays in them only by a race or a           *)
(* synchronised block.                                                     *)
(***************************************************************************)
EXTENDS TxGroup, TxPool, DataLemmas

\* The packages of a group, whose transactions are numbered, and of the pool.
Package == [tx : Nat \cup Tx, key : Nat]

Distinct(q) == \A i, j \in 1..Len(q) : q[i].tx = q[j].tx => i = j
Sorted(q)   == \A i, j \in 1..Len(q) : i < j => q[i].key >= q[j].key
-----------------------------------------------------------------------------
(* The sequence operators of TxOrder.                                      *)

LEMMA PackageOf ==
    ASSUME NEW q \in Seq(Package)
    PROVE  /\ Len(q) \in Nat
           /\ DOMAIN q = 1..Len(q)
           /\ \A i \in 1..Len(q) : q[i] \in Package /\ q[i].key \in Nat
<1>1. Len(q) \in Nat /\ DOMAIN q = 1..Len(q)
    BY LenProperties
<1>2. \A i \in 1..Len(q) : q[i] \in Package
    BY ElementOfSeq
<1>. QED
    BY <1>1, <1>2 DEF Package

\* Whatever leaves, the order and the uniqueness of the rest stay.
LEMMA SubsequenceKeeps ==
    ASSUME NEW q \in Seq(Package), NEW r \in Seq(Package), Subsequence(r, q)
    PROVE  /\ Len(r) <= Len(q)
           /\ Range(r) \subseteq Range(q)
           /\ Distinct(q) => Distinct(r)
           /\ Sorted(q) => Sorted(r)
<1>1. PICK f : Picks(f, q, r)
    BY DEF Subsequence
<1>2. PICK n \in Nat, m \in Nat : /\ n = Len(q) /\ m = Len(r)
                                  /\ DOMAIN q = 1..n /\ DOMAIN r = 1..m
    BY LenProperties
<1>3. /\ f \in [1..m -> 1..n]
      /\ \A i \in 1..m : r[i] = q[f[i]]
      /\ \A i, j \in 1..m : i < j => f[i] < f[j]
    BY <1>1, <1>2 DEF Picks
<1>4. \A i \in 1..m : f[i] \in 1..n
    BY <1>3
<1>5. Range(r) \subseteq Range(q)
    BY <1>2, <1>3, <1>4 DEF Range
<1>6. ASSUME Distinct(q), NEW i \in 1..m, NEW j \in 1..m, r[i].tx = r[j].tx PROVE i = j
  <2>1. f[i] = f[j]
      BY <1>2, <1>3, <1>4, <1>6 DEF Distinct
  <2>2. ~(i < j) /\ ~(j < i)
      BY <1>3, <1>4, <2>1
  <2>. QED
      BY <2>2
<1>7. ASSUME Sorted(q), NEW i \in 1..m, NEW j \in 1..m, i < j PROVE r[i].key >= r[j].key
    BY <1>2, <1>3, <1>4, <1>7 DEF Sorted
<1>8. Len(r) <= Len(q)
    BY DEF Subsequence
<1>. QED
    BY <1>2, <1>5, <1>6, <1>7, <1>8 DEF Distinct, Sorted

LEMMA RemoveAtIs ==
    ASSUME NEW q \in Seq(Package), NEW k \in 1..Len(q)
    PROVE  /\ RemoveAt(q, k) \in Seq(Package)
           /\ Subsequence(RemoveAt(q, k), q)
           /\ Len(RemoveAt(q, k)) = Len(q) - 1
           /\ \A i \in 1..Len(q) : i # k => q[i] \in Range(RemoveAt(q, k))
           /\ \A x \in Range(RemoveAt(q, k)) : \E i \in 1..Len(q) : i # k /\ x = q[i]
<1>1. PICK n \in Nat : n = Len(q) /\ \A i \in 1..n : q[i] \in Package
    BY PackageOf
<1>2. PICK a : a = SubSeq(q, 1, k - 1)
    OBVIOUS
<1>3. PICK b : b = SubSeq(q, k + 1, n)
    OBVIOUS
<1>4. k \in 1..n /\ k - 1 \in Int /\ k + 1 \in Int
    BY <1>1
<1>5. a \in Seq(Package) /\ Len(a) = k - 1 /\ \A i \in 1..(k - 1) : a[i] = q[i]
  <2>1. \A i \in 1..(k - 1) : q[i] \in Package
      BY <1>1, <1>4
  <2>2. /\ SubSeq(q, 1, k - 1) \in Seq(Package)
        /\ Len(SubSeq(q, 1, k - 1)) = IF 1 <= k - 1 THEN (k - 1) - 1 + 1 ELSE 0
        /\ \A i \in 1..((k - 1) - 1 + 1) : SubSeq(q, 1, k - 1)[i] = q[1 + i - 1]
      BY <1>4, <2>1, SubSeqProperties
  <2>. QED
      BY <1>2, <1>4, <2>2
<1>6. b \in Seq(Package) /\ Len(b) = n - k /\ \A i \in 1..(n - k) : b[i] = q[k + i]
  <2>1. \A i \in (k + 1)..n : q[i] \in Package
      BY <1>1, <1>4
  <2>2. /\ SubSeq(q, k + 1, n) \in Seq(Package)
        /\ Len(SubSeq(q, k + 1, n)) = IF k + 1 <= n THEN n - (k + 1) + 1 ELSE 0
        /\ \A i \in 1..(n - (k + 1) + 1) : SubSeq(q, k + 1, n)[i] = q[(k + 1) + i - 1]
      BY <1>4, <2>1, SubSeqProperties
  <2>3. n - (k + 1) + 1 = n - k /\ \A i \in 1..(n - k) : (k + 1) + i - 1 = k + i
      BY <1>4
  <2>. QED
      BY <1>3, <1>4, <2>2, <2>3
<1>7. PICK r : r = a \o b
    OBVIOUS
<1>8. r = RemoveAt(q, k)
    BY <1>1, <1>2, <1>3, <1>7 DEF RemoveAt
<1>9. /\ r \in Seq(Package) /\ Len(r) = Len(a) + Len(b)
      /\ \A i \in 1..Len(r) : r[i] = IF i <= Len(a) THEN a[i] ELSE b[i - Len(a)]
  <2>1. a \in Seq(Package) /\ b \in Seq(Package)
      BY <1>5, <1>6
  <2>2. /\ a \o b \in Seq(Package) /\ Len(a \o b) = Len(a) + Len(b)
        /\ \A i \in 1..(Len(a) + Len(b)) :
              (a \o b)[i] = IF i <= Len(a) THEN a[i] ELSE b[i - Len(a)]
      BY <2>1, ConcatProperties
  <2>. QED
      BY <1>7, <2>2
<1>10. Len(r) = n - 1
    BY <1>4, <1>5, <1>6, <1>9
<1>11. \A i \in 1..(n - 1) : r[i] = IF i < k THEN q[i] ELSE q[i + 1]
  <2>1. TAKE i \in 1..(n - 1)
  <2>2. r[i] = IF i <= k - 1 THEN a[i] ELSE b[i - (k - 1)]
      BY <1>5, <1>9, <1>10
  <2>3. CASE i < k
      BY <1>4, <1>5, <2>2, <2>3
  <2>4. CASE ~(i < k)
    <3>1. i - (k - 1) \in 1..(n - k) /\ k + (i - (k - 1)) = i + 1
        BY <1>4, <2>4
    <3>2. r[i] = b[i - (k - 1)]
        BY <1>4, <2>2, <2>4
    <3>. QED
        BY <1>6, <2>4, <3>1, <3>2
  <2>. QED
      BY <2>3, <2>4
<1>12. Subsequence(r, q)
  <2>1. PICK f : f = [i \in 1..(n - 1) |-> IF i < k THEN i ELSE i + 1]
      OBVIOUS
  <2>2. \A i \in 1..(n - 1) : f[i] = IF i < k THEN i ELSE i + 1
      BY <2>1
  <2>3. f \in [1..(n - 1) -> 1..n]
      BY <1>4, <2>1
  <2>4. \A i \in 1..(n - 1) : r[i] = q[f[i]]
      BY <1>11, <2>2
  <2>5. \A i, j \in 1..(n - 1) : i < j => f[i] < f[j]
      BY <1>4, <2>2
  <2>6. Picks(f, q, r)
      BY <1>1, <1>10, <2>3, <2>4, <2>5 DEF Picks
  <2>. QED
      BY <1>1, <1>10, <2>6 DEF Subsequence
<1>13. ASSUME NEW i \in 1..n, i # k PROVE q[i] \in Range(r)
  <2>1. DOMAIN r = 1..(n - 1)
      BY <1>9, <1>10, LenProperties
  <2>2. CASE i < k
    <3>1. i \in 1..(n - 1) /\ r[i] = q[i]
        BY <1>4, <1>11, <2>2
    <3>. QED
        BY <2>1, <3>1 DEF Range
  <2>3. CASE i > k
    <3>1. i - 1 \in 1..(n - 1) /\ ~(i - 1 < k) /\ (i - 1) + 1 = i
        BY <1>4, <2>3
    <3>2. r[i - 1] = q[i]
        BY <1>11, <3>1
    <3>. QED
        BY <2>1, <3>1, <3>2 DEF Range
  <2>. QED
      BY <1>4, <1>13, <2>2, <2>3
<1>14. ASSUME NEW x \in Range(r) PROVE \E i \in 1..n : i # k /\ x = q[i]
  <2>1. PICK i \in 1..(n - 1) : x = r[i]
      BY <1>9, <1>10, <1>14, LenProperties DEF Range
  <2>2. CASE i < k
      BY <1>4, <1>11, <2>1, <2>2
  <2>3. CASE ~(i < k)
    <3>1. i + 1 \in 1..n /\ i + 1 # k /\ x = q[i + 1]
        BY <1>4, <1>11, <2>1, <2>3
    <3>. QED
        BY <3>1
  <2>. QED
      BY <2>2, <2>3
<1>. QED
    BY <1>1, <1>8, <1>9, <1>10, <1>12, <1>13, <1>14

\* search finds the package of a transaction, if the group has one.
LEMMA SearchIs ==
    ASSUME NEW q \in Seq(Package), NEW tx
    PROVE  \/ Search(q, tx) = 0 /\ tx \notin Txs(q)
           \/ Search(q, tx) \in 1..Len(q) /\ q[Search(q, tx)].tx = tx /\ tx \in Txs(q)
<1>1. Len(q) \in Nat /\ DOMAIN q = 1..Len(q)
    BY LenProperties
<1>2. PICK I : I = {i \in 1..Len(q) : q[i].tx = tx}
    OBVIOUS
<1>3. Search(q, tx) = IF I # {} THEN Min(I) ELSE 0
    BY <1>2 DEF Search, SelectInSeq
<1>4. CASE I = {}
  <2>1. tx \notin Txs(q)
      BY <1>1, <1>2, <1>4 DEF Txs
  <2>. QED
      BY <1>3, <1>4, <2>1
<1>5. CASE I # {}
  <2>1. I \in SUBSET Nat
      BY <1>2
  <2>2. Min(I) \in I
      BY <1>5, <2>1, LeastNumber DEF Min
  <2>3. tx \in Txs(q)
      BY <1>1, <1>2, <2>2 DEF Txs
  <2>. QED
      BY <1>2, <1>3, <1>5, <2>2, <2>3
<1>. QED
    BY <1>4, <1>5

\* Without the version a resubmission replaces.
LEMMA RemoveTxIs ==
    ASSUME NEW q \in Seq(Package), Distinct(q), NEW tx
    PROVE  /\ RemoveTx(q, tx) \in Seq(Package)
           /\ Subsequence(RemoveTx(q, tx), q)
           /\ \A x : x \in Range(RemoveTx(q, tx)) <=> x \in Range(q) /\ x.tx # tx
<1>1. Len(q) \in Nat /\ DOMAIN q = 1..Len(q)
    BY LenProperties
<1>2. CASE Search(q, tx) = 0
  <2>1. tx \notin Txs(q) /\ RemoveTx(q, tx) = q
      BY <1>2, SearchIs DEF RemoveTx
  <2>2. \A x \in Range(q) : x.tx # tx
      BY <2>1 DEF Range, Txs
  <2>3. Subsequence(q, q)
    <3>1. PICK f : f = [i \in 1..Len(q) |-> i]
        OBVIOUS
    <3>2. Picks(f, q, q)
        BY <3>1 DEF Picks
    <3>. QED
        BY <1>1, <3>2 DEF Subsequence
  <2>. QED
      BY <2>1, <2>2, <2>3
<1>3. CASE Search(q, tx) # 0
  <2>1. PICK k \in 1..Len(q) : k = Search(q, tx) /\ q[k].tx = tx
      BY <1>3, SearchIs
  <2>2. PICK r : r = RemoveAt(q, k)
      OBVIOUS
  <2>3. r = RemoveTx(q, tx)
      BY <1>3, <2>1, <2>2 DEF RemoveTx
  <2>4. /\ r \in Seq(Package) /\ Subsequence(r, q) /\ Len(r) = Len(q) - 1
        /\ \A i \in 1..Len(q) : i # k => q[i] \in Range(r)
      BY <2>2, RemoveAtIs
  <2>5. ASSUME NEW x \in Range(r) PROVE x \in Range(q) /\ x.tx # tx
    <3>1. PICK i \in 1..Len(q) : i # k /\ x = q[i]
        BY <2>2, <2>5, RemoveAtIs
    <3>. QED
        BY <1>1, <2>1, <3>1 DEF Distinct, Range
  <2>6. ASSUME NEW x \in Range(q), x.tx # tx PROVE x \in Range(r)
    <3>1. PICK i \in 1..Len(q) : x = q[i]
        BY <1>1, <2>6 DEF Range
    <3>. QED
        BY <2>1, <2>4, <2>6, <3>1
  <2>. QED
      BY <2>3, <2>4, <2>5, <2>6
<1>. QED
    BY <1>2, <1>3
-----------------------------------------------------------------------------
(* Insertion.                                                              *)

\* t is q with p at place k.
Insertion(t, q, p, k) ==
    /\ t \in Seq(Package)
    /\ Len(t) = Len(q) + 1
    /\ k \in 1..(Len(q) + 1)
    /\ t[k] = p
    /\ \A i \in 1..Len(q) : t[IF i < k THEN i ELSE i + 1] = q[i]

LEMMA InsertionAt ==
    ASSUME NEW q \in Seq(Package), NEW p \in Package, NEW k \in 1..Len(q)
    PROVE  Insertion(InsertAt(q, k, p), q, p, k)
<1>1. PICK n \in Nat : n = Len(q) /\ \A i \in 1..n : q[i] \in Package
    BY PackageOf
<1>2. PICK a : a = SubSeq(q, 1, k - 1)
    OBVIOUS
<1>3. PICK b : b = SubSeq(q, k, n)
    OBVIOUS
<1>4. k \in 1..n /\ k - 1 \in Int /\ k \in Int
    BY <1>1
<1>5. a \in Seq(Package) /\ Len(a) = k - 1 /\ \A i \in 1..(k - 1) : a[i] = q[i]
  <2>1. \A i \in 1..(k - 1) : q[i] \in Package
      BY <1>1, <1>4
  <2>2. /\ SubSeq(q, 1, k - 1) \in Seq(Package)
        /\ Len(SubSeq(q, 1, k - 1)) = IF 1 <= k - 1 THEN (k - 1) - 1 + 1 ELSE 0
        /\ \A i \in 1..((k - 1) - 1 + 1) : SubSeq(q, 1, k - 1)[i] = q[1 + i - 1]
      BY <1>4, <2>1, SubSeqProperties
  <2>. QED
      BY <1>2, <1>4, <2>2
<1>6. b \in Seq(Package) /\ Len(b) = n - k + 1 /\ \A i \in 1..(n - k + 1) : b[i] = q[k + i - 1]
  <2>1. \A i \in k..n : q[i] \in Package
      BY <1>1, <1>4
  <2>2. /\ SubSeq(q, k, n) \in Seq(Package)
        /\ Len(SubSeq(q, k, n)) = IF k <= n THEN n - k + 1 ELSE 0
        /\ \A i \in 1..(n - k + 1) : SubSeq(q, k, n)[i] = q[k + i - 1]
      BY <1>1, <1>4, <2>1, SubSeqProperties
  <2>. QED
      BY <1>3, <1>4, <2>2
<1>7. PICK c : c = a \o <<p>>
    OBVIOUS
<1>8. PICK t : t = c \o b
    OBVIOUS
<1>9. t = InsertAt(q, k, p)
    BY <1>1, <1>2, <1>3, <1>7, <1>8 DEF InsertAt
<1>10. /\ c \in Seq(Package) /\ Len(c) = k
       /\ \A i \in 1..(k - 1) : c[i] = q[i]
       /\ c[k] = p
  <2>1. <<p>> \in Seq(Package) /\ Len(<<p>>) = 1 /\ <<p>>[1] = p
      OBVIOUS
  <2>2. /\ a \o <<p>> \in Seq(Package) /\ Len(a \o <<p>>) = Len(a) + Len(<<p>>)
        /\ \A i \in 1..(Len(a) + Len(<<p>>)) :
              (a \o <<p>>)[i] = IF i <= Len(a) THEN a[i] ELSE <<p>>[i - Len(a)]
      BY <1>5, <2>1, ConcatProperties
  <2>3. c \in Seq(Package) /\ Len(c) = k
      BY <1>4, <1>5, <1>7, <2>1, <2>2
  <2>4. \A i \in 1..k : c[i] = IF i <= k - 1 THEN a[i] ELSE <<p>>[i - (k - 1)]
      BY <1>4, <1>5, <1>7, <2>1, <2>2
  <2>5. c[k] = p
    <3>1. c[k] = <<p>>[k - (k - 1)] /\ k - (k - 1) = 1
        BY <1>4, <2>4
    <3>. QED
        BY <2>1, <3>1
  <2>6. \A i \in 1..(k - 1) : c[i] = q[i]
      BY <1>4, <1>5, <2>4
  <2>. QED
      BY <2>3, <2>5, <2>6
<1>11. /\ t \in Seq(Package) /\ Len(t) = n + 1
       /\ \A i \in 1..(n + 1) : t[i] = IF i <= k THEN c[i] ELSE b[i - k]
  <2>1. /\ c \o b \in Seq(Package) /\ Len(c \o b) = Len(c) + Len(b)
        /\ \A i \in 1..(Len(c) + Len(b)) :
              (c \o b)[i] = IF i <= Len(c) THEN c[i] ELSE b[i - Len(c)]
      BY <1>6, <1>10, ConcatProperties
  <2>2. Len(c) + Len(b) = n + 1
      BY <1>4, <1>6, <1>10
  <2>. QED
      BY <1>8, <1>10, <2>1, <2>2
<1>12. t[k] = p
    BY <1>4, <1>10, <1>11
<1>13. \A i \in 1..n : t[IF i < k THEN i ELSE i + 1] = q[i]
  <2>1. TAKE i \in 1..n
  <2>2. CASE i < k
    <3>1. t[i] = c[i] /\ i \in 1..(k - 1)
        BY <1>4, <1>11, <2>2
    <3>. QED
        BY <1>10, <2>2, <3>1
  <2>3. CASE ~(i < k)
    <3>1. t[i + 1] = b[(i + 1) - k]
        BY <1>4, <1>11, <2>3
    <3>2. (i + 1) - k \in 1..(n - k + 1) /\ k + ((i + 1) - k) - 1 = i
        BY <1>4, <2>3
    <3>3. b[(i + 1) - k] = q[i]
        BY <1>6, <3>2
    <3>. QED
        BY <2>3, <3>1, <3>3
  <2>. QED
      BY <2>2, <2>3
<1>14. k \in 1..(n + 1)
    BY <1>4
<1>. QED
    BY <1>1, <1>9, <1>11, <1>12, <1>13, <1>14 DEF Insertion

LEMMA InsertionLast ==
    ASSUME NEW q \in Seq(Package), NEW p \in Package
    PROVE  Insertion(Append(q, p), q, p, Len(q) + 1)
<1>1. Len(q) \in Nat
    BY LenProperties
<1>2. PICK t : t = Append(q, p)
    OBVIOUS
<1>3. /\ t \in Seq(Package) /\ Len(t) = Len(q) + 1 /\ t[Len(q) + 1] = p
      /\ \A i \in 1..Len(q) : t[i] = q[i]
    BY <1>2, AppendProperties
<1>. QED
    BY <1>1, <1>2, <1>3 DEF Insertion

\* insert_rng inserts somewhere; over the whole group it is before the first
\* package with a lower key.
LEMMA InsertRngIs ==
    ASSUME NEW q \in Seq(Package), NEW p \in Package,
           NEW l \in 1..(Len(q) + 1), NEW r \in 1..(Len(q) + 1)
    PROVE  \E k \in 1..(Len(q) + 1) :
              /\ Insertion(InsertRng(q, p, l, r), q, p, k)
              /\ (l = 1 /\ r = Len(q) + 1) =>
                    /\ \A i \in 1..Len(q) : i < k => q[i].key >= p.key
                    /\ k <= Len(q) => p.key > q[k].key
<1>1. PICK n \in Nat : n = Len(q) /\ \A i \in 1..n : q[i].key \in Nat
    BY PackageOf
<1>2. p.key \in Nat
    BY DEF Package
<1>3. PICK lower : lower = {i \in l..(r - 1) : p.key > q[i].key}
    OBVIOUS
<1>4. l \in Nat /\ r \in Nat /\ lower \subseteq 1..n
    BY <1>1, <1>3
<1>5. CASE lower = {}
  <2>1. InsertRng(q, p, l, r) = Append(q, p)
      BY <1>3, <1>5 DEF InsertRng
  <2>2. Insertion(InsertRng(q, p, l, r), q, p, n + 1)
      BY <1>1, <2>1, InsertionLast
  <2>3. (l = 1 /\ r = n + 1) => \A i \in 1..n : q[i].key >= p.key
      BY <1>1, <1>2, <1>3, <1>5
  <2>. QED
      BY <1>1, <2>2, <2>3
<1>6. CASE lower # {}
  <2>1. PICK k : k = CHOOSE i \in lower : \A j \in lower : i <= j
      OBVIOUS
  <2>2. k \in lower /\ \A j \in lower : k <= j
    <3>1. lower \in SUBSET Nat
        BY <1>4
    <3>2. \E i \in lower : \A j \in lower : i <= j
        BY <1>6, <3>1, LeastNumber
    <3>. QED
        BY <2>1, <3>2
  <2>3. InsertRng(q, p, l, r) = InsertAt(q, k, p)
      BY <1>3, <1>6, <2>1 DEF InsertRng
  <2>4. k \in 1..n /\ p.key > q[k].key
      BY <1>3, <1>4, <2>2
  <2>5. Insertion(InsertRng(q, p, l, r), q, p, k)
      BY <1>1, <2>3, <2>4, InsertionAt
  <2>6. ASSUME l = 1, r = n + 1, NEW i \in 1..n, i < k PROVE q[i].key >= p.key
    <3>1. i \in l..(r - 1)
        BY <2>6
    <3>2. i \notin lower
        BY <2>2, <2>4, <2>6
    <3>. QED
        BY <1>1, <1>2, <1>3, <3>1, <3>2
  <2>. QED
      BY <1>1, <2>4, <2>5, <2>6
<1>. QED
    BY <1>5, <1>6

\* What an insertion does to the group.
LEMMA InsertionKeeps ==
    ASSUME NEW q \in Seq(Package), NEW p \in Package, NEW t, NEW k, Insertion(t, q, p, k)
    PROVE  /\ Range(t) = Range(q) \cup {p}
           /\ Distinct(q) /\ (\A x \in Range(q) : x.tx # p.tx) => Distinct(t)
           /\ (/\ Sorted(q)
               /\ \A i \in 1..Len(q) : i < k => q[i].key >= p.key
               /\ k <= Len(q) => p.key > q[k].key)
                 => Sorted(t)
<1>1. PICK n \in Nat : /\ n = Len(q) /\ DOMAIN q = 1..n
                       /\ \A i \in 1..n : q[i].key \in Nat
    BY PackageOf
<1>2. /\ t \in Seq(Package) /\ Len(t) = n + 1 /\ DOMAIN t = 1..(n + 1)
      /\ k \in 1..(n + 1) /\ t[k] = p
      /\ \A i \in 1..n : t[IF i < k THEN i ELSE i + 1] = q[i]
    BY <1>1, LenProperties DEF Insertion
<1>3. PICK g : g = [j \in 1..(n + 1) |-> IF j < k THEN j ELSE j - 1]
    OBVIOUS
<1>4. \A j \in 1..(n + 1) : j # k => g[j] \in 1..n /\ t[j] = q[g[j]]
  <2>1. TAKE j \in 1..(n + 1)
  <2>2. HAVE j # k
  <2>3. CASE j < k
    <3>1. j \in 1..n /\ g[j] = j
        BY <1>2, <1>3, <2>3
    <3>. QED
        BY <1>2, <2>3, <3>1
  <2>4. CASE j > k
    <3>1. g[j] = j - 1 /\ j - 1 \in 1..n /\ ~(j - 1 < k) /\ (j - 1) + 1 = j
        BY <1>2, <1>3, <2>4
    <3>2. t[(j - 1) + 1] = q[j - 1]
        BY <1>2, <3>1
    <3>. QED
        BY <3>1, <3>2
  <2>. QED
      BY <1>2, <2>2, <2>3, <2>4
<1>5. \A j \in 1..(n + 1) : g[j] = IF j < k THEN j ELSE j - 1
    BY <1>3
<1>6. Range(t) = Range(q) \cup {p}
  <2>1. Range(t) \subseteq Range(q) \cup {p}
      BY <1>1, <1>2, <1>4 DEF Range
  <2>2. p \in Range(t)
      BY <1>2 DEF Range
  <2>3. ASSUME NEW i \in 1..n PROVE q[i] \in Range(t)
    <3>1. (IF i < k THEN i ELSE i + 1) \in 1..(n + 1)
        OBVIOUS
    <3>. QED
        BY <1>2, <3>1 DEF Range
  <2>. QED
      BY <1>1, <2>1, <2>2, <2>3 DEF Range
<1>7. ASSUME Distinct(q), \A x \in Range(q) : x.tx # p.tx PROVE Distinct(t)
  <2>1. \A i \in 1..n : q[i].tx # p.tx
      BY <1>1, <1>7 DEF Range
  <2>2. ASSUME NEW i \in 1..(n + 1), NEW j \in 1..(n + 1), t[i].tx = t[j].tx PROVE i = j
    <3>1. CASE i = k \/ j = k
        BY <1>2, <1>4, <2>1, <2>2, <3>1
    <3>2. CASE i # k /\ j # k
      <4>1. g[i] \in 1..n /\ g[j] \in 1..n /\ q[g[i]].tx = q[g[j]].tx
          BY <1>4, <2>2, <3>2
      <4>2. g[i] = g[j]
          BY <1>1, <1>7, <4>1 DEF Distinct
      <4>. QED
          BY <1>2, <1>5, <3>2, <4>2
    <3>. QED
        BY <3>1, <3>2
  <2>. QED
      BY <1>2, <2>2 DEF Distinct
<1>8. ASSUME Sorted(q), \A i \in 1..n : i < k => q[i].key >= p.key, k <= n => p.key > q[k].key
      PROVE  Sorted(t)
  <2>1. p.key \in Nat
      BY DEF Package
  <2>2. ASSUME NEW i \in 1..(n + 1), NEW j \in 1..(n + 1), i < j PROVE t[i].key >= t[j].key
    <3>1. CASE i # k /\ j # k
      <4>1. g[i] \in 1..n /\ g[j] \in 1..n /\ t[i] = q[g[i]] /\ t[j] = q[g[j]]
          BY <1>4, <3>1
      <4>2. g[i] < g[j]
          BY <1>2, <1>5, <2>2, <3>1
      <4>. QED
          BY <1>1, <1>8, <4>1, <4>2 DEF Sorted
    <3>2. CASE j = k
      <4>1. i \in 1..n /\ g[i] = i /\ t[i] = q[i] /\ t[j] = p
          BY <1>2, <1>4, <1>5, <2>2, <3>2
      <4>. QED
          BY <1>8, <2>2, <3>2, <4>1
    <3>3. CASE i = k
      <4>1. t[i] = p /\ t[j] = q[j - 1] /\ j - 1 \in 1..n /\ k \in 1..n /\ k <= j - 1
        <5>1. j # k /\ ~(j < k) /\ j \in 1..(n + 1) /\ k \in 1..(n + 1) /\ k < j
            BY <1>2, <2>2, <3>3
        <5>2. g[j] = j - 1 /\ g[j] \in 1..n /\ t[j] = q[g[j]]
            BY <1>4, <1>5, <5>1
        <5>3. t[i] = p /\ t[j] = q[j - 1] /\ j - 1 \in 1..n
            BY <1>2, <3>3, <5>2
        <5>4. k \in 1..n /\ k <= j - 1
            BY <5>1
        <5>. QED
            BY <5>3, <5>4
      <4>2. q[k].key >= q[j - 1].key
        <5>1. CASE k = j - 1
            BY <1>1, <4>1, <5>1
        <5>2. CASE k < j - 1
            BY <1>1, <1>8, <4>1, <5>2 DEF Sorted
        <5>. QED
            BY <1>2, <4>1, <5>1, <5>2
      <4>3. p.key > q[k].key
          BY <1>8, <4>1
      <4>. QED
          BY <1>1, <2>1, <4>1, <4>2, <4>3
    <3>. QED
        BY <3>1, <3>2, <3>3
  <2>. QED
      BY <1>2, <2>2 DEF Sorted
<1>. QED
    BY <1>1, <1>6, <1>7, <1>8

\* The tail goes when the group has outgrown its size.
LEMMA PoppedIs ==
    ASSUME NEW t \in Seq(Package), NEW max \in Nat \ {0}, Len(t) <= max + 1
    PROVE  /\ Popped(t, max) \in Seq(Package)
           /\ Subsequence(Popped(t, max), t)
           /\ Len(Popped(t, max)) <= max
           /\ Len(t) <= max => Popped(t, max) = t
           /\ Len(t) > max => Range(t) = Range(Popped(t, max)) \cup {t[Len(t)]}
<1>1. PICK n \in Nat : n = Len(t) /\ DOMAIN t = 1..n /\ \A i \in 1..n : t[i] \in Package
    BY PackageOf
<1>2. CASE n <= max
  <2>1. Popped(t, max) = t
      BY <1>1, <1>2 DEF Popped
  <2>2. PICK f : f = [i \in 1..n |-> i]
      OBVIOUS
  <2>3. Picks(f, t, t)
      BY <1>1, <2>2 DEF Picks
  <2>. QED
      BY <1>1, <1>2, <2>1, <2>3 DEF Subsequence
<1>3. CASE n > max
  <2>1. PICK r : r = SubSeq(t, 1, n - 1)
      OBVIOUS
  <2>2. Popped(t, max) = r
      BY <1>1, <1>3, <2>1 DEF Popped, Front
  <2>3. n = max + 1 /\ n - 1 \in Nat /\ n - 1 \in Int
      BY <1>1, <1>3
  <2>4. r \in Seq(Package) /\ Len(r) = n - 1 /\ \A i \in 1..(n - 1) : r[i] = t[i]
    <3>1. \A i \in 1..(n - 1) : t[i] \in Package
        BY <1>1, <2>3
    <3>2. /\ SubSeq(t, 1, n - 1) \in Seq(Package)
          /\ Len(SubSeq(t, 1, n - 1)) = IF 1 <= n - 1 THEN (n - 1) - 1 + 1 ELSE 0
          /\ \A i \in 1..((n - 1) - 1 + 1) : SubSeq(t, 1, n - 1)[i] = t[1 + i - 1]
        BY <2>3, <3>1, SubSeqProperties
    <3>. QED
        BY <2>1, <2>3, <3>2
  <2>5. PICK f : f = [i \in 1..(n - 1) |-> i]
      OBVIOUS
  <2>6. Picks(f, t, r)
    <3>1. f \in [1..(n - 1) -> 1..n]
        BY <2>3, <2>5
    <3>. QED
        BY <1>1, <2>4, <2>5, <3>1 DEF Picks
  <2>7. Subsequence(r, t)
      BY <1>1, <2>3, <2>4, <2>6 DEF Subsequence
  <2>8. Range(t) = Range(r) \cup {t[n]}
    <3>1. DOMAIN r = 1..(n - 1)
        BY <2>4, LenProperties
    <3>2. \A i \in 1..n : i = n \/ i \in 1..(n - 1)
        BY <2>3
    <3>3. n \in 1..n /\ \A i \in 1..(n - 1) : i \in 1..n
        BY <2>3
    <3>. QED
        BY <1>1, <2>4, <3>1, <3>2, <3>3 DEF Range
  <2>. QED
      BY <1>1, <1>3, <2>2, <2>3, <2>4, <2>7, <2>8
<1>. QED
    BY <1>1, <1>2, <1>3

\* The bisection stays within the group.
LEMMA ScanBounds ==
    ASSUME NEW q \in Seq(Package), NEW key
    PROVE  Scan(q, key)[1] \in 1..(Len(q) + 1) /\ Scan(q, key)[2] \in 1..(Len(q) + 1)
<1> DEFINE N == Len(q)
           D == {w \in (1..(N + 1)) \X (1..(N + 1)) : w[1] <= w[2]}
           Mid(w) == w[1] + (w[2] - w[1]) \div 2
           Half(w) == IF w[2] - w[1] <= LinearScan \/ q[Mid(w)].key = key THEN <<w[1], w[2]>>
                      ELSE IF key > q[Mid(w)].key THEN <<w[1], Mid(w)>> ELSE <<Mid(w), w[2]>>
           Eq(f) == f = [n \in 0..N |-> IF n = 0 THEN <<1, N + 1>> ELSE Half(f[n - 1])]
<1>1. N \in Nat /\ <<1, N + 1>> \in D
    BY LenProperties
<1>2. \A w \in D : Half(w) \in D
  <2> TAKE w \in D
  <2>1. PICK l \in 1..(N + 1), r \in 1..(N + 1) : w = <<l, r>> /\ l <= r
      OBVIOUS
  <2>2. l \in Nat /\ r \in Nat /\ w[1] = l /\ w[2] = r
      BY <2>1
  <2>3. PICK m : m = l + (r - l) \div 2
      OBVIOUS
  <2>4. m \in 1..(N + 1) /\ l <= m /\ m <= r
      BY <1>1, <2>1, <2>2, <2>3
  <2>5. Half(w) \in {<<l, r>>, <<l, m>>, <<m, r>>}
      BY <2>2, <2>3
  <2>. HIDE DEF N, Half
  <2>. QED
      BY <2>1, <2>4, <2>5
<1>3. PICK st \in [1..N -> [D -> D]] : \A n \in 1..N : \A w \in D : st[n][w] = Half(w)
  <2> HIDE DEF Half, D, N
  <2>1. [n \in 1..N |-> [w \in D |-> Half(w)]] \in [1..N -> [D -> D]]
      BY <1>2
  <2>. QED
      BY <2>1
<1>4. PICK a \in D : a = <<1, N + 1>>
    BY <1>1
<1>5. PICK g \in [0..N -> D] : Solves(g, N, a, st)
  <2> HIDE DEF N, D
  <2>. QED
      BY <1>1, Recursion
<1>6. Eq(g)
  <2> HIDE DEF Half, D, N
  <2>1. ASSUME NEW n \in 1..N PROVE g[n] = Half(g[n - 1])
    <3>1. n - 1 \in 0..N
        BY <1>1
    <3>2. g[n] = st[n][g[n - 1]] /\ g[n - 1] \in D
        BY <1>5, <3>1 DEF Solves
    <3>. QED
        BY <1>3, <3>2
  <2>2. g[0] = <<1, N + 1>>
      BY <1>4, <1>5 DEF Solves
  <2>. QED
      BY <1>1, <2>1, <2>2
<1> DEFINE c == CHOOSE h : Eq(h)
<1>7. Eq(c)
  <2> HIDE DEF Eq
  <2>. QED
      BY <1>6
<1>8. c[0] = <<1, N + 1>> /\ \A n \in 1..N : c[n] = Half(c[n - 1])
  <2> HIDE DEF Half, c, N
  <2>1. \A n \in 0..N : c[n] = IF n = 0 THEN <<1, N + 1>> ELSE Half(c[n - 1])
      BY <1>7
  <2>2. 0 \in 0..N /\ \A n \in 1..N : n \in 0..N /\ n # 0
      BY <1>1
  <2>. QED
      BY ONLY <2>1, <2>2
<1>9. Scan(q, key) = c[N]
    BY DEF Scan
<1>10. PICK x : /\ x[0] = <<1, N + 1>>
                /\ \A n \in 1..N : x[n] = Half(x[n - 1])
                /\ Scan(q, key) = x[N]
  <2> HIDE DEF c, Half, N
  <2>. QED
      BY <1>8, <1>9
<1> HIDE DEF c, Eq
<1> DEFINE P == {n \in Nat : n <= N => x[n] \in D}
<1>11. 0 \in P
    BY <1>1, <1>10
<1>12. ASSUME NEW n \in P PROVE n + 1 \in P
  <2> SUFFICES ASSUME n + 1 <= N PROVE x[n + 1] \in D
      OBVIOUS
  <2> HIDE DEF Half, D, N
  <2>1. x[n] \in D /\ n + 1 \in 1..N /\ (n + 1) - 1 = n
      BY <1>1
  <2>2. x[n + 1] = Half(x[n])
      BY <1>10, <2>1
  <2>. QED
      BY <1>2, <2>1, <2>2
<1>13. P = Nat
  <2>. HIDE DEF P
  <2>1. P \subseteq Nat
      BY DEF P
  <2>. QED
      BY <1>11, <1>12, <2>1, NatSetInduction
<1>14. Scan(q, key) \in D
  <2>1. N \in P => x[N] \in D
    <3> HIDE DEF D, N
    <3>. QED
        BY <1>1
  <2>. HIDE DEF P, D, N
  <2>. QED
      BY <1>1, <1>10, <1>13, <2>1
<1>. QED
    BY <1>14

\* How a group that takes a package looks: the package somewhere among those of
\* other transactions, the tail gone if there was no room.
Took(q, p, max, o, t, k) ==
    /\ o \in Seq(Package)
    /\ Subsequence(o, q)
    /\ \A x : x \in Range(o) <=> x \in Range(q) /\ x.tx # p.tx
    /\ Insertion(t, o, p, k)
    /\ (Len(q) <= LinearScan) =>
          /\ \A i \in 1..Len(o) : i < k => o[i].key >= p.key
          /\ k <= Len(o) => p.key > o[k].key
    /\ Inserted(q, p, max) = Popped(t, max)

LEMMA InsertedIs ==
    ASSUME NEW q \in Seq(Package), Distinct(q), NEW p \in Package,
           NEW max \in Nat \ {0}, Len(q) <= max
    PROVE  \E t, k : Took(q, p, max, Replaced(q, p), t, k)
<1>1. PICK o : o = Replaced(q, p)
    OBVIOUS
<1>2. /\ o \in Seq(Package) /\ Subsequence(o, q)
      /\ \A x : x \in Range(o) <=> x \in Range(q) /\ x.tx # p.tx
    BY <1>1, RemoveTxIs DEF Replaced
<1>3. PICK n \in Nat : n = Len(o) /\ n <= Len(q) /\ Len(q) \in Nat
    BY <1>2, LenProperties DEF Subsequence
<1>4. PICK range : range = IF n > LinearScan THEN Scan(o, p.key) ELSE <<1, n + 1>>
    OBVIOUS
<1>5. range[1] \in 1..(n + 1) /\ range[2] \in 1..(n + 1)
    BY <1>2, <1>3, <1>4, ScanBounds
<1>6. CASE n = 0
  <2>1. Inserted(q, p, max) = <<p>>
      BY <1>1, <1>3, <1>6 DEF Inserted
  <2>2. PICK t : t = <<p>>
      OBVIOUS
  <2>3. t \in Seq(Package) /\ Len(t) = 1 /\ t[1] = p
      BY <2>2
  <2>4. Insertion(t, o, p, 1)
      BY <1>3, <1>6, <2>3 DEF Insertion
  <2>5. Popped(t, max) = t
      BY <2>3 DEF Popped
  <2>6. Took(q, p, max, o, t, 1)
      BY <1>2, <1>3, <1>6, <2>1, <2>2, <2>4, <2>5 DEF Took
  <2>. QED
      BY <1>1, <2>6
<1>7. CASE n # 0
  <2>1. PICK t : t = InsertRng(o, p, range[1], range[2])
      OBVIOUS
  <2>2. Inserted(q, p, max) = Popped(t, max)
      BY <1>1, <1>3, <1>4, <1>7, <2>1 DEF Inserted
  <2>3. PICK k \in 1..(n + 1) :
              /\ Insertion(t, o, p, k)
              /\ (range[1] = 1 /\ range[2] = n + 1) =>
                    /\ \A i \in 1..n : i < k => o[i].key >= p.key
                    /\ k <= n => p.key > o[k].key
      BY <1>2, <1>3, <1>5, <2>1, InsertRngIs
  <2>4. Len(q) <= LinearScan => range[1] = 1 /\ range[2] = n + 1
      BY <1>3, <1>4, LinearScanAssumption
  <2>5. Took(q, p, max, o, t, k)
      BY <1>2, <1>3, <2>2, <2>3, <2>4 DEF Took
  <2>. QED
      BY <1>1, <2>5
<1>. QED
    BY <1>6, <1>7

\* What holds of the group after a package was taken.
LEMMA TookKeeps ==
    ASSUME NEW q \in Seq(Package), Distinct(q), NEW p \in Package,
           NEW max \in Nat \ {0}, Len(q) <= max,
           NEW o, NEW t, NEW k, Took(q, p, max, o, t, k)
    PROVE  /\ t \in Seq(Package)
           /\ Range(t) = Range(o) \cup {p}
           /\ Len(t) <= max + 1
           /\ Inserted(q, p, max) \in Seq(Package)
           /\ Subsequence(Inserted(q, p, max), t)
           /\ Range(Inserted(q, p, max)) \subseteq Range(q) \cup {p}
           /\ Len(Inserted(q, p, max)) <= max
           /\ Distinct(Inserted(q, p, max))
           /\ Sorted(q) /\ Len(q) <= LinearScan => Sorted(t) /\ Sorted(Inserted(q, p, max))
<1>1. /\ o \in Seq(Package) /\ Subsequence(o, q)
      /\ \A x : x \in Range(o) <=> x \in Range(q) /\ x.tx # p.tx
      /\ Insertion(t, o, p, k)
      /\ Inserted(q, p, max) = Popped(t, max)
    BY DEF Took
<1>2. Len(o) <= Len(q) /\ Distinct(o) /\ (Sorted(q) => Sorted(o))
    BY <1>1, SubsequenceKeeps
<1>3. Len(o) \in Nat /\ Len(q) \in Nat
    BY <1>1, LenProperties
<1>4. t \in Seq(Package) /\ Len(t) = Len(o) + 1
    BY <1>1 DEF Insertion
<1>5. Range(t) = Range(o) \cup {p} /\ Distinct(t)
    BY <1>1, <1>2, InsertionKeeps
<1>6. Len(t) <= max + 1
    BY <1>2, <1>3, <1>4
<1>7. PICK r : r = Popped(t, max)
    OBVIOUS
<1>8. r \in Seq(Package) /\ Subsequence(r, t) /\ Len(r) <= max
    BY <1>4, <1>6, <1>7, PoppedIs
<1>9. Distinct(r) /\ Range(r) \subseteq Range(t) /\ (Sorted(t) => Sorted(r))
    BY <1>4, <1>5, <1>8, SubsequenceKeeps
<1>10. ASSUME Sorted(q), Len(q) <= LinearScan PROVE Sorted(t)
  <2>1. /\ \A i \in 1..Len(o) : i < k => o[i].key >= p.key
        /\ k <= Len(o) => p.key > o[k].key
      BY <1>10 DEF Took
  <2>. QED
      BY <1>1, <1>2, <1>10, <2>1, InsertionKeeps
<1>. QED
    BY <1>1, <1>4, <1>5, <1>6, <1>7, <1>8, <1>9, <1>10
-----------------------------------------------------------------------------
(* The steps of the group, on values.                                      *)

\* A step leaves the group as it is, takes a package, or lets packages go.
GroupStep(max, q, r) ==
    \/ r = q
    \/ \E p \in Package : ~Refused(q, p, max) /\ r = Inserted(q, p, max)
    \/ \E keep : r = Retain(q, keep)

\* A group as every operation leaves it.  The order is promised only to a
\* group the linear scan covers.
Sound(max, q) ==
    /\ q \in Seq(Package)
    /\ Distinct(q)
    /\ Len(q) <= max
    /\ max <= LinearScan => Sorted(q)

LEMMA RetainIs ==
    ASSUME NEW q \in Seq(Package), NEW keep
    PROVE  /\ Retain(q, keep) \in Seq(Package)
           /\ Subsequence(Retain(q, keep), q)
           /\ Range(Retain(q, keep)) \subseteq Range(q)
<1>1. PICK K : K = {p \in Range(q) : p.tx \in keep}
    OBVIOUS
<1>2. Retain(q, keep) = Filter(q, K)
    BY <1>1 DEF Retain
<1>3. Filter(q, K) \in Seq(Package) /\ Subsequence(Filter(q, K), q)
    BY FilterType, FilterSubsequence
<1>4. Range(Filter(q, K)) = Range(q) \cap K
    BY FilterRange
<1>. QED
    BY <1>2, <1>3, <1>4

LEMMA StepKeepsSound ==
    ASSUME NEW max \in Nat \ {0}, NEW q, NEW r, Sound(max, q), GroupStep(max, q, r)
    PROVE  Sound(max, r)
<1>1. /\ q \in Seq(Package) /\ Distinct(q) /\ Len(q) <= max
      /\ max <= LinearScan => Sorted(q)
      /\ max \in Nat \ {0} /\ LinearScan \in Nat
    BY LinearScanAssumption DEF Sound
<1>2. Len(q) \in Nat
    BY <1>1, LenProperties
<1>3. CASE r = q
    BY <1>3
<1>4. ASSUME NEW p \in Package, r = Inserted(q, p, max) PROVE Sound(max, r)
  <2>1. PICK o, t, k : Took(q, p, max, o, t, k)
      BY <1>1, InsertedIs
  <2>2. /\ r \in Seq(Package) /\ Len(r) <= max /\ Distinct(r)
        /\ Sorted(q) /\ Len(q) <= LinearScan => Sorted(r)
      BY <1>1, <1>4, <2>1, TookKeeps
  <2>3. max <= LinearScan => Len(q) <= LinearScan
      BY <1>1, <1>2
  <2>. QED
      BY <1>1, <2>2, <2>3 DEF Sound
<1>5. ASSUME NEW keep, r = Retain(q, keep) PROVE Sound(max, r)
  <2>1. r \in Seq(Package) /\ Subsequence(r, q)
      BY <1>1, <1>5, RetainIs
  <2>2. Len(r) <= Len(q) /\ Distinct(r) /\ (Sorted(q) => Sorted(r))
      BY <1>1, <2>1, SubsequenceKeeps
  <2>3. Len(r) \in Nat
      BY <2>1, LenProperties
  <2>4. Len(r) <= max
      BY <1>1, <1>2, <2>2, <2>3
  <2>. QED
      BY <1>1, <2>1, <2>2, <2>4 DEF Sound
<1>. QED
    BY <1>3, <1>4, <1>5 DEF GroupStep

\* A version that stays is the one that was there or one that outbid it.
LEMMA StepKeepsKeys ==
    ASSUME NEW max \in Nat \ {0}, NEW q, NEW r, Sound(max, q), GroupStep(max, q, r),
           NEW i \in DOMAIN q, NEW j \in DOMAIN r, q[i].tx = r[j].tx
    PROVE  q[i].key <= r[j].key
<1>1. q \in Seq(Package) /\ Distinct(q) /\ Len(q) <= max /\ max \in Nat \ {0}
    BY DEF Sound
<1>2. /\ DOMAIN q = 1..Len(q)
      /\ \A n \in 1..Len(q) : q[n] \in Package /\ q[n].key \in Nat
    BY <1>1, PackageOf
<1>3. ASSUME r[j] \in Range(q) PROVE q[i].key <= r[j].key
  <2>1. PICK n \in 1..Len(q) : r[j] = q[n]
      BY <1>2, <1>3 DEF Range
  <2>2. n = i
      BY <1>1, <1>2, <2>1 DEF Distinct
  <2>. QED
      BY <1>2, <2>1, <2>2
<1>4. CASE r = q
    BY <1>3, <1>4 DEF Range
<1>5. ASSUME NEW p \in Package, ~Refused(q, p, max), r = Inserted(q, p, max)
      PROVE  q[i].key <= r[j].key
  <2>1. PICK o, t, k : Took(q, p, max, o, t, k)
      BY <1>1, InsertedIs
  <2>2. Range(r) \subseteq Range(q) \cup {p}
      BY <1>1, <1>5, <2>1, TookKeeps
  <2>3. r[j] \in Range(q) \cup {p}
      BY <2>2 DEF Range
  <2>4. CASE r[j] = p
    <3>1. p.tx \in Txs(q) /\ q[i].tx = p.tx
        BY <2>4 DEF Txs
    <3>2. PICK n : n = Search(q, p.tx)
        OBVIOUS
    <3>3. n \in 1..Len(q) /\ q[n].tx = p.tx
        BY <1>1, <3>1, <3>2, SearchIs
    <3>4. n = i
        BY <1>1, <1>2, <3>1, <3>3 DEF Distinct
    <3>5. ~(p.key <= q[n].key)
        BY <1>5, <3>1, <3>2 DEF Refused, Outbid
    <3>6. p.key \in Nat /\ q[i].key \in Nat
        BY <1>2 DEF Package
    <3>. QED
        BY <2>4, <3>4, <3>5, <3>6
  <2>. QED
      BY <1>3, <2>3, <2>4
<1>6. ASSUME NEW keep, r = Retain(q, keep) PROVE q[i].key <= r[j].key
  <2>1. Range(r) \subseteq Range(q)
      BY <1>1, <1>6, RetainIs
  <2>. QED
      BY <1>3, <2>1 DEF Range
<1>. QED
    BY <1>4, <1>5, <1>6 DEF GroupStep

\* What a newcomer pushes out is the tail, which it outbids.
LEMMA StepDisplaces ==
    ASSUME NEW max \in Nat \ {0}, NEW q, NEW r, Sound(max, q), GroupStep(max, q, r), max <= LinearScan,
           NEW i \in DOMAIN q, q[i].tx \notin Txs(r),
           NEW c \in Range(r), c \notin Range(q)
    PROVE  /\ q[i].key < c.key
           /\ \A x \in Range(r) : q[i].key <= x.key
<1>1. /\ q \in Seq(Package) /\ Distinct(q) /\ Len(q) <= max /\ Sorted(q)
      /\ max \in Nat \ {0} /\ LinearScan \in Nat
    BY LinearScanAssumption DEF Sound
<1>2. /\ DOMAIN q = 1..Len(q) /\ Len(q) \in Nat
      /\ q[i] \in Package /\ q[i].key \in Nat /\ q[i] \in Range(q)
    BY <1>1, PackageOf DEF Range
<1>3. \A x \in Range(r) : x.tx # q[i].tx
    BY DEF Range, Txs
<1>4. ~(\E keep : r = Retain(q, keep)) /\ r # q
    BY <1>1, RetainIs
<1>5. PICK p \in Package : ~Refused(q, p, max) /\ r = Inserted(q, p, max)
    BY <1>4 DEF GroupStep
<1>6. PICK o : o = Replaced(q, p)
    OBVIOUS
<1>7. PICK t, k : Took(q, p, max, o, t, k)
    BY <1>1, <1>6, InsertedIs
<1>8. /\ t \in Seq(Package) /\ Range(t) = Range(o) \cup {p} /\ Len(t) <= max + 1
      /\ Range(r) \subseteq Range(q) \cup {p} /\ Sorted(t)
  <2>1. Len(q) <= LinearScan
      BY <1>1, <1>2
  <2>. QED
      BY <1>1, <1>5, <1>7, <2>1, TookKeeps
<1>9. c = p /\ q[i].tx # p.tx
    BY <1>3, <1>8
<1>10. /\ o \in Seq(Package) /\ r = Popped(t, max) /\ Insertion(t, o, p, k)
       /\ q[i] \in Range(o)
    BY <1>2, <1>5, <1>7, <1>9 DEF Took
<1>11. PICK n \in Nat : /\ n = Len(t) /\ DOMAIN t = 1..n
                        /\ \A m \in 1..n : t[m] \in Package /\ t[m].key \in Nat
    BY <1>8, PackageOf
<1>12. n > max /\ Range(t) = Range(r) \cup {t[n]}
  <2>1. q[i] \in Range(t) /\ q[i] \notin Range(r)
      BY <1>3, <1>8, <1>10
  <2>2. Len(t) <= max => r = t
      BY <1>1, <1>8, <1>10, PoppedIs
  <2>3. Len(t) > max => Range(t) = Range(r) \cup {t[Len(t)]}
      BY <1>1, <1>8, <1>10, PoppedIs
  <2>. QED
      BY <1>1, <1>11, <2>1, <2>2, <2>3
<1>13. q[i] = t[n] /\ n \in 1..n /\ n - 1 \in Nat
    BY <1>1, <1>3, <1>8, <1>10, <1>11, <1>12
<1>14. ASSUME NEW x \in Range(r) PROVE q[i].key <= x.key
  <2>1. PICK m \in 1..n : x = t[m]
      BY <1>11, <1>12 DEF Range
  <2>2. m = n \/ m < n
      BY <1>11
  <2>. QED
      BY <1>8, <1>11, <1>13, <2>1, <2>2 DEF Sorted
<1>15. q[i].key < p.key
  <2>1. /\ Len(o) = n - 1 /\ k \in 1..n /\ t[k] = p
        /\ \A m \in 1..Len(o) : t[IF m < k THEN m ELSE m + 1] = o[m]
      BY <1>10, <1>11, <1>13 DEF Insertion
  <2>2. k # n
      BY <1>9, <1>13, <2>1
  <2>3. n - 1 \in 1..Len(o) /\ k <= n - 1
      BY <1>11, <1>13, <2>1, <2>2
  <2>4. t[n] = o[n - 1]
      BY <1>13, <2>1, <2>3
  <2>5. ~TooLow(o, p, max)
      BY <1>5, <1>6 DEF Refused, Replaced
  <2>6. Len(o) >= max /\ Len(o) > 0
      BY <1>1, <1>11, <1>12, <2>1, <2>3
  <2>7. ~(p.key <= q[i].key)
      BY <1>13, <2>1, <2>4, <2>5, <2>6 DEF TooLow
  <2>8. p.key \in Nat
      BY DEF Package
  <2>. QED
      BY <1>2, <2>7, <2>8
<1>. QED
    BY <1>9, <1>14, <1>15
-----------------------------------------------------------------------------
(* The inductive invariant of one group and its theorems.                  *)

GroupInv == Sound(GroupMax, txpkgs) /\ arrived \in Nat /\ removals \in Nat

LEMMA InitGroupInv == GroupInit => GroupInv
<1> SUFFICES ASSUME GroupInit PROVE GroupInv
    OBVIOUS
<1>1. txpkgs \in Seq(Package) /\ Len(txpkgs) = 0
    BY EmptySeq DEF GroupInit
<1>. QED
    BY <1>1, GroupConstants DEF GroupInit, GroupInv, Sound, Distinct, Sorted

LEMMA NextIsStep ==
    ASSUME GroupInv, [GroupNext]_groupVars
    PROVE  GroupStep(GroupMax, txpkgs, txpkgs') /\ arrived' \in Nat /\ removals' \in Nat
<1>1. arrived \in Nat /\ removals \in Nat /\ Keys \subseteq Nat
    BY KeysAssumption DEF GroupInv
<1>2. ASSUME NEW tx \in Nat, NEW key \in Keys,
             txpkgs' = InsertResultOf(txpkgs, Pkg(tx, key), GroupMax)
      PROVE  GroupStep(GroupMax, txpkgs, txpkgs')
  <2>1. PICK p : p = Pkg(tx, key)
      OBVIOUS
  <2>2. p \in Package
      BY <1>1, <2>1 DEF Package, Pkg
  <2>3. CASE Refused(txpkgs, p, GroupMax)
      BY <1>2, <2>1, <2>3 DEF InsertResultOf, GroupStep
  <2>4. CASE ~Refused(txpkgs, p, GroupMax)
      BY <1>2, <2>1, <2>2, <2>4 DEF InsertResultOf, GroupStep
  <2>. QED
      BY <2>3, <2>4
<1>3. ASSUME NEW key \in Keys, InsertNew(key)
      PROVE  GroupStep(GroupMax, txpkgs, txpkgs') /\ arrived' \in Nat /\ removals' \in Nat
  <2>1. /\ arrived' = arrived + 1 /\ removals' = removals
        /\ txpkgs' = InsertResultOf(txpkgs, Pkg(arrived + 1, key), GroupMax)
      BY <1>3 DEF InsertNew
  <2>2. arrived + 1 \in Nat
      BY <1>1
  <2>. QED
      BY <1>1, <1>2, <2>1, <2>2
<1>4. ASSUME NEW tx \in 1..arrived, NEW key \in Keys, Resubmit(tx, key)
      PROVE  GroupStep(GroupMax, txpkgs, txpkgs') /\ arrived' \in Nat /\ removals' \in Nat
  <2>1. /\ arrived' = arrived /\ removals' = removals
        /\ txpkgs' = InsertResultOf(txpkgs, Pkg(tx, key), GroupMax)
      BY <1>4 DEF Resubmit
  <2>2. tx \in Nat
      BY <1>1
  <2>. QED
      BY <1>1, <1>2, <2>1, <2>2
<1>5. ASSUME NEW gone, Leave(gone)
      PROVE  GroupStep(GroupMax, txpkgs, txpkgs') /\ arrived' \in Nat /\ removals' \in Nat
  <2>1. /\ arrived' = arrived /\ removals' = removals + 1
        /\ txpkgs' = Retain(txpkgs, Txs(txpkgs) \ gone)
      BY <1>5 DEF Leave
  <2>. QED
      BY <1>1, <2>1 DEF GroupStep
<1>6. CASE UNCHANGED groupVars
    BY <1>1, <1>6 DEF groupVars, GroupStep
<1>. QED
    BY <1>3, <1>4, <1>5, <1>6 DEF GroupNext

LEMMA NextGroupInv == GroupInv /\ [GroupNext]_groupVars => GroupInv'
<1> SUFFICES ASSUME GroupInv, [GroupNext]_groupVars PROVE GroupInv'
    OBVIOUS
<1>1. GroupStep(GroupMax, txpkgs, txpkgs') /\ arrived' \in Nat /\ removals' \in Nat
    BY NextIsStep
<1>2. Sound(GroupMax, txpkgs)
    BY DEF GroupInv
<1>3. Sound(GroupMax, txpkgs')
    BY <1>1, <1>2, GroupConstants, StepKeepsSound
<1>. QED
    BY <1>1, <1>3 DEF GroupInv

\* The operations of TxGroup keep a group that is within its size, has each
\* transaction once and, where it is never bisected, is in order.
THEOREM GroupInvariant == GroupSpec => []GroupInv
<1>. QED
    BY InitGroupInv, NextGroupInv, PTL DEF GroupSpec

\* TxGroup::insert neither outgrows maxsz nor leaves two versions of a
\* transaction, bisected or not and at every maxsz.
THEOREM GroupIsSound == GroupSpec => []GroupSound
<1>1. GroupInv => GroupSound
  <2>. SUFFICES ASSUME GroupInv PROVE GroupSound
      OBVIOUS
  <2>1. /\ txpkgs \in Seq(Package) /\ Distinct(txpkgs) /\ Len(txpkgs) <= GroupMax
      BY DEF GroupInv, Sound
  <2>2. DOMAIN txpkgs = 1..Len(txpkgs)
      BY <2>1, PackageOf
  <2>. QED
      BY <2>1, <2>2 DEF GroupSound, Distinct
<1>. QED
    BY <1>1, GroupInvariant, PTL

\* While maxsz is within the linear scan, as on a node that does not mine,
\* insert_rng keeps the group best first.
THEOREM StaysOrdered ==
    ASSUME GroupMax <= LinearScan
    PROVE  GroupSpec => []Ordered
<1>1. GroupInv => Ordered
  <2>. SUFFICES ASSUME GroupInv PROVE Ordered
      OBVIOUS
  <2>1. txpkgs \in Seq(Package) /\ Sorted(txpkgs)
      BY DEF GroupInv, Sound
  <2>2. DOMAIN txpkgs = 1..Len(txpkgs)
      BY <2>1, PackageOf
  <2>. QED
      BY <2>1, <2>2 DEF Ordered, Sorted
<1>. QED
    BY <1>1, GroupInvariant, PTL

\* In a group within the linear scan, what insert pops for a newcomer is worth
\* less than the newcomer and no more than anything that stays.
THEOREM LowestIsDisplaced ==
    ASSUME GroupMax <= LinearScan
    PROVE  GroupSpec => DisplacesTheLowest
<1> DEFINE Step == \A i \in DOMAIN txpkgs :
             LET old == txpkgs[i]
                 new == {txpkgs'[j] : j \in DOMAIN txpkgs'}
                 came == {p \in new : \A k \in DOMAIN txpkgs : txpkgs[k] # p}
             IN  came # {} /\ old.tx \notin Txs(txpkgs') =>
                    /\ \A p \in came : old.key < p.key
                    /\ \A p \in new : old.key <= p.key
<1>1. GroupInv /\ [GroupNext]_groupVars => Step
  <2>. SUFFICES ASSUME GroupInv, [GroupNext]_groupVars PROVE Step
      OBVIOUS
  <2>1. Sound(GroupMax, txpkgs) /\ GroupStep(GroupMax, txpkgs, txpkgs')
      BY NextIsStep DEF GroupInv
  <2>2. PICK q, r : q = txpkgs /\ r = txpkgs'
      OBVIOUS
  <2>3. ASSUME NEW i \in DOMAIN q, q[i].tx \notin Txs(r),
               NEW c \in Range(r), c \notin Range(q)
        PROVE  q[i].key < c.key /\ \A x \in Range(r) : q[i].key <= x.key
      BY <2>1, <2>2, <2>3, GroupConstants, StepDisplaces
  <2>. QED
      BY <2>2, <2>3 DEF Range
<1>. QED
    BY <1>1, GroupInvariant, PTL DEF GroupSpec, DisplacesTheLowest

\* A resubmission is taken only at a higher key, so no operation lowers the
\* key at which a transaction is held.
THEOREM KeysNeverDrop == GroupSpec => KeyNeverDrops
<1> DEFINE Step == \A i \in DOMAIN txpkgs, j \in DOMAIN txpkgs' :
             txpkgs[i].tx = txpkgs'[j].tx => txpkgs[i].key <= txpkgs'[j].key
<1>1. GroupInv /\ [GroupNext]_groupVars => Step
  <2>. SUFFICES ASSUME GroupInv, [GroupNext]_groupVars PROVE Step
      OBVIOUS
  <2>1. Sound(GroupMax, txpkgs) /\ GroupStep(GroupMax, txpkgs, txpkgs')
      BY NextIsStep DEF GroupInv
  <2>. QED
      BY <2>1, GroupConstants, StepKeepsKeys
<1>. QED
    BY <1>1, GroupInvariant, PTL DEF GroupSpec, KeyNeverDrops
-----------------------------------------------------------------------------
(* The groups of the pool.                                                 *)

\* A group of the pool as every operation leaves it.
Fits(g, q) ==
    /\ q \in Seq(Pkgs)
    /\ Sound(MaxSize[g], q)
    /\ \A t \in Txs(q) : Group(t) = g

\* What a step of the pool may do to a group: take a package of its kind, or
\* let packages go.
PoolStep(g, q, r) ==
    \/ r = q
    \/ \E p \in Pkgs : /\ Group(p.tx) = g
                       /\ ~Refused(q, p, MaxSize[g])
                       /\ r = Inserted(q, p, MaxSize[g])
    \/ \E keep : r = Retain(q, keep)

LEMMA PkgIsPackage ==
    ASSUME NEW p \in Pkgs
    PROVE  p \in Package /\ p.tx \in Tx
BY KeysAssumption DEF Pkgs, Package

LEMMA SeqOverRange ==
    ASSUME NEW S, NEW T, NEW s \in Seq(S), Range(s) \subseteq T
    PROVE  s \in Seq(T)
<1>1. s \in [1..Len(s) -> T]
    BY LenProperties DEF Range
<1>2. Len(s) \in Nat
    BY LenProperties
<1>. QED
    BY <1>1, <1>2, SeqDef

LEMMA PkgsOf ==
    ASSUME NEW q \in Seq(Pkgs)
    PROVE  /\ q \in Seq(Package)
           /\ Range(q) \subseteq Pkgs
           /\ Txs(q) = {x.tx : x \in Range(q)}
           /\ Txs(q) \subseteq Tx
<1>1. Pkgs \subseteq Package /\ \A p \in Pkgs : p.tx \in Tx
    BY PkgIsPackage
<1>2. q \in Seq(Package)
    BY <1>1, SeqOfSubset
<1>3. DOMAIN q = 1..Len(q) /\ \A i \in 1..Len(q) : q[i] \in Pkgs
    BY LenProperties, ElementOfSeq
<1>4. Range(q) \subseteq Pkgs
    BY <1>3 DEF Range
<1>5. Txs(q) = {x.tx : x \in Range(q)}
    BY DEF Txs, Range
<1>. QED
    BY <1>1, <1>2, <1>4, <1>5

\* The packages a step brings into a group are of that group.
LEMMA PoolStepIs ==
    ASSUME NEW g \in Groups, NEW q, NEW r, Fits(g, q), PoolStep(g, q, r)
    PROVE  /\ Fits(g, r)
           /\ GroupStep(MaxSize[g], q, r)
<1>1. /\ q \in Seq(Pkgs) /\ Sound(MaxSize[g], q) /\ q \in Seq(Package)
      /\ Distinct(q) /\ Len(q) <= MaxSize[g]
      /\ MaxSize[g] \in Nat \ {0}
    BY PkgsOf, PoolConstants DEF Fits, Sound
<1>2. Range(q) \subseteq Pkgs /\ \A x \in Range(q) : Group(x.tx) = g
    BY <1>1, PkgsOf DEF Fits
<1>3. ASSUME NEW p \in Pkgs, Group(p.tx) = g, r = Inserted(q, p, MaxSize[g])
      PROVE  Range(r) \subseteq Pkgs /\ \A x \in Range(r) : Group(x.tx) = g
  <2>1. p \in Package
      BY PkgIsPackage
  <2>2. PICK o, t, k : Took(q, p, MaxSize[g], o, t, k)
      BY <1>1, <2>1, InsertedIs
  <2>3. Range(r) \subseteq Range(q) \cup {p}
      BY <1>1, <1>3, <2>1, <2>2, TookKeeps
  <2>. QED
      BY <1>2, <1>3, <2>3
<1>4. ASSUME NEW keep, r = Retain(q, keep)
      PROVE  Range(r) \subseteq Pkgs /\ \A x \in Range(r) : Group(x.tx) = g
  <2>1. Range(r) \subseteq Range(q)
      BY <1>1, <1>4, RetainIs
  <2>. QED
      BY <1>2, <2>1
<1>5. Range(r) \subseteq Pkgs /\ \A x \in Range(r) : Group(x.tx) = g
    BY <1>2, <1>3, <1>4 DEF PoolStep
<1>6. GroupStep(MaxSize[g], q, r)
    BY PkgIsPackage DEF PoolStep, GroupStep
<1>7. Sound(MaxSize[g], r)
    BY <1>1, <1>6, StepKeepsSound
<1>8. r \in Seq(Pkgs)
    BY <1>5, <1>7, SeqOverRange DEF Sound
<1>9. \A t \in Txs(r) : Group(t) = g
    BY <1>5, <1>8, PkgsOf
<1>. QED
    BY <1>6, <1>7, <1>8, <1>9 DEF Fits

\* A group that has each transaction once has as many of them as packages.
LEMMA TxsCount ==
    ASSUME NEW q \in Seq(Package), Distinct(q)
    PROVE  Cardinality(Txs(q)) = Len(q)
<1>1. PICK n \in Nat : n = Len(q) /\ DOMAIN q = 1..n
    BY LenProperties
<1>2. IsFiniteSet(1..n) /\ Cardinality(1..n) = n
  <2>1. IsFiniteSet(1..n) /\ Cardinality(1..n) = IF 1 > n THEN 0 ELSE n - 1 + 1
    <3>1. 1 \in Int /\ n \in Int
        BY <1>1
    <3>. QED
        BY <3>1, FS_Interval
  <2>. QED
      BY <1>1, <2>1
<1>3. PICK D, T : D = 1..n /\ T = Txs(q)
    OBVIOUS
<1>4. PICK f : f = [i \in D |-> q[i].tx]
    OBVIOUS
<1>5. f \in Bijection(D, T)
  <2>1. T = {q[i].tx : i \in D}
      BY <1>1, <1>3 DEF Txs
  <2>2. \A a, b \in D : f[a] = f[b] => a = b
      BY <1>1, <1>3, <1>4 DEF Distinct
  <2>3. f \in [D -> T] /\ \A t \in T : \E s \in D : f[s] = t
      BY <1>4, <2>1
  <2>. QED
      BY <2>2, <2>3 DEF Bijection, Injection, Surjection, IsInjective
<1>6. Cardinality(T) = Cardinality(D)
    BY <1>2, <1>3, <1>5, FS_Bijection DEF ExistsBijection
<1>. QED
    BY <1>1, <1>2, <1>3, <1>6
-----------------------------------------------------------------------------
(* The invariant of the pool and its steps.                                *)

\* A refresh that is under way.
Refreshes == [step : {"bids", "clean"} \cup Groups, txs : SUBSET Tx, hei : 0..(Cycle - 1)]

\* The rest of the state: what the threads carry, the head, the stored blocks and
\* the builder.
Rest ==
    /\ chain \subseteq Tx /\ pack \subseteq Tx
    /\ height \in 0..(Cycle - 1)
    /\ DOMAIN hand = Handlers
    /\ \A h \in Handlers :
          \/ hand[h] = Idle
          \/ hand[h] \in [step : {"submit", "insert"}, pkg : Pkgs]
    /\ \/ refresh = Idle
       \/ refresh \in Refreshes
    /\ stored \subseteq [txs : SUBSET Tx, lag : 0..Depth]

PoolInv ==
    /\ pool \in [Groups -> Seq(Pkgs)]
    /\ \A g \in Groups : Fits(g, pool[g])
    /\ Rest

\* How an action changes the groups.
PoolSteps(p, q) ==
    /\ q \in [Groups -> {q[g] : g \in Groups}]
    /\ \A g \in Groups : PoolStep(g, p[g], q[g])

\* What each action leaves of the groups: only an insertion brings packages.
Shrinks(p, q) == \A g \in Groups : Txs(q[g]) \subseteq Txs(p[g])

LEMMA InitPoolInv == Init => PoolInv
<1> SUFFICES ASSUME Init PROVE PoolInv
    OBVIOUS
<1>1. ASSUME NEW g \in Groups PROVE pool[g] \in Seq(Pkgs) /\ Fits(g, pool[g])
  <2>1. PICK q : q = pool[g] /\ q = <<>>
      BY <1>1 DEF Init
  <2>2. q \in Seq(Pkgs) /\ q \in Seq(Package) /\ Len(q) = 0 /\ DOMAIN q = {}
      BY <2>1, EmptySeq
  <2>3. Txs(q) = {}
      BY <2>2 DEF Txs
  <2>4. Sound(MaxSize[g], q)
      BY <2>2, PoolConstants DEF Sound, Distinct, Sorted
  <2>. QED
      BY <2>1, <2>2, <2>3, <2>4 DEF Fits
<1>2. pool \in [Groups -> Seq(Pkgs)]
    BY <1>1 DEF Init
<1>3. 0 \in 0..(Cycle - 1)
    BY PoolConstants
<1>. QED
    BY <1>1, <1>2, <1>3 DEF Init, PoolInv, Rest

\* Every action that touches the groups does one PoolStep to each of them.
LEMMA PoolKept ==
    ASSUME PoolInv, PoolSteps(pool, pool')
    PROVE  /\ pool' \in [Groups -> Seq(Pkgs)]
           /\ \A g \in Groups : Fits(g, pool'[g])
<1>1. ASSUME NEW g \in Groups PROVE Fits(g, pool'[g]) /\ pool'[g] \in Seq(Pkgs)
  <2>1. Fits(g, pool[g])
      BY DEF PoolInv, Rest
  <2>2. Fits(g, pool'[g])
      BY <2>1, PoolStepIs DEF PoolSteps
  <2>. QED
      BY <2>2 DEF Fits
<1>. QED
    BY <1>1 DEF PoolSteps

\* Where an operation only keeps some packages of a group, none arrives.
LEMMA RetainShrinks ==
    ASSUME NEW q \in Seq(Pkgs), NEW keep
    PROVE  Txs(Retain(q, keep)) = Txs(q) \cap keep
<1>1. q \in Seq(Package)
    BY PkgsOf
<1>2. PICK K : K = {p \in Range(q) : p.tx \in keep}
    OBVIOUS
<1>3. PICK r : r = Retain(q, keep) /\ r = Filter(q, K)
    BY <1>2 DEF Retain
<1>4. Range(r) = Range(q) \cap K
    BY <1>3, FilterRange
<1>5. Txs(r) = {x.tx : x \in Range(r)} /\ Txs(q) = {x.tx : x \in Range(q)}
    BY DEF Txs, Range
<1>. QED
    BY <1>2, <1>3, <1>4, <1>5

LEMMA InsertShrinks ==
    ASSUME NEW g \in Groups, NEW q, Fits(g, q), NEW p \in Pkgs
    PROVE  Txs(Inserted(q, p, MaxSize[g])) \subseteq Txs(q) \cup {p.tx}
<1>1. /\ q \in Seq(Pkgs) /\ q \in Seq(Package) /\ Distinct(q) /\ Len(q) <= MaxSize[g]
      /\ MaxSize[g] \in Nat \ {0} /\ p \in Package
    BY PkgsOf, PkgIsPackage, PoolConstants DEF Fits, Sound
<1>2. PICK o, t, k : Took(q, p, MaxSize[g], o, t, k)
    BY <1>1, InsertedIs
<1>3. PICK r : r = Inserted(q, p, MaxSize[g])
    OBVIOUS
<1>4. Range(r) \subseteq Range(q) \cup {p}
    BY <1>1, <1>2, <1>3, TookKeeps
<1>5. Txs(r) = {x.tx : x \in Range(r)} /\ Txs(q) = {x.tx : x \in Range(q)}
    BY DEF Txs, Range
<1>. QED
    BY <1>3, <1>4, <1>5
\* Packages leave one group, or none does.
LEMMA RetainOne ==
    ASSUME PoolInv, NEW g \in Groups, NEW keep,
           pool' = [pool EXCEPT ![g] = Retain(@, keep)]
    PROVE  /\ PoolSteps(pool, pool') /\ Shrinks(pool, pool')
           /\ Txs(pool'[g]) = Txs(pool[g]) \cap keep
<1>1. /\ pool \in [Groups -> Seq(Pkgs)] /\ pool[g] \in Seq(Pkgs)
      /\ pool'[g] = Retain(pool[g], keep)
      /\ \A f \in Groups \ {g} : pool'[f] = pool[f]
      /\ pool' \in [Groups -> {pool'[f] : f \in Groups}]
    BY DEF PoolInv, Rest
<1>2. Txs(pool'[g]) = Txs(pool[g]) \cap keep
    BY <1>1, RetainShrinks
<1>3. PoolStep(g, pool[g], pool'[g])
    BY <1>1 DEF PoolStep
<1>4. \A f \in Groups \ {g} : PoolStep(f, pool[f], pool'[f])
    BY <1>1 DEF PoolStep
<1>. QED
    BY <1>1, <1>2, <1>3, <1>4 DEF PoolSteps, Shrinks

LEMMA SamePool ==
    ASSUME PoolInv, pool' = pool
    PROVE  PoolSteps(pool, pool') /\ Shrinks(pool, pool')
<1>1. pool \in [Groups -> {pool[g] : g \in Groups}]
    BY DEF PoolInv, Rest
<1>2. \A g \in Groups : PoolStep(g, pool[g], pool[g])
    BY DEF PoolStep
<1>. QED
    BY <1>1, <1>2 DEF PoolSteps, Shrinks

LEMMA InsertBySteps ==
    ASSUME PoolInv, NEW h \in Handlers, InsertBy(h)
    PROVE  /\ PoolSteps(pool, pool')
           /\ hand[h].pkg \in Pkgs
           /\ \A g \in Groups : Txs(pool'[g]) \subseteq Txs(pool[g]) \cup {hand[h].pkg.tx}
<1>1. PICK p : p = hand[h].pkg
    OBVIOUS
<1>2. p \in Pkgs
    BY <1>1 DEF PoolInv, Rest, InsertBy, Idle
<1>3. PICK g \in Groups : g = Group(p.tx)
    BY DEF Group, Groups
<1>4. /\ pool \in [Groups -> Seq(Pkgs)] /\ Fits(g, pool[g])
      /\ pool'[g] = InsertResultOf(pool[g], p, MaxSize[g])
      /\ \A f \in Groups \ {g} : pool'[f] = pool[f]
      /\ pool' \in [Groups -> {pool'[f] : f \in Groups}]
    BY <1>1, <1>3 DEF PoolInv, Rest, InsertBy
<1>5. CASE Refused(pool[g], p, MaxSize[g])
  <2>1. pool'[g] = pool[g]
      BY <1>4, <1>5 DEF InsertResultOf
  <2>2. \A f \in Groups : pool'[f] = pool[f]
      BY <1>4, <2>1
  <2>. QED
      BY <1>1, <1>2, <1>4, <2>2 DEF PoolSteps, PoolStep
<1>6. CASE ~Refused(pool[g], p, MaxSize[g])
  <2>1. pool'[g] = Inserted(pool[g], p, MaxSize[g])
      BY <1>4, <1>6 DEF InsertResultOf
  <2>2. PoolStep(g, pool[g], pool'[g])
      BY <1>2, <1>3, <1>6, <2>1 DEF PoolStep
  <2>3. \A f \in Groups \ {g} : PoolStep(f, pool[f], pool'[f])
      BY <1>4 DEF PoolStep
  <2>4. Txs(pool'[g]) \subseteq Txs(pool[g]) \cup {p.tx}
      BY <1>2, <1>4, <2>1, InsertShrinks
  <2>. QED
      BY <1>1, <1>2, <1>4, <2>2, <2>3, <2>4 DEF PoolSteps
<1>. QED
    BY <1>5, <1>6

LEMMA CleanBidsSteps ==
    ASSUME PoolInv, CleanBids
    PROVE  PoolSteps(pool, pool') /\ Shrinks(pool, pool')
<1>1. CASE refresh.hei % BidSpan # 0
  <2>1. pool' = pool
      BY <1>1 DEF CleanBids
  <2>. QED
      BY <2>1, SamePool
<1>2. CASE ~(refresh.hei % BidSpan # 0)
  <2>1. PICK keep : keep = {t \in Diamint : StillBid(t)}
      OBVIOUS
  <2>2. pool' = [pool EXCEPT ![DIAMINT] = Retain(@, keep)]
      BY <1>2, <2>1 DEF CleanBids
  <2>3. DIAMINT \in Groups
      BY DEF Groups
  <2>. QED
      BY <2>2, <2>3, RetainOne
<1>. QED
    BY <1>1, <1>2

LEMMA DrainSteps ==
    ASSUME PoolInv, Drain
    PROVE  /\ PoolSteps(pool, pool') /\ Shrinks(pool, pool')
           /\ refresh.step \in Groups
           /\ Txs(pool'[refresh.step]) \cap refresh.txs = {}
<1>1. PICK g \in Groups : g = refresh.step
    BY DEF Drain
<1>2. PICK keep : keep = Tx \ refresh.txs
    OBVIOUS
<1>3. pool' = [pool EXCEPT ![g] = Retain(@, keep)]
    BY <1>1, <1>2 DEF Drain, Drained
<1>4. /\ PoolSteps(pool, pool') /\ Shrinks(pool, pool')
      /\ Txs(pool'[g]) = Txs(pool[g]) \cap keep
    BY <1>3, RetainOne
<1>5. Txs(pool'[g]) \cap refresh.txs = {}
    BY <1>2, <1>4
<1>. QED
    BY <1>1, <1>4, <1>5

LEMMA CleanNormalSteps ==
    ASSUME PoolInv, CleanNormal
    PROVE  PoolSteps(pool, pool') /\ Shrinks(pool, pool')
<1>1. CASE refresh.hei % CleanSpan # 0
  <2>1. pool' = pool
      BY <1>1 DEF CleanNormal
  <2>. QED
      BY <2>1, SamePool
<1>2. CASE ~(refresh.hei % CleanSpan # 0)
  <2>1. PICK failing : pool' = [pool EXCEPT ![NORMAL] = Cleaned(@, failing)]
      BY <1>2 DEF CleanNormal
  <2>2. PICK q : q = pool[NORMAL]
      OBVIOUS
  <2>3. PICK keep : Cleaned(q, failing) = Retain(q, keep)
      BY DEF Cleaned
  <2>4. pool' = [pool EXCEPT ![NORMAL] = Retain(@, keep)]
      BY <2>1, <2>2, <2>3
  <2>5. NORMAL \in Groups
      BY DEF Groups
  <2>. QED
      BY <2>4, <2>5, RetainOne
<1>. QED
    BY <1>1, <1>2

LEMMA PackDrainSteps ==
    ASSUME PoolInv, PackDrain
    PROVE  PoolSteps(pool, pool') /\ Shrinks(pool, pool')
<1>1. PICK keep : keep = Tx \ pack
    OBVIOUS
<1>2. /\ pool' = [g \in Groups |-> Retain(pool[g], keep)]
      /\ \A g \in Groups : pool'[g] = Retain(pool[g], keep) /\ pool[g] \in Seq(Pkgs)
    BY <1>1 DEF PackDrain, PoolInv, Rest
<1>3. pool' \in [Groups -> {pool'[g] : g \in Groups}]
    BY <1>2
<1>4. \A g \in Groups : PoolStep(g, pool[g], pool'[g])
    BY <1>2 DEF PoolStep
<1>5. \A g \in Groups : Txs(pool'[g]) \subseteq Txs(pool[g])
    BY <1>2, RetainShrinks
<1>. QED
    BY <1>3, <1>4, <1>5 DEF PoolSteps, Shrinks

\* Every step of the system does a step of its own kind to each group.
LEMMA NextPoolSteps ==
    ASSUME PoolInv, [Next]_vars
    PROVE  /\ PoolSteps(pool, pool')
           /\ \/ Shrinks(pool, pool')
              \/ \E h \in Handlers : InsertBy(h)
<1>1. CASE \E h \in Handlers : InsertBy(h)
    BY <1>1, InsertBySteps
<1>2. CASE CleanBids
    BY <1>2, CleanBidsSteps
<1>3. CASE Drain
    BY <1>3, DrainSteps
<1>4. CASE CleanNormal
    BY <1>4, CleanNormalSteps
<1>5. CASE PackDrain
    BY <1>5, PackDrainSteps
<1>6. CASE pool' = pool
    BY <1>6, SamePool
<1>7. (\E h \in Handlers, p \in Pkgs : Receive(h, p)) => pool' = pool
    BY DEF Receive
<1>8. (\E h \in Handlers : TxSubmit(h)) => pool' = pool
    BY DEF TxSubmit
<1>9. HeadBlock \/ SideBlock \/ SyncBlock \/ ReplayBlock \/ PackScan \/ UNCHANGED vars
         => pool' = pool
    BY DEF HeadBlock, SideBlock, SyncBlock, ReplayBlock, Undrained, PackScan, vars
<1>. QED
    BY <1>1, <1>2, <1>3, <1>4, <1>5, <1>6, <1>7, <1>8, <1>9 DEF Next

LEMMA HandKept ==
    ASSUME PoolInv, NEW h \in Handlers, NEW d,
           d = Idle \/ d \in [step : {"submit", "insert"}, pkg : Pkgs],
           hand' = [hand EXCEPT ![h] = d],
           UNCHANGED <<blocks, refresh, pack>>
    PROVE  Rest'
<1>1. /\ DOMAIN hand' = Handlers /\ hand'[h] = d
      /\ \A k \in Handlers \ {h} : hand'[k] = hand[k]
    BY DEF PoolInv, Rest
<1>2. \A k \in Handlers :
         \/ hand'[k] = Idle
         \/ hand'[k] \in [step : {"submit", "insert"}, pkg : Pkgs]
    BY <1>1 DEF PoolInv, Rest
<1>. QED
    BY <1>1, <1>2 DEF PoolInv, Rest, blocks

LEMMA HeightsAre ==
    ASSUME PoolInv
    PROVE  /\ NextHeight \in 0..(Cycle - 1)
           /\ \A s \in Parents : ChildHeight(s) \in 0..(Cycle - 1)
<1>1. height \in Nat /\ Cycle \in Nat \ {0}
    BY PoolConstants DEF PoolInv, Rest
<1>2. \A n \in Nat : n % Cycle \in 0..(Cycle - 1)
    BY <1>1, SMTT(30)
<1>3. height + 1 \in Nat
    BY <1>1
<1>4. ASSUME NEW s \in Parents PROVE ChildHeight(s) \in 0..(Cycle - 1)
  <2>1. s \in stored /\ s.lag > 0
      BY <1>4 DEF Parents
  <2>2. s.lag \in Nat \ {0}
      BY <2>1, PoolConstants DEF PoolInv, Rest
  <2>3. PICK l \in Nat : l = s.lag - 1
      BY <2>2
  <2>4. (Cycle - 1) * l \in Nat
    <3>1. Cycle - 1 \in Nat
        BY <1>1
    <3>. QED
        BY <3>1, SMTT(30)
  <2>5. height + (Cycle - 1) * l \in Nat
      BY <1>1, <2>4
  <2>. QED
      BY <1>2, <2>3, <2>5 DEF ChildHeight
<1>. QED
    BY <1>2, <1>3, <1>4 DEF NextHeight

LEMMA TipsAre ==
    ASSUME PoolInv
    PROVE  /\ \A c \in Tips : c \subseteq Tx
           /\ \A s \in Parents : s \in stored /\ s.txs \subseteq Tx /\ s.lag \in 1..Depth
           /\ \A c, hei : \A b \in BlocksOn(c, hei) : b \subseteq Tx
           /\ \A b \in SUBSET Tx, hei \in 0..(Cycle - 1) : RefreshOf(b, hei) \in Refreshes
<1>1. \A c \in Tips : c \subseteq Tx
    BY DEF PoolInv, Rest, Tips
<1>2. \A s \in Parents : s \in stored /\ s.txs \subseteq Tx /\ s.lag \in 1..Depth
    BY PoolConstants DEF PoolInv, Rest, Parents
<1>3. \A c, hei : \A b \in BlocksOn(c, hei) : b \subseteq Tx
    BY PoolConstants DEF BlocksOn
<1>4. \A b \in SUBSET Tx, hei \in 0..(Cycle - 1) : RefreshOf(b, hei) \in Refreshes
    BY DEF RefreshOf, Refreshes
<1>. QED
    BY <1>1, <1>2, <1>3, <1>4

\* A block that becomes the head, or is stored, keeps the blocks well formed.
BlocksTyped ==
    /\ chain \subseteq Tx /\ height \in 0..(Cycle - 1)
    /\ stored \subseteq [txs : SUBSET Tx, lag : 0..Depth]

LEMMA AdoptKeeps ==
    ASSUME PoolInv, NEW c \in Tips, NEW b \in SUBSET Tx, Adopt(c, b)
    PROVE  BlocksTyped'
<1>1. chain' \subseteq Tx /\ height' \in 0..(Cycle - 1)
    BY TipsAre, HeightsAre DEF Adopt
<1>2. ASSUME NEW s \in stored' PROVE s \in [txs : SUBSET Tx, lag : 0..Depth]
  <2>1. PICK x \in stored \cup {[txs |-> chain, lag |-> 0]} :
             x.lag < Depth /\ s = [x EXCEPT !.lag = @ + 1]
      BY <1>2 DEF Adopt
  <2>2. x \in [txs : SUBSET Tx, lag : 0..Depth]
      BY <2>1, PoolConstants DEF PoolInv, Rest
  <2>3. x.lag + 1 \in 0..Depth
      BY <2>1, <2>2, PoolConstants
  <2>. QED
      BY <2>1, <2>2, <2>3
<1>. QED
    BY <1>1, <1>2 DEF BlocksTyped

LEMMA StoreKeeps ==
    ASSUME PoolInv, NEW s \in Parents, NEW b \in SUBSET Tx, Store(s, b)
    PROVE  BlocksTyped'
<1>1. s.txs \cup b \subseteq Tx /\ s.lag - 1 \in 0..Depth
    BY TipsAre, PoolConstants
<1>2. [txs |-> s.txs \cup b, lag |-> s.lag - 1] \in [txs : SUBSET Tx, lag : 0..Depth]
    BY <1>1
<1>. QED
    BY <1>2 DEF Store, BlocksTyped, PoolInv, Rest

\* What the builder meets of a group are transactions.
LEMMA PrefixTxs ==
    ASSUME NEW q \in Seq(Pkgs), NEW n \in 0..Len(q)
    PROVE  Txs(SubSeq(q, 1, n)) \subseteq Tx
<1>1. Len(q) \in Nat /\ \A i \in 1..n : q[i] \in Pkgs
    BY LenProperties, ElementOfSeq
<1>2. SubSeq(q, 1, n) \in Seq(Pkgs)
    BY <1>1, SubSeqProperties
<1>. QED
    BY <1>2, PkgsOf

LEMMA NextRest ==
    ASSUME PoolInv, [Next]_vars
    PROVE  Rest'
<1>1. ASSUME NEW h \in Handlers, NEW p \in Pkgs, Receive(h, p) PROVE Rest'
  <2>1. PICK d : d = [step |-> "submit", pkg |-> p]
      OBVIOUS
  <2>2. d \in [step : {"submit", "insert"}, pkg : Pkgs]
      BY <2>1
  <2>3. hand' = [hand EXCEPT ![h] = d] /\ UNCHANGED <<blocks, refresh, pack>>
      BY <1>1, <2>1 DEF Receive
  <2>. QED
      BY <2>2, <2>3, HandKept
<1>2. ASSUME NEW h \in Handlers, TxSubmit(h) PROVE Rest'
  <2>1. hand[h] \in [step : {"submit", "insert"}, pkg : Pkgs]
      BY <1>2 DEF TxSubmit, PoolInv, Rest, Idle
  <2>2. PICK d : d = IF hand[h].pkg.tx \in Diamint /\ (height + 1) % BidSpan = 0
                     THEN Idle ELSE [hand[h] EXCEPT !.step = "insert"]
      OBVIOUS
  <2>3. d = Idle \/ d \in [step : {"submit", "insert"}, pkg : Pkgs]
      BY <2>1, <2>2
  <2>4. hand' = [hand EXCEPT ![h] = d] /\ UNCHANGED <<blocks, refresh, pack>>
      BY <1>2, <2>2 DEF TxSubmit
  <2>. QED
      BY <2>3, <2>4, HandKept
<1>3. ASSUME NEW h \in Handlers, InsertBy(h) PROVE Rest'
  <2>1. hand' = [hand EXCEPT ![h] = Idle] /\ UNCHANGED <<blocks, refresh, pack>>
      BY <1>3 DEF InsertBy
  <2>. QED
      BY <2>1, HandKept
<1>4. CASE HeadBlock
  <2>1. PICK c \in Tips : \E b \in BlocksOn(c, NextHeight) :
               Adopt(c, b) /\ refresh' = RefreshOf(b, NextHeight)
      BY <1>4 DEF HeadBlock
  <2>2. PICK b \in SUBSET Tx : Adopt(c, b) /\ refresh' = RefreshOf(b, NextHeight)
      BY <2>1, TipsAre
  <2>3. BlocksTyped'
      BY <2>2, AdoptKeeps
  <2>4. refresh' \in Refreshes
      BY <2>2, TipsAre, HeightsAre
  <2>5. UNCHANGED <<hand, pack>>
      BY <1>4 DEF HeadBlock
  <2>. QED
      BY <2>3, <2>4, <2>5 DEF PoolInv, Rest, BlocksTyped
<1>5. CASE SideBlock
  <2>1. PICK s \in Parents : \E b \in BlocksOn(s.txs, ChildHeight(s)) :
               Store(s, b) /\ refresh' = RefreshOf(b, ChildHeight(s))
      BY <1>5 DEF SideBlock
  <2>2. PICK b \in SUBSET Tx : Store(s, b) /\ refresh' = RefreshOf(b, ChildHeight(s))
      BY <2>1, TipsAre
  <2>3. BlocksTyped'
      BY <2>2, StoreKeeps
  <2>4. refresh' \in Refreshes
      BY <2>2, TipsAre, HeightsAre
  <2>5. UNCHANGED <<hand, pack>>
      BY <1>5 DEF SideBlock
  <2>. QED
      BY <2>3, <2>4, <2>5 DEF PoolInv, Rest, BlocksTyped
<1>6. ASSUME Undrained PROVE Rest'
  <2>1. BlocksTyped'
    <3>1. CASE \E c \in Tips : \E b \in BlocksOn(c, NextHeight) : Adopt(c, b)
      <4>1. PICK c \in Tips : \E b \in BlocksOn(c, NextHeight) : Adopt(c, b)
          BY <3>1
      <4>2. PICK b \in SUBSET Tx : Adopt(c, b)
          BY <4>1, TipsAre
      <4>. QED
          BY <4>2, AdoptKeeps
    <3>2. CASE \E s \in Parents : \E b \in BlocksOn(s.txs, ChildHeight(s)) : Store(s, b)
      <4>1. PICK s \in Parents : \E b \in BlocksOn(s.txs, ChildHeight(s)) : Store(s, b)
          BY <3>2
      <4>2. PICK b \in SUBSET Tx : Store(s, b)
          BY <4>1, TipsAre
      <4>. QED
          BY <4>2, StoreKeeps
    <3>. QED
        BY <1>6, <3>1, <3>2 DEF Undrained
  <2>2. UNCHANGED <<hand, refresh, pack>>
      BY <1>6 DEF Undrained
  <2>. QED
      BY <2>1, <2>2 DEF PoolInv, Rest, BlocksTyped
<1>7. CASE CleanBids
  <2>1. refresh \in Refreshes
      BY <1>7 DEF CleanBids, PoolInv, Rest, Idle
  <2>2. refresh' \in Refreshes
      BY <1>7, <2>1 DEF CleanBids, Groups, Refreshes
  <2>3. UNCHANGED <<blocks, hand, pack>>
      BY <1>7 DEF CleanBids
  <2>. QED
      BY <2>2, <2>3 DEF PoolInv, Rest, blocks
<1>8. CASE Drain
  <2>1. refresh \in Refreshes
      BY <1>8 DEF Drain, PoolInv, Rest, Idle, Groups, NORMAL, DIAMINT
  <2>2. refresh' \in Refreshes
      BY <1>8, <2>1 DEF Drain, Groups, Refreshes
  <2>3. UNCHANGED <<blocks, hand, pack>>
      BY <1>8 DEF Drain
  <2>. QED
      BY <2>2, <2>3 DEF PoolInv, Rest, blocks
<1>9. CASE CleanNormal
    BY <1>9 DEF CleanNormal, PoolInv, Rest, blocks
<1>10. CASE PackScan
  <2>1. pack' \subseteq Tx
    <3>1. PICK n \in 0..Len(pool[NORMAL]), d \in 0..Len(pool[DIAMINT]) :
             LET met == Txs(SubSeq(pool[NORMAL], 1, n)) \cup
                        (IF (height + 1) % BidSpan = 0
                         THEN Txs(SubSeq(pool[DIAMINT], 1, d)) ELSE {})
             IN  \E more \in SUBSET met : pack' = more \cup {t \in met : ~Executable(t)}
        BY <1>10 DEF PackScan
    <3>2. PICK a, b : a = Txs(SubSeq(pool[NORMAL], 1, n)) /\ b = Txs(SubSeq(pool[DIAMINT], 1, d))
        OBVIOUS
    <3>3. pack' \subseteq a \cup b
        BY <3>1, <3>2
    <3>4. pool[NORMAL] \in Seq(Pkgs) /\ pool[DIAMINT] \in Seq(Pkgs)
        BY DEF PoolInv, Rest, Groups
    <3>5. a \subseteq Tx /\ b \subseteq Tx
        BY <3>2, <3>4, PrefixTxs
    <3>. QED
        BY <3>3, <3>5
  <2>2. UNCHANGED <<blocks, hand, refresh>>
      BY <1>10 DEF PackScan
  <2>. QED
      BY <2>1, <2>2 DEF PoolInv, Rest, blocks
<1>11. CASE PackDrain
    BY <1>11 DEF PackDrain, PoolInv, Rest, blocks
<1>12. CASE UNCHANGED vars
    BY <1>12 DEF vars, PoolInv, Rest
<1>. QED
    BY <1>1, <1>2, <1>3, <1>4, <1>5, <1>6, <1>7, <1>8, <1>9, <1>10, <1>11, <1>12 DEF Next, SyncBlock, ReplayBlock

LEMMA NextPoolInv == PoolInv /\ [Next]_vars => PoolInv'
<1> SUFFICES ASSUME PoolInv, [Next]_vars PROVE PoolInv'
    OBVIOUS
<1>1. PoolSteps(pool, pool')
    BY NextPoolSteps
<1>2. /\ pool' \in [Groups -> Seq(Pkgs)]
      /\ \A g \in Groups : Fits(g, pool'[g])
    BY <1>1, PoolKept
<1>3. Rest'
    BY NextRest
<1>. QED
    BY <1>2, <1>3 DEF PoolInv

\* Whatever handlers, blocks and the builder interleave to, each group is sound
\* and holds its own transactions, and each thread carries what its step reads.
THEOREM PoolInvariant == Spec => []PoolInv
<1>. QED
    BY InitPoolInv, NextPoolInv, PTL DEF Spec

\* The groups of the pool keep their size, their uniqueness and their kind.
THEOREM PoolIsTyped == Spec => []TypeOK
<1>1. PoolInv => TypeOK
  <2>. SUFFICES ASSUME PoolInv PROVE TypeOK
      OBVIOUS
  <2>1. ASSUME NEW g \in Groups
        PROVE  /\ Len(pool[g]) <= MaxSize[g]
               /\ Cardinality(Txs(pool[g])) = Len(pool[g])
               /\ \A t \in Txs(pool[g]) : Group(t) = g
    <3>1. PICK q : q = pool[g] /\ Fits(g, q)
        BY DEF PoolInv
    <3>2. q \in Seq(Package) /\ Distinct(q) /\ Len(q) <= MaxSize[g]
        BY <3>1 DEF Fits, Sound
    <3>3. Cardinality(Txs(q)) = Len(q)
        BY <3>2, TxsCount
    <3>. QED
        BY <3>1, <3>2, <3>3 DEF Fits
  <2>. QED
      BY <2>1 DEF PoolInv, Rest, TypeOK, Refreshes
<1>. QED
    BY <1>1, PoolInvariant, PTL

\* A group of the pool within the linear scan is best first in every state, so
\* its tail is what a full group compares a newcomer with.
THEOREM PoolStaysOrdered ==
    Spec => [](\A g \in Groups :
                  MaxSize[g] <= LinearScan =>
                     \A i, j \in 1..Len(pool[g]) :
                        i < j => pool[g][i].key >= pool[g][j].key)
<1> DEFINE Best == \A g \in Groups :
             MaxSize[g] <= LinearScan =>
                \A i, j \in 1..Len(pool[g]) :
                   i < j => pool[g][i].key >= pool[g][j].key
<1>1. PoolInv => Best
    BY DEF PoolInv, Fits, Sound, Sorted
<1>. QED
    BY <1>1, PoolInvariant, PTL

\* Whoever submits a transaction again, and however often, the key it is held
\* at does not drop while it stays in the pool.
THEOREM PoolKeysNeverDrop ==
    Spec => [][\A g \in Groups :
                  \A i \in DOMAIN pool[g], j \in DOMAIN pool'[g] :
                     pool[g][i].tx = pool'[g][j].tx =>
                        pool[g][i].key <= pool'[g][j].key]_vars
<1> DEFINE Step == \A g \in Groups :
             \A i \in DOMAIN pool[g], j \in DOMAIN pool'[g] :
                pool[g][i].tx = pool'[g][j].tx =>
                   pool[g][i].key <= pool'[g][j].key
<1>1. PoolInv /\ [Next]_vars => Step
  <2>. SUFFICES ASSUME PoolInv, [Next]_vars,
                       NEW g \in Groups,
                       NEW i \in DOMAIN pool[g], NEW j \in DOMAIN pool'[g],
                       pool[g][i].tx = pool'[g][j].tx
                PROVE  pool[g][i].key <= pool'[g][j].key
      OBVIOUS
  <2>1. Fits(g, pool[g]) /\ PoolStep(g, pool[g], pool'[g])
      BY NextPoolSteps DEF PoolInv, PoolSteps
  <2>2. /\ Sound(MaxSize[g], pool[g])
        /\ GroupStep(MaxSize[g], pool[g], pool'[g])
        /\ MaxSize[g] \in Nat \ {0}
      BY <2>1, PoolStepIs, PoolConstants DEF Fits
  <2>. QED
      BY <2>2, StepKeepsKeys
<1>. QED
    BY <1>1, PoolInvariant, PTL DEF Spec
-----------------------------------------------------------------------------
(* Confirmed transactions in the pool.                                     *)

\* A transaction that is confirmed and in the pool, with nothing left to drain
\* it, as it was before a step that brings nothing in and leaves the chain and
\* the refresh alone.
LEMMA StaleBefore ==
    ASSUME Shrinks(pool, pool'), chain' = chain, NEW t, Stale(t)',
           DrainDue(t) => DrainDue(t)'
    PROVE  Stale(t)
<1>1. t \in InPool
    BY DEF Shrinks, Stale, InPool, Groups
<1>. QED
    BY <1>1 DEF Stale

\* The step that drains a group leaves nothing of the block in it.
LEMMA DrainLeavesNoStale ==
    ASSUME PoolInv, Drain, NEW t \in Tx, Stale(t)'
    PROVE  Stale(t)
<1>1. PICK g \in Groups : g = refresh.step
    BY DEF Drain
<1>2. /\ refresh \in Refreshes
      /\ refresh # Idle
    BY DEF Drain, PoolInv, Rest, Idle, Groups, NORMAL, DIAMINT
<1>3. /\ refresh' = [refresh EXCEPT !.step = IF g = NORMAL THEN DIAMINT ELSE "clean"]
      /\ chain' = chain
    BY <1>1 DEF Drain, blocks
<1>4. /\ refresh'.txs = refresh.txs /\ refresh' # Idle
      /\ refresh'.step = IF g = NORMAL THEN DIAMINT ELSE "clean"
    BY <1>2, <1>3 DEF Idle, DIAMINT, Refreshes
<1>5. PoolSteps(pool, pool') /\ Shrinks(pool, pool') /\ Txs(pool'[g]) \cap refresh.txs = {}
    BY <1>1, DrainSteps
<1>6. \A f \in Groups : \A x \in Txs(pool'[f]) : Group(x) = f
    BY <1>5, PoolKept DEF Fits
<1>7. PICK f \in Groups : t \in Txs(pool'[f]) /\ Group(t) = f
    BY <1>6 DEF Stale, InPool, Groups
<1>8. CASE t \in refresh.txs
  <2>1. f # g
      BY <1>5, <1>7, <1>8
  <2>2. ~DrainDue(t)'
      BY DEF Stale
  <2>3. refresh'.step \notin {"bids", NORMAL, f}
      BY <1>4, <1>7, <1>8, <2>2 DEF DrainDue, Group
  <2>4. g = DIAMINT /\ f = NORMAL
      BY <1>4, <2>1, <2>3 DEF Groups
  <2>5. ~DrainDue(t)
      BY <1>1, <1>7, <2>4 DEF DrainDue, NORMAL, DIAMINT
  <2>. QED
      BY <1>3, <1>5, <2>5, StaleBefore
<1>9. CASE t \notin refresh.txs
  <2>1. ~DrainDue(t)
      BY <1>9 DEF DrainDue
  <2>. QED
      BY <1>3, <1>5, <2>1, StaleBefore
<1>. QED
    BY <1>8, <1>9

\* A confirmed transaction comes to stay in the pool only by an insertion that
\* was checked before its block, when its block is synchronised or replayed, or
\* when the branch that confirms it becomes the chain under a child of it.
THEOREM StaleNeedsARace == Spec => StaleOnlyByRace
<1> DEFINE Raced(t) == \/ \E h \in Handlers : InsertBy(h) /\ hand[h].pkg.tx = t
                       \/ SyncBlock
                       \/ ReplayBlock
                       \/ HeadBlock /\ \E s \in stored :
                             s.lag = 0 /\ t \in s.txs \ chain /\ s.txs \subseteq chain'
           Step == \A t \in Tx : Stale(t)' /\ ~Stale(t) => Raced(t)
<1>1. PoolInv /\ [Next]_vars => Step
  <2>. SUFFICES ASSUME PoolInv, [Next]_vars, NEW t \in Tx, Stale(t)', ~Raced(t)
                PROVE  Stale(t)
      OBVIOUS
  <2>1. PoolSteps(pool, pool')
      BY NextPoolSteps
  <2>2. ASSUME NEW h \in Handlers, InsertBy(h) PROVE Stale(t)
    <3>1. hand[h].pkg.tx # t
        BY <2>2
    <3>2. \A g \in Groups : Txs(pool'[g]) \subseteq Txs(pool[g]) \cup {hand[h].pkg.tx}
        BY <2>2, InsertBySteps
    <3>3. t \in InPool' /\ t \in chain' /\ ~DrainDue(t)'
        BY DEF Stale
    <3>4. t \in InPool
        BY <3>1, <3>2, <3>3 DEF InPool, Groups
    <3>5. chain' = chain /\ refresh' = refresh
        BY <2>2 DEF InsertBy, blocks
    <3>6. ~DrainDue(t)
        BY <3>3, <3>5 DEF DrainDue
    <3>. QED
        BY <3>3, <3>4, <3>5, <3>6 DEF Stale
  <2>3. ASSUME pool' = pool, chain' = chain, refresh' = refresh PROVE Stale(t)
      BY <2>3, SamePool, StaleBefore DEF DrainDue
  <2>4. CASE (\E h \in Handlers, p \in Pkgs : Receive(h, p)) \/ (\E h \in Handlers : TxSubmit(h))
             \/ PackScan \/ UNCHANGED vars
      BY <2>3, <2>4 DEF Receive, TxSubmit, PackScan, vars, blocks
  <2>5. CASE HeadBlock
    <3>1. PICK c \in Tips : \E b \in BlocksOn(c, NextHeight) :
                 Adopt(c, b) /\ refresh' = RefreshOf(b, NextHeight)
        BY <2>5 DEF HeadBlock
    <3>2. PICK b : Adopt(c, b) /\ refresh' = RefreshOf(b, NextHeight)
        BY <3>1
    <3>3. pool' = pool /\ refresh = Idle /\ chain' = c \cup b
        BY <2>5, <3>2 DEF HeadBlock, Adopt
    <3>4. refresh'.txs = b /\ refresh'.step = "bids" /\ refresh' # Idle
        BY <3>2 DEF RefreshOf, Idle
    <3>5. t \notin b
        BY <3>4 DEF Stale, DrainDue
    <3>6. t \in InPool /\ t \in c
        BY <3>3, <3>5 DEF Stale, InPool
    <3>7. t \in chain
      <4>. SUFFICES ASSUME t \notin chain PROVE FALSE
          OBVIOUS
      <4>1. PICK s \in stored : s.lag = 0 /\ c = s.txs
          BY <3>6 DEF Tips
      <4>2. t \in s.txs \ chain /\ s.txs \subseteq chain'
          BY <3>3, <3>6, <4>1
      <4>. QED
          BY <2>5, <4>1, <4>2
    <3>. QED
        BY <3>3, <3>6, <3>7 DEF Stale, DrainDue
  <2>6. CASE SideBlock
    <3>1. pool' = pool /\ chain' = chain /\ refresh = Idle
        BY <2>6 DEF SideBlock, Store
    <3>2. ~DrainDue(t)
        BY <3>1 DEF DrainDue
    <3>. QED
        BY <3>1, <3>2, SamePool, StaleBefore
  <2>7. CASE CleanBids
    <3>1. Shrinks(pool, pool') /\ chain' = chain
        BY <2>7, CleanBidsSteps DEF CleanBids, blocks
    <3>2. refresh \in Refreshes
        BY <2>7 DEF CleanBids, PoolInv, Rest, Idle
    <3>3. refresh'.txs = refresh.txs /\ refresh'.step = NORMAL
        BY <2>7, <3>2 DEF CleanBids, Refreshes
    <3>4. refresh' # Idle
        BY <3>3 DEF Idle, NORMAL
    <3>5. DrainDue(t) => DrainDue(t)'
        BY <3>3, <3>4 DEF DrainDue
    <3>. QED
        BY <3>1, <3>5, StaleBefore
  <2>8. CASE Drain
      BY <2>8, DrainLeavesNoStale
  <2>9. CASE CleanNormal
    <3>1. Shrinks(pool, pool') /\ chain' = chain /\ refresh.step = "clean"
        BY <2>9, CleanNormalSteps DEF CleanNormal, blocks
    <3>2. ~DrainDue(t)
        BY <3>1 DEF DrainDue, Group, NORMAL, DIAMINT
    <3>. QED
        BY <3>1, <3>2, StaleBefore
  <2>10. CASE PackDrain
    <3>1. Shrinks(pool, pool') /\ chain' = chain /\ refresh' = refresh
        BY <2>10, PackDrainSteps DEF PackDrain, blocks
    <3>2. DrainDue(t) => DrainDue(t)'
        BY <3>1 DEF DrainDue
    <3>. QED
        BY <3>1, <3>2, StaleBefore
  <2>. QED
      BY <2>2, <2>4, <2>5, <2>6, <2>7, <2>8, <2>9, <2>10 DEF Next
<1>. QED
    BY <1>1, PoolInvariant, PTL DEF Spec, StaleOnlyByRace
=============================================================================
