----------------------------- MODULE PplnsProofs -----------------------------
(***************************************************************************)
(* The accounting of the pool, for every number of workers, window,        *)
(* horizon, pot and clock: the ledger keeps its shape, a plan spends its   *)
(* pot and shorts nobody, every unit that is split is paid or owed once,   *)
(* a burst of shares erases no credit and a restart keeps what the file    *)
(* has.                                                                    *)
(***************************************************************************)
EXTENDS Pplns, DataLemmas

Entry  == [w : Workers, at : Nat]
Rows   == UNION {[S -> Nat] : S \in SUBSET Workers}
Bucket == [bucket : Nat, rows : Rows]
-----------------------------------------------------------------------------
(* Times.                                                                  *)

LEMMA MonusType ==
    ASSUME NEW a \in Nat, NEW b \in Nat
    PROVE  Monus(a, b) \in Nat /\ Monus(a, b) <= a
BY DEF Monus

\* Integer division rounds down.
LEMMA DivBelow ==
    ASSUME NEW t \in Nat, NEW m \in Nat \ {0}
    PROVE  t \div m \in Nat /\ (t \div m) * m <= t /\ t < (t \div m) * m + m
BY SMTT(30)

LEMMA MaxOfTwo ==
    ASSUME NEW a \in Nat, NEW b \in Nat
    PROVE  Max({a, b}) = IF a >= b THEN a ELSE b
<1>1. \A x \in {a, b} : (\A y \in {a, b} : x >= y) => x = IF a >= b THEN a ELSE b
    OBVIOUS
<1>2. PICK x \in {a, b} : \A y \in {a, b} : x >= y
    OBVIOUS
<1>. QED
    BY <1>1, <1>2 DEF Max

LEMMA MinOfTwo ==
    ASSUME NEW a \in Nat, NEW b \in Nat
    PROVE  Min({a, b}) = IF a <= b THEN a ELSE b
<1>1. \A x \in {a, b} : (\A y \in {a, b} : x <= y) => x = IF a <= b THEN a ELSE b
    OBVIOUS
<1>2. PICK x \in {a, b} : \A y \in {a, b} : x <= y
    OBVIOUS
<1>. QED
    BY <1>1, <1>2 DEF Min

LEMMA BucketMsType ==
    ASSUME NEW h \in Nat
    PROVE  BucketMs(h) \in Nat \ {0}
<1>1. h \div BankBuckets \in Nat
    BY PplnsAssumption, DivBelow
<1>2. BucketMs(h) = IF 1 >= h \div BankBuckets THEN 1 ELSE h \div BankBuckets
    BY <1>1, MaxOfTwo DEF BucketMs
<1>. QED
    BY <1>1, <1>2

LEMMA EarnedType ==
    ASSUME NEW at \in Nat, NEW t \in Nat, NEW h \in Nat
    PROVE  Earned(at, t, h) \in Nat
<1>1. Monus(t, at) \in Nat
    BY MonusType
<1>. QED
    BY <1>1, MinOfTwo DEF Earned
-----------------------------------------------------------------------------
(* The bank.                                                               *)

\* Buckets in order, and none of a time that has not been.
Ordered(bs) == \A i, j \in 1..Len(bs) : i < j => bs[i].bucket < bs[j].bucket
Past(bs, h, T) == \A i \in 1..Len(bs) : bs[i].bucket * BucketMs(h) <= T
Bank(bs, h, T) == bs \in Seq(Bucket) /\ Ordered(bs) /\ Past(bs, h, T)

LEMMA BucketOf ==
    ASSUME NEW bs \in Seq(Bucket)
    PROVE  /\ Len(bs) \in Nat /\ DOMAIN bs = 1..Len(bs)
           /\ \A i \in 1..Len(bs) : /\ bs[i] \in Bucket /\ bs[i].bucket \in Nat
                                    /\ bs[i].rows \in Rows
           /\ bs = <<>> <=> Len(bs) = 0
<1>1. Len(bs) \in Nat /\ DOMAIN bs = 1..Len(bs)
    BY LenProperties
<1>2. \A i \in 1..Len(bs) : bs[i] \in Bucket
    BY ElementOfSeq
<1>3. bs = <<>> <=> Len(bs) = 0
    BY EmptySeq
<1>. QED
    BY <1>1, <1>2, <1>3 DEF Bucket

LEMMA NoRows == <<>> \in Rows /\ DOMAIN <<>> = {}
<1>1. <<>> \in [{} -> Nat]
    OBVIOUS
<1>. QED
    BY <1>1 DEF Rows

LEMMA AddRowsType ==
    ASSUME NEW rows \in Rows, NEW more \in Rows
    PROVE  AddRows(rows, more) \in Rows
<1>1. PICK S \in SUBSET Workers : rows \in [S -> Nat]
    BY DEF Rows
<1>2. PICK U \in SUBSET Workers : more \in [U -> Nat]
    BY DEF Rows
<1>3. AddRows(rows, more) \in [S \cup U -> Nat]
    BY <1>1, <1>2 DEF AddRows
<1>. QED
    BY <1>3 DEF Rows

LEMMA AddRowType ==
    ASSUME NEW rows \in Rows, NEW w \in Workers, NEW ms \in Nat
    PROVE  AddRow(rows, w, ms) \in Rows
<1>1. [v \in {w} |-> ms] \in Rows
  <2>1. {w} \in SUBSET Workers /\ [v \in {w} |-> ms] \in [{w} -> Nat]
      OBVIOUS
  <2>. QED
      BY <2>1 DEF Rows
<1>2. AddRows(rows, [v \in {w} |-> ms]) \in Rows
    BY <1>1, AddRowsType
<1>. QED
    BY <1>2 DEF AddRow

LEMMA EmptyBank ==
    ASSUME NEW h, NEW T, NEW bs, bs = <<>>
    PROVE  Bank(bs, h, T)
<1>1. bs \in Seq(Bucket) /\ Len(bs) = 0
    BY EmptySeq
<1>. QED
    BY <1>1 DEF Bank, Ordered, Past

\* A row can be added to the newest bucket without disturbing the order.
LEMMA LastRowsKept ==
    ASSUME NEW bs \in Seq(Bucket), bs # <<>>, NEW h, NEW T, Bank(bs, h, T),
           NEW rows \in Rows
    PROVE  /\ Bank([bs EXCEPT ![Len(bs)].rows = rows], h, T)
           /\ Len([bs EXCEPT ![Len(bs)].rows = rows]) = Len(bs)
           /\ \A i \in 1..Len(bs) : [bs EXCEPT ![Len(bs)].rows = rows][i] =
                 IF i = Len(bs) THEN [bucket |-> bs[i].bucket, rows |-> rows] ELSE bs[i]
<1>1. PICK n \in Nat : /\ n = Len(bs) /\ n # 0 /\ DOMAIN bs = 1..n
                       /\ \A i \in 1..n : /\ bs[i] \in Bucket /\ bs[i].bucket \in Nat
                                          /\ bs[i].rows \in Rows
    BY BucketOf
<1>2. PICK e : e = [bs[n] EXCEPT !.rows = rows]
    OBVIOUS
<1>3. e = [bucket |-> bs[n].bucket, rows |-> rows] /\ e \in Bucket
    BY <1>1, <1>2 DEF Bucket
<1>4. PICK cs : cs = [bs EXCEPT ![n] = e]
    OBVIOUS
<1>5. cs = [bs EXCEPT ![Len(bs)].rows = rows]
    BY <1>1, <1>2, <1>4
<1>6. cs \in Seq(Bucket) /\ Len(cs) = n /\ \A i \in 1..n : cs[i] = IF i = n THEN e ELSE bs[i]
  <2>1. n \in 1..Len(bs)
      BY <1>1
  <2>2. cs \in Seq(Bucket) /\ Len(cs) = Len(bs) /\ \A i \in 1..Len(bs) : cs[i] = IF i = n THEN e ELSE bs[i]
      BY <1>3, <1>4, <2>1, ExceptSeq
  <2>. QED
      BY <1>1, <2>2
<1>7. \A i \in 1..n : cs[i].bucket = bs[i].bucket
    BY <1>3, <1>6
<1>8. Bank(cs, h, T)
    BY <1>1, <1>6, <1>7 DEF Bank, Ordered, Past
<1>. QED
    BY <1>1, <1>3, <1>5, <1>6, <1>8

\* A later bucket at the end.
LEMMA BankAppend ==
    ASSUME NEW bs \in Seq(Bucket), NEW h, NEW T, Bank(bs, h, T), NEW b \in Bucket,
           bs = <<>> \/ b.bucket > Last(bs).bucket, b.bucket * BucketMs(h) <= T
    PROVE  Bank(Append(bs, b), h, T)
<1>1. PICK n \in Nat : /\ n = Len(bs) /\ (bs = <<>> <=> n = 0)
                       /\ \A i \in 1..n : bs[i] \in Bucket /\ bs[i].bucket \in Nat
    BY BucketOf
<1>2. PICK cs : cs = Append(bs, b)
    OBVIOUS
<1>3. /\ cs \in Seq(Bucket) /\ Len(cs) = n + 1 /\ cs[n + 1] = b
      /\ \A i \in 1..n : cs[i] = bs[i]
    BY <1>1, <1>2, AppendProperties
<1>4. b.bucket \in Nat
    BY DEF Bucket
<1>5. \A i \in 1..n : bs[i].bucket < b.bucket
  <2> SUFFICES ASSUME NEW i \in 1..n PROVE bs[i].bucket < b.bucket
      OBVIOUS
  <2>1. n \in 1..n /\ bs[n].bucket < b.bucket
      BY <1>1, <1>4 DEF Last
  <2>2. i = n \/ bs[i].bucket < bs[n].bucket
      BY <1>1, <2>1 DEF Bank, Ordered
  <2>. QED
      BY <1>1, <1>4, <2>1, <2>2
<1>6. \A i \in 1..(n + 1) : i \in 1..n \/ i = n + 1
    BY <1>1
<1>7. Ordered(cs)
  <2> SUFFICES ASSUME NEW i \in 1..(n + 1), NEW j \in 1..(n + 1), i < j
               PROVE  cs[i].bucket < cs[j].bucket
      BY <1>3 DEF Ordered
  <2>1. i \in 1..n
      BY <1>1
  <2>2. CASE j \in 1..n
      BY <1>1, <1>3, <2>1, <2>2 DEF Bank, Ordered
  <2>3. CASE j = n + 1
      BY <1>3, <1>5, <2>1, <2>3
  <2>. QED
      BY <1>6, <2>2, <2>3
<1>8. Past(cs, h, T)
  <2> SUFFICES ASSUME NEW i \in 1..(n + 1) PROVE cs[i].bucket * BucketMs(h) <= T
      BY <1>3 DEF Past
  <2>. QED
      BY <1>1, <1>3, <1>6 DEF Bank, Past
<1>. QED
    BY <1>2, <1>3, <1>7, <1>8 DEF Bank

\* Pplns::bank keeps the buckets in order, also while the clock is set back.
LEMMA BankIsBank ==
    ASSUME NEW L, NEW T \in Nat, NEW w \in Workers, NEW ms \in Nat, NEW t \in Nat,
           t <= T, L.horizon \in Nat, Bank(L.banked, L.horizon, T)
    PROVE  Bank(bank(L, w, ms, t), L.horizon, T)
<1>1. CASE ms = 0
    BY <1>1 DEF bank
<1>2. CASE ms # 0
  <2>1. PICK b : b = t \div BucketMs(L.horizon)
      OBVIOUS
  <2>2. BucketMs(L.horizon) \in Nat \ {0}
      BY BucketMsType
  <2>3. b \in Nat /\ b * BucketMs(L.horizon) <= T
    <3>1. b \in Nat /\ b * BucketMs(L.horizon) <= t
        BY <2>1, <2>2, DivBelow
    <3>2. PICK c \in Nat : c = b * BucketMs(L.horizon)
        BY <2>2, <3>1
    <3>. QED
        BY <3>1, <3>2
  <2>4. PICK bs : bs = IF Opens(L.banked, b)
                       THEN Append(L.banked, [bucket |-> b, rows |-> <<>>]) ELSE L.banked
      OBVIOUS
  <2>5. L.banked \in Seq(Bucket)
      BY DEF Bank
  <2>6. Bank(bs, L.horizon, T) /\ bs # <<>>
    <3>1. CASE Opens(L.banked, b)
      <4>1. PICK new : new = [bucket |-> b, rows |-> <<>>]
          OBVIOUS
      <4>2. new \in Bucket /\ new.bucket = b
          BY <2>3, <4>1, NoRows DEF Bucket
      <4>3. Bank(Append(L.banked, new), L.horizon, T)
          BY <2>3, <2>5, <3>1, <4>2, BankAppend DEF Opens
      <4>4. /\ Append(L.banked, new) \in Seq(Bucket)
            /\ Len(Append(L.banked, new)) = Len(L.banked) + 1 /\ Len(L.banked) \in Nat
          BY <2>5, <4>2, AppendProperties, LenProperties
      <4>5. Append(L.banked, new) # <<>>
          BY <4>4, BucketOf
      <4>. QED
          BY <2>4, <3>1, <4>1, <4>3, <4>5
    <3>2. CASE ~Opens(L.banked, b)
        BY <2>4, <3>2 DEF Opens
    <3>. QED
        BY <3>1, <3>2
  <2>7. bs \in Seq(Bucket)
      BY <2>6 DEF Bank
  <2>8. PICK rows : rows = AddRow(bs[Len(bs)].rows, w, ms)
      OBVIOUS
  <2>9. rows \in Rows
    <3>1. bs[Len(bs)].rows \in Rows
        BY <2>6, <2>7, BucketOf
    <3>. QED
        BY <2>8, <3>1, AddRowType
  <2>10. bank(L, w, ms, t) = [bs EXCEPT ![Len(bs)].rows = rows]
      BY <1>2, <2>1, <2>4, <2>8 DEF bank
  <2>11. PICK h : h = L.horizon
      OBVIOUS
  <2>12. Bank(bs, h, T)
      BY <2>6, <2>11
  <2>13. Bank([bs EXCEPT ![Len(bs)].rows = rows], h, T)
      BY <2>6, <2>7, <2>9, <2>12, LastRowsKept
  <2>. QED
      BY <2>10, <2>11, <2>13
<1>. QED
    BY <1>1, <1>2

\* What is left when the front of the bank expires.
LEMMA ExpireIsBank ==
    ASSUME NEW bs, NEW h, NEW T, Bank(bs, h, T), NEW t
    PROVE  Bank(expire_banked(bs, t, h), h, T)
<1>1. PICK n \in Nat : /\ n = Len(bs) /\ DOMAIN bs = 1..n
                       /\ \A i \in 1..n : bs[i] \in Bucket /\ bs[i].bucket \in Nat
    BY BucketOf DEF Bank
<1>2. PICK alive : alive = {i \in 1..n : Fresh(bs[i], t, h)}
    OBVIOUS
<1>3. CASE alive = {}
  <2>1. expire_banked(bs, t, h) = <<>>
      BY <1>1, <1>2, <1>3 DEF expire_banked
  <2>. QED
      BY <2>1, EmptyBank
<1>4. CASE alive # {}
  <2>1. PICK m \in alive : \A y \in alive : m <= y
      BY <1>2, <1>4, LeastNumber
  <2>2. m \in 1..n /\ \A x \in alive : (\A y \in alive : x <= y) => x = m
      BY <1>2, <2>1
  <2>3. Min(alive) = m
      BY <2>1, <2>2 DEF Min
  <2>4. PICK cs : cs = SubSeq(bs, m, n)
      OBVIOUS
  <2>5. cs \in Seq(Bucket) /\ Len(cs) = n - m + 1 /\ \A i \in 1..(n - m + 1) : cs[i] = bs[m + i - 1]
    <3>1. \A i \in m..n : bs[i] \in Bucket
        BY <1>1, <2>2
    <3>2. /\ SubSeq(bs, m, n) \in Seq(Bucket)
          /\ Len(SubSeq(bs, m, n)) = IF m <= n THEN n - m + 1 ELSE 0
          /\ \A i \in 1..(n - m + 1) : SubSeq(bs, m, n)[i] = bs[m + i - 1]
        BY <1>1, <2>2, <3>1, SubSeqProperties
    <3>. QED
        BY <1>1, <2>2, <2>4, <3>2
  <2>6. \A i \in 1..(n - m + 1) : m + i - 1 \in 1..n
      BY <1>1, <2>2
  <2>7. Ordered(cs)
    <3> SUFFICES ASSUME NEW i \in 1..(n - m + 1), NEW j \in 1..(n - m + 1), i < j
                 PROVE  cs[i].bucket < cs[j].bucket
        BY <2>5 DEF Ordered
    <3>1. m + i - 1 < m + j - 1
        BY <1>1, <2>2
    <3>. QED
        BY <1>1, <2>5, <2>6, <3>1 DEF Bank, Ordered
  <2>8. Past(cs, h, T)
    <3> SUFFICES ASSUME NEW i \in 1..(n - m + 1) PROVE cs[i].bucket * BucketMs(h) <= T
        BY <2>5 DEF Past
    <3>. QED
        BY <1>1, <2>5, <2>6 DEF Bank, Past
  <2>9. expire_banked(bs, t, h) = cs
      BY <1>1, <1>2, <1>4, <2>3, <2>4 DEF expire_banked
  <2>. QED
      BY <2>5, <2>7, <2>8, <2>9 DEF Bank
<1>. QED
    BY <1>3, <1>4

\* A stored bucket comes after the last or is folded into it.
\* What restore reads of a bucket.
LEMMA FirstRowsType ==
    ASSUME NEW rows \in Rows
    PROVE  FirstRows(rows) \in Rows
<1>1. PICK S \in SUBSET Workers : rows \in [S -> Nat]
    BY DEF Rows
<1>2. PICK R : R = {x \in DOMAIN rows : Cardinality({v \in DOMAIN rows : v < x}) < BankWorkersMax}
    OBVIOUS
<1>3. R \in SUBSET S /\ FirstRows(rows) = [w \in R |-> rows[w]]
    BY <1>1, <1>2 DEF FirstRows
<1>4. [w \in R |-> rows[w]] \in [R -> Nat]
    BY <1>1, <1>3
<1>. QED
    BY <1>3, <1>4 DEF Rows

\* A bucket that is not over the bound is read whole.
LEMMA FirstRowsAll ==
    ASSUME NEW rows \in Rows, Cardinality(DOMAIN rows) <= BankWorkersMax
    PROVE  FirstRows(rows) = rows
<1>1. PICK S \in SUBSET Workers : rows \in [S -> Nat]
    BY DEF Rows
<1>2. IsFiniteSet(S) /\ DOMAIN rows = S
    BY <1>1, FS_Subset, PplnsAssumption
<1>3. ASSUME NEW x \in S PROVE Cardinality({v \in S : v < x}) < BankWorkersMax
  <2>1. PICK B : B = {v \in S : v < x}
      OBVIOUS
  <2>2. x \in Nat
      BY PplnsAssumption
  <2>3. B \in SUBSET (S \ {x})
      BY <2>1, <2>2
  <2>4. IsFiniteSet(S \ {x}) /\ Cardinality(S \ {x}) = Cardinality(S) - 1
      BY <1>2, FS_RemoveElement
  <2>5. Cardinality(B) <= Cardinality(S \ {x}) /\ IsFiniteSet(B)
      BY <2>3, <2>4, FS_Subset
  <2>6. Cardinality(B) \in Nat /\ Cardinality(S) \in Nat /\ BankWorkersMax \in Nat
      BY <1>2, <2>5, FS_CardinalityType, PplnsAssumption
  <2>7. Cardinality(S) <= BankWorkersMax
      BY <1>2
  <2>. QED
      BY <2>1, <2>4, <2>5, <2>6, <2>7
<1>4. {x \in DOMAIN rows : Cardinality({v \in DOMAIN rows : v < x}) < BankWorkersMax} = S
    BY <1>2, <1>3
<1>5. FirstRows(rows) = [w \in S |-> rows[w]]
    BY <1>4 DEF FirstRows
<1>. QED
    BY <1>1, <1>5

LEMMA RefilledIsBank ==
    ASSUME NEW h \in Nat, NEW T \in Nat, NEW bs, Bank(bs, h, T),
           NEW s, s.at \in Nat, s.at <= T, s.rows \in Rows
    PROVE  Bank(Refilled(h, bs, s), h, T)
<1>1. PICK b : b = s.at \div BucketMs(h)
    OBVIOUS
<1>2. BucketMs(h) \in Nat \ {0}
    BY BucketMsType
<1>3. b \in Nat /\ b * BucketMs(h) <= T
  <2>1. b \in Nat /\ b * BucketMs(h) <= s.at
      BY <1>1, <1>2, DivBelow
  <2>2. PICK c \in Nat : c = b * BucketMs(h)
      BY <1>2, <2>1
  <2>. QED
      BY <2>1, <2>2
<1>4. bs \in Seq(Bucket)
    BY DEF Bank
<1>5. PICK more \in Rows : more = FirstRows(s.rows)
    BY FirstRowsType
<1>6. CASE bs # <<>> /\ b <= Last(bs).bucket
  <2>1. PICK rows : rows = AddRows(bs[Len(bs)].rows, more)
      OBVIOUS
  <2>2. rows \in Rows
    <3>1. bs[Len(bs)].rows \in Rows
        BY <1>4, <1>6, BucketOf
    <3>. QED
        BY <1>5, <2>1, <3>1, AddRowsType
  <2>3. Refilled(h, bs, s) = [bs EXCEPT ![Len(bs)].rows = rows]
      BY <1>1, <1>6, <1>5, <2>1 DEF Refilled
  <2>4. Bank([bs EXCEPT ![Len(bs)].rows = rows], h, T)
      BY <1>4, <1>6, <2>2, LastRowsKept
  <2>. QED
      BY <2>3, <2>4
<1>7. CASE ~(bs # <<>> /\ b <= Last(bs).bucket)
  <2>1. PICK e : e = [bucket |-> b, rows |-> more]
      OBVIOUS
  <2>2. e \in Bucket /\ e.bucket = b
      BY <1>3, <1>5, <2>1 DEF Bucket
  <2>3. Refilled(h, bs, s) = Append(bs, e)
      BY <1>1, <1>7, <1>5, <2>1 DEF Refilled
  <2>4. bs = <<>> \/ e.bucket > Last(bs).bucket
    <3>1. bs # <<>> => Last(bs).bucket \in Nat
        BY <1>4, BucketOf DEF Last
    <3>. QED
        BY <1>3, <1>7, <2>2, <3>1
  <2>. QED
      BY <1>3, <1>4, <2>2, <2>3, <2>4, BankAppend
<1>. QED
    BY <1>6, <1>7

\* What banked_snapshot stores of a bank.
Stored(ss, T) ==
    \A i \in 1..Len(ss) : ss[i].at \in Nat /\ ss[i].at <= T /\ ss[i].rows \in Rows

\* Refill is the last value of the recursion its definition describes.
LEMMA RefillUnfold ==
    ASSUME NEW h \in Nat, NEW ss, Len(ss) \in Nat, NEW T \in Nat, Stored(ss, T)
    PROVE  \E f : /\ f[0] = <<>>
                  /\ \A n \in 1..Len(ss) : f[n] = Refilled(h, f[n - 1], ss[n])
                  /\ Refill(h, ss) = f[Len(ss)]
<1> DEFINE N == Len(ss)
           D == {bs \in Seq(Bucket) : Bank(bs, h, T)}
           Step(n, bs) == Refilled(h, bs, ss[n])
           Eq(f) == f = [n \in 0..N |-> IF n = 0 THEN <<>> ELSE Step(n, f[n - 1])]
<1>1. N \in Nat
    OBVIOUS
<1>2. \A n \in 1..N : \A bs \in D : Step(n, bs) \in D
  <2> TAKE n \in 1..N
  <2> TAKE bs \in D
  <2>1. Bank(Refilled(h, bs, ss[n]), h, T)
      BY RefilledIsBank DEF Stored
  <2>. QED
      BY <2>1 DEF Bank
<1>3. PICK step \in [1..N -> [D -> D]] : \A n \in 1..N : \A bs \in D : step[n][bs] = Step(n, bs)
  <2> HIDE DEF Step, D, N
  <2>1. [n \in 1..N |-> [bs \in D |-> Step(n, bs)]] \in [1..N -> [D -> D]]
      BY <1>2
  <2>. QED
      BY <2>1
<1>4. PICK a \in D : a = <<>>
  <2>1. Bank(<<>>, h, T)
      BY EmptyBank
  <2>. QED
      BY <2>1 DEF Bank
<1>5. PICK g \in [0..N -> D] : Solves(g, N, a, step)
  <2> HIDE DEF Step, D, N
  <2>. QED
      BY <1>1, Recursion
<1>6. g[0] = <<>> /\ \A n \in 1..N : g[n] = Step(n, g[n - 1])
  <2> HIDE DEF Step, D, N
  <2>1. ASSUME NEW n \in 1..N PROVE g[n] = Step(n, g[n - 1])
    <3>1. n - 1 \in 0..N
        BY <1>1
    <3>2. g[n] = step[n][g[n - 1]] /\ g[n - 1] \in D
        BY <1>5, <3>1 DEF Solves
    <3>. QED
        BY <1>3, <3>2
  <2>. QED
      BY <1>4, <1>5, <2>1 DEF Solves
<1>7. Eq(g)
  <2> HIDE DEF Step, D, N
  <2>. QED
      BY <1>1, <1>6
<1> DEFINE c == CHOOSE f : Eq(f)
<1>8. Eq(c)
  <2> HIDE DEF Eq
  <2>. QED
      BY <1>7
<1>9. c[0] = <<>> /\ \A n \in 1..N : c[n] = Step(n, c[n - 1])
  <2> HIDE DEF Step, c, N
  <2>1. \A n \in 0..N : c[n] = IF n = 0 THEN <<>> ELSE Step(n, c[n - 1])
      BY <1>8
  <2>2. 0 \in 0..N /\ \A n \in 1..N : n \in 0..N /\ n # 0
      BY <1>1
  <2>. QED
      BY ONLY <2>1, <2>2
<1>10. Refill(h, ss) = c[N]
    BY DEF Refill
<1>11. PICK r : /\ r[0] = <<>>
                /\ \A n \in 1..N : r[n] = Step(n, r[n - 1])
                /\ Refill(h, ss) = r[N]
  <2> HIDE DEF c, Step, N
  <2>. QED
      BY <1>9, <1>10
<1>. QED
    BY <1>11

LEMMA RefillIsBank ==
    ASSUME NEW h \in Nat, NEW ss, Len(ss) \in Nat, NEW T \in Nat, Stored(ss, T)
    PROVE  Bank(Refill(h, ss), h, T)
<1>1. PICK N \in Nat : N = Len(ss)
    OBVIOUS
<1>2. PICK f : /\ f[0] = <<>>
               /\ \A n \in 1..N : f[n] = Refilled(h, f[n - 1], ss[n])
               /\ Refill(h, ss) = f[N]
    BY <1>1, RefillUnfold, ZenonT(60)
<1> DEFINE P == {n \in Nat : n <= N => Bank(f[n], h, T)}
<1>3. 0 \in P
  <2>1. Bank(f[0], h, T)
      BY <1>2, EmptyBank
  <2>. QED
      BY <2>1
<1>4. ASSUME NEW n \in P PROVE n + 1 \in P
  <2> SUFFICES ASSUME n + 1 <= N PROVE Bank(f[n + 1], h, T)
      OBVIOUS
  <2>1. Bank(f[n], h, T) /\ n + 1 \in 1..N /\ (n + 1) - 1 = n
      BY <1>1
  <2>2. PICK bs, s : bs = f[n] /\ s = ss[n + 1]
      OBVIOUS
  <2>3. s.at \in Nat /\ s.at <= T /\ s.rows \in Rows
      BY <1>1, <2>1, <2>2 DEF Stored
  <2>4. f[n + 1] = Refilled(h, bs, s)
      BY <1>2, <2>1, <2>2
  <2>. QED
      BY <2>1, <2>2, <2>3, <2>4, RefilledIsBank
<1>5. P = Nat
  <2>. HIDE DEF P
  <2>1. P \subseteq Nat
      BY DEF P
  <2>. QED
      BY <1>3, <1>4, <2>1, NatSetInduction
<1>6. N \in P => Bank(f[N], h, T)
    OBVIOUS
<1>. QED
  <2>. HIDE DEF P
  <2>. QED
      BY <1>2, <1>5, <1>6
-----------------------------------------------------------------------------
(* The window and the ledger.                                              *)

Headcount(order, w) == Cardinality({i \in 1..Len(order) : order[i].w = w})

LEMMA EntryOf ==
    ASSUME NEW order \in Seq(Entry)
    PROVE  /\ Len(order) \in Nat /\ DOMAIN order = 1..Len(order)
           /\ \A i \in 1..Len(order) : /\ order[i] \in Entry
                                       /\ order[i].w \in Workers /\ order[i].at \in Nat
           /\ \A w : /\ IsFiniteSet({i \in 1..Len(order) : order[i].w = w})
                     /\ Headcount(order, w) \in Nat
<1>1. Len(order) \in Nat /\ DOMAIN order = 1..Len(order)
    BY LenProperties
<1>2. \A i \in 1..Len(order) : order[i] \in Entry
    BY ElementOfSeq
<1>3. ASSUME NEW w
      PROVE  /\ IsFiniteSet({i \in 1..Len(order) : order[i].w = w})
             /\ Headcount(order, w) \in Nat
  <2>1. IsFiniteSet(1..Len(order))
      BY <1>1, FS_Interval
  <2>2. IsFiniteSet({i \in 1..Len(order) : order[i].w = w})
      BY <2>1, FS_Subset
  <2>. QED
      BY <2>2, FS_CardinalityType DEF Headcount
<1>. QED
    BY <1>1, <1>2, <1>3 DEF Entry

LEMMA HeadcountAppend ==
    ASSUME NEW order \in Seq(Entry), NEW e \in Entry, NEW w
    PROVE  Headcount(Append(order, e), w) = Headcount(order, w) + (IF e.w = w THEN 1 ELSE 0)
<1>1. PICK n \in Nat : n = Len(order)
    BY EntryOf
<1>2. PICK o : o = Append(order, e)
    OBVIOUS
<1>3. o \in Seq(Entry) /\ Len(o) = n + 1 /\ o[n + 1] = e /\ \A i \in 1..n : o[i] = order[i]
    BY <1>1, <1>2, AppendProperties
<1>4. PICK A : A = {i \in 1..n : order[i].w = w}
    OBVIOUS
<1>5. IsFiniteSet(A) /\ Cardinality(A) = Headcount(order, w) /\ Headcount(order, w) \in Nat
    BY <1>1, <1>4, EntryOf DEF Headcount
<1>6. \A i \in 1..(n + 1) : i \in 1..n \/ i = n + 1
    BY <1>1
<1>7. n + 1 \notin A /\ n + 1 \in 1..(n + 1) /\ \A i \in 1..n : i \in 1..(n + 1)
    BY <1>1, <1>4
<1>8. {i \in 1..(n + 1) : o[i].w = w} = IF e.w = w THEN A \cup {n + 1} ELSE A
    BY <1>3, <1>4, <1>6, <1>7
<1>9. Headcount(o, w) = Cardinality(IF e.w = w THEN A \cup {n + 1} ELSE A)
    BY <1>3, <1>8 DEF Headcount
<1>10. Cardinality(A \cup {n + 1}) = Cardinality(A) + 1
    BY <1>5, <1>7, FS_AddElement
<1>. QED
    BY <1>2, <1>5, <1>9, <1>10

LEMMA HeadcountTail ==
    ASSUME NEW order \in Seq(Entry), order # <<>>, NEW w
    PROVE  /\ Tail(order) \in Seq(Entry)
           /\ Len(Tail(order)) = Len(order) - 1
           /\ \A i \in 1..(Len(order) - 1) : Tail(order)[i] = order[i + 1]
           /\ Headcount(Tail(order), w) = Headcount(order, w) - (IF order[1].w = w THEN 1 ELSE 0)
<1>1. PICK n \in Nat : n = Len(order) /\ n # 0
    BY EntryOf, EmptySeq
<1>2. PICK o : o = Tail(order)
    OBVIOUS
<1>3. o \in Seq(Entry) /\ Len(o) = n - 1 /\ \A i \in 1..(n - 1) : o[i] = order[i + 1]
    BY <1>1, <1>2, HeadTailProperties
<1>4. PICK A : A = {i \in 1..n : order[i].w = w}
    OBVIOUS
<1>5. PICK B : B = {i \in 1..(n - 1) : o[i].w = w}
    OBVIOUS
<1>6. /\ IsFiniteSet(A) /\ Cardinality(A) = Headcount(order, w) /\ Headcount(order, w) \in Nat
      /\ IsFiniteSet(B) /\ Cardinality(B) = Headcount(o, w)
    BY <1>1, <1>3, <1>4, <1>5, EntryOf DEF Headcount
<1>7. PICK f : f = [i \in B |-> i + 1]
    OBVIOUS
<1>8. f \in Bijection(B, A \ {1})
  <2>1. f \in [B -> A \ {1}]
    <3> SUFFICES ASSUME NEW i \in B PROVE i + 1 \in A \ {1}
        BY <1>7
    <3>1. i \in 1..(n - 1) /\ i + 1 \in 1..n /\ i + 1 # 1 /\ order[i + 1].w = w
        BY <1>1, <1>3, <1>5
    <3>. QED
        BY <1>4, <3>1
  <2>2. \A i, j \in B : f[i] = f[j] => i = j
      BY <1>5, <1>7
  <2>3. ASSUME NEW k \in A \ {1} PROVE \E i \in B : f[i] = k
    <3>1. k \in 1..n /\ k # 1 /\ order[k].w = w
        BY <1>4, <2>3
    <3>2. k - 1 \in 1..(n - 1) /\ (k - 1) + 1 = k
        BY <1>1, <3>1
    <3>3. k - 1 \in B
        BY <1>3, <1>5, <3>1, <3>2
    <3>. QED
        BY <1>7, <3>2, <3>3
  <2>. QED
      BY <2>1, <2>2, <2>3 DEF Bijection, Injection, Surjection, IsInjective
<1>9. Cardinality(A \ {1}) = Cardinality(B)
    BY <1>6, <1>8, FS_Bijection DEF ExistsBijection
<1>10. Cardinality(A \ {1}) = IF 1 \in A THEN Cardinality(A) - 1 ELSE Cardinality(A)
    BY <1>6, FS_RemoveElement
<1>11. 1 \in A <=> order[1].w = w
    BY <1>1, <1>4
<1>. QED
    BY <1>1, <1>2, <1>3, <1>6, <1>9, <1>10, <1>11

\* A ledger all of whose times are at most T.
Shape(L, T) ==
    /\ L = [order |-> L.order, counts |-> L.counts, banked |-> L.banked, horizon |-> L.horizon]
    /\ L.order \in Seq(Entry)
    /\ Len(L.order) <= Window
    /\ L.counts = [w \in Workers |-> Headcount(L.order, w)]
    /\ L.horizon \in Nat \ {0}
    /\ Bank(L.banked, L.horizon, T)

LEMMA RecordKeepsShape ==
    ASSUME NEW L, NEW T \in Nat, Shape(L, T), NEW w \in Workers, NEW t \in Nat, t <= T
    PROVE  /\ Shape(record(L, w, t), T)
           /\ record(L, w, t).horizon = L.horizon
<1>1. PICK order, counts, banked, h :
           L = [order |-> order, counts |-> counts, banked |-> banked, horizon |-> h]
    BY DEF Shape
<1>2. /\ order \in Seq(Entry) /\ Len(order) <= Window /\ h \in Nat \ {0}
      /\ counts = [v \in Workers |-> Headcount(order, v)]
      /\ Bank(banked, h, T)
    BY <1>1 DEF Shape
<1>3. PICK e \in Entry : e = [w |-> w, at |-> t]
    BY DEF Entry
<1>4. PICK n \in Nat : /\ n = Len(order) /\ Window \in Nat \ {0}
                       /\ \A i \in 1..n : order[i].w \in Workers /\ order[i].at \in Nat
    BY <1>2, EntryOf, PplnsAssumption
<1>5. PICK o : o = Append(order, e)
    OBVIOUS
<1>6. /\ o \in Seq(Entry) /\ Len(o) = n + 1 /\ \A i \in 1..n : o[i] = order[i]
      /\ o # <<>>
  <2>1. o \in Seq(Entry) /\ Len(o) = n + 1 /\ \A i \in 1..n : o[i] = order[i]
      BY <1>2, <1>4, <1>5, AppendProperties
  <2>. QED
      BY <1>4, <2>1, EmptySeq
<1>7. PICK c : c = [counts EXCEPT ![w] = @ + 1]
    OBVIOUS
<1>8. c = [v \in Workers |-> Headcount(o, v)]
  <2>1. \A v \in Workers : Headcount(o, v) = Headcount(order, v) + (IF w = v THEN 1 ELSE 0)
      BY <1>2, <1>3, <1>5, HeadcountAppend
  <2>2. \A v : Headcount(order, v) \in Nat
      BY <1>2, EntryOf
  <2>. QED
      BY <1>2, <1>7, <2>1, <2>2
<1>9. PICK r : r = record(L, w, t)
    OBVIOUS
<1>10. CASE n # Window
  <2>1. r = [order |-> o, counts |-> c, banked |-> expire_banked(banked, t, h), horizon |-> h]
      BY <1>1, <1>3, <1>4, <1>5, <1>7, <1>9, <1>10 DEF record
  <2>2. Bank(expire_banked(banked, t, h), h, T)
      BY <1>2, ExpireIsBank
  <2>3. Len(o) <= Window
      BY <1>2, <1>4, <1>6, <1>10
  <2>. QED
      BY <1>1, <1>2, <1>6, <1>8, <1>9, <2>1, <2>2, <2>3 DEF Shape
<1>11. CASE n = Window
  <2>1. PICK d, bk : /\ d = [c EXCEPT ![order[1].w] = @ - 1]
                     /\ bk = Evicted(L, t)
      OBVIOUS
  <2>2. r = [order |-> Tail(o), counts |-> d, banked |-> expire_banked(bk, t, h), horizon |-> h]
      BY <1>1, <1>3, <1>4, <1>5, <1>7, <1>9, <1>11, <2>1 DEF record
  <2>3. order[1].w \in Workers /\ order[1].at \in Nat /\ o[1] = order[1]
      BY <1>4, <1>6, <1>11
  <2>4. Bank(bk, h, T)
    <3>1. PICK ms \in Nat : ms = Earned(order[1].at, t, h)
        BY <1>2, <2>3, EarnedType
    <3>2. bk = bank(L, order[1].w, ms, t)
        BY <1>1, <2>1, <3>1 DEF Evicted
    <3>3. L.horizon = h /\ L.banked = banked
        BY <1>1
    <3>. QED
        BY <1>2, <2>3, <3>2, <3>3, BankIsBank
  <2>5. Bank(expire_banked(bk, t, h), h, T)
      BY <2>4, ExpireIsBank
  <2>6. /\ Tail(o) \in Seq(Entry) /\ Len(Tail(o)) = n
        /\ \A v : Headcount(Tail(o), v) = Headcount(o, v) - (IF order[1].w = v THEN 1 ELSE 0)
      BY <1>4, <1>6, <2>3, HeadcountTail
  <2>7. d = [v \in Workers |-> Headcount(Tail(o), v)]
    <3>1. \A v : Headcount(o, v) \in Nat
        BY <1>6, EntryOf
    <3>. QED
        BY <1>8, <2>1, <2>3, <2>6, <3>1
  <2>8. Len(Tail(o)) <= Window
      BY <1>4, <1>11, <2>6
  <2>9. /\ r.order = Tail(o) /\ r.counts = d /\ r.horizon = h
        /\ r.banked = expire_banked(bk, t, h)
        /\ r = [order |-> r.order, counts |-> r.counts,
                banked |-> r.banked, horizon |-> r.horizon]
      BY <2>2
  <2>10. Shape(r, T)
      BY <1>2, <2>5, <2>6, <2>7, <2>8, <2>9 DEF Shape
  <2>11. L.horizon = h
      BY <1>1
  <2>. QED
      BY <1>9, <2>9, <2>10, <2>11
<1>. QED
    BY <1>10, <1>11

\* The product of a bucket and its width is a time.
LEMMA StampType ==
    ASSUME NEW bs, NEW h \in Nat, NEW T \in Nat, Bank(bs, h, T), NEW i \in 1..Len(bs)
    PROVE  bs[i].bucket * BucketMs(h) \in Nat /\ bs[i].bucket * BucketMs(h) <= T
<1>1. bs[i].bucket \in Nat
    BY BucketOf DEF Bank
<1>2. BucketMs(h) \in Nat \ {0}
    BY BucketMsType
<1>3. PICK b \in Nat : b = bs[i].bucket
    BY <1>1
<1>4. PICK m \in Nat : m = BucketMs(h)
    BY <1>2
<1>5. b * m \in Nat
    OBVIOUS
<1>. QED
    BY <1>3, <1>4, <1>5 DEF Bank, Past

LEMMA SnapshotIsStored ==
    ASSUME NEW L, NEW T \in Nat, Shape(L, T)
    PROVE  Len(banked_snapshot(L)) \in Nat /\ Stored(banked_snapshot(L), T)
<1>1. PICK bs, h : bs = L.banked /\ h = L.horizon
    OBVIOUS
<1>2. Bank(bs, h, T) /\ h \in Nat
    BY <1>1 DEF Shape
<1>3. PICK n \in Nat : n = Len(bs) /\ \A i \in 1..n : bs[i].rows \in Rows
    BY <1>2, BucketOf DEF Bank
<1>4. PICK ss : ss = [i \in 1..n |-> [at |-> bs[i].bucket * BucketMs(h), rows |-> bs[i].rows]]
    OBVIOUS
<1>5. ss = banked_snapshot(L)
    BY <1>1, <1>3, <1>4 DEF banked_snapshot, Stamp
<1>6. \A i \in 1..n : bs[i].bucket * BucketMs(h) \in Nat /\ bs[i].bucket * BucketMs(h) <= T
    BY <1>2, <1>3, StampType
<1>7. Len(ss) = n
    BY <1>4
<1>8. \A i \in 1..n : ss[i].at \in Nat /\ ss[i].at <= T /\ ss[i].rows \in Rows
    BY <1>3, <1>4, <1>6
<1>. QED
    BY <1>5, <1>7, <1>8 DEF Stored

LEMMA RestoreKeepsShape ==
    ASSUME NEW L, NEW T \in Nat, Shape(L, T), NEW h \in Nat \ {0}
    PROVE  Shape(restore(h, L.order, banked_snapshot(L)), T)
<1>1. PICK o, ss : o = L.order /\ ss = banked_snapshot(L)
    OBVIOUS
<1>2. Len(ss) \in Nat /\ Stored(ss, T)
    BY <1>1, SnapshotIsStored
<1>3. o \in Seq(Entry) /\ Len(o) <= Window
    BY <1>1 DEF Shape
<1>4. Bank(Refill(h, ss), h, T)
    BY <1>2, RefillIsBank
<1>5. restore(h, o, ss) = [order |-> o, counts |-> [w \in Workers |-> Headcount(o, w)],
                           banked |-> Refill(h, ss), horizon |-> h]
    BY DEF restore, Headcount
<1>6. Shape(restore(h, o, ss), T)
    BY <1>3, <1>4, <1>5 DEF Shape
<1>. QED
    BY <1>1, <1>6

LEMMA ShapeLater ==
    ASSUME NEW L, NEW T \in Nat, NEW U \in Nat, T <= U, Shape(L, T)
    PROVE  Shape(L, U)
<1>1. PICK bs, h : bs = L.banked /\ h = L.horizon
    OBVIOUS
<1>2. Bank(bs, h, T) /\ h \in Nat
    BY <1>1 DEF Shape
<1>3. ASSUME NEW i \in 1..Len(bs) PROVE bs[i].bucket * BucketMs(h) <= U
  <2>1. PICK c : c = bs[i].bucket * BucketMs(h)
      OBVIOUS
  <2>2. c \in Nat /\ c <= T
      BY <1>2, <2>1, StampType
  <2>. QED
      BY <2>1, <2>2
<1>4. Bank(bs, h, U)
    BY <1>2, <1>3 DEF Bank, Past
<1>. QED
    BY <1>1, <1>4 DEF Shape

LEMMA NewLedgerShape ==
    ASSUME NEW h \in Horizons
    PROVE  Shape(NewLedger(h), 0)
<1>1. h \in Nat \ {0} /\ Window \in Nat
    BY PplnsAssumption
<1>2. PICK o : o = <<>>
    OBVIOUS
<1>3. o \in Seq(Entry) /\ Len(o) = 0
    BY <1>2, EmptySeq
<1>4. \A w : Headcount(o, w) = 0
  <2> TAKE w
  <2>1. {i \in 1..Len(o) : o[i].w = w} = {}
      BY <1>3
  <2>. QED
      BY <2>1, FS_EmptySet DEF Headcount
<1>5. Bank(o, h, 0)
    BY <1>2, EmptyBank
<1>6. NewLedger(h) = [order |-> o, counts |-> [w \in Workers |-> 0], banked |-> o, horizon |-> h]
    BY <1>2 DEF NewLedger, Zero
<1>. QED
    BY <1>1, <1>3, <1>4, <1>5, <1>6 DEF Shape

\* The ledgers of memory and file are in shape and the clock is nowhere it has not
\* been.
Ledgers ==
    /\ now \in Nat /\ top \in Nat /\ now <= top
    /\ Shape(led, top) /\ Shape(saved, top)

LEMMA InitLedgers == Init => Ledgers
<1> SUFFICES ASSUME Init PROVE Ledgers
    OBVIOUS
<1>1. now \in Nat /\ top = now
    BY PplnsAssumption DEF Init
<1>2. PICK h \in Horizons : led = NewLedger(h) /\ saved = led
    BY DEF Init
<1>3. Shape(NewLedger(h), now)
    BY <1>1, NewLedgerShape, ShapeLater
<1>. QED
    BY <1>1, <1>2, <1>3 DEF Ledgers

LEMMA NextLedgers == Ledgers /\ [Next]_vars => Ledgers'
<1> SUFFICES ASSUME Ledgers, [Next]_vars PROVE Ledgers'
    OBVIOUS
<1>1. /\ now \in Nat /\ top \in Nat /\ now <= top
      /\ Shape(led, top) /\ Shape(saved, top)
    BY DEF Ledgers
<1>2. ASSUME NEW w \in Workers, Share(w) PROVE Ledgers'
  <2>1. /\ led' = record(led, w, now) /\ now' = now /\ top' = top
        /\ saved' = saved \/ saved' = led'
      BY <1>2 DEF Share
  <2>2. Shape(led', top)
      BY <1>1, <2>1, RecordKeepsShape
  <2>. QED
      BY <1>1, <2>1, <2>2 DEF Ledgers
<1>3. CASE Save
  <2>1. led' = led /\ now' = now /\ top' = top /\ saved' = led
      BY <1>3 DEF Save
  <2>. QED
      BY <1>1, <2>1 DEF Ledgers
<1>4. CASE Tick
  <2>1. led' = led /\ saved' = saved /\ now' = now + 1 /\ top' = Max({top, now + 1})
      BY <1>4 DEF Tick
  <2>2. top' \in Nat /\ top <= top' /\ now' <= top'
      BY <1>1, <2>1, MaxOfTwo
  <2>3. Shape(led, top') /\ Shape(saved, top')
      BY <1>1, <2>2, ShapeLater
  <2>. QED
      BY <1>1, <2>1, <2>2, <2>3 DEF Ledgers
<1>5. CASE StepBack
  <2>1. led' = led /\ saved' = saved /\ now' = now - 1 /\ now > 0 /\ top' = top
      BY <1>5 DEF StepBack
  <2>. QED
      BY <1>1, <2>1 DEF Ledgers
<1>6. ASSUME NEW h \in Horizons, Restart(h) PROVE Ledgers'
  <2>1. /\ led' = restore(h, saved.order, banked_snapshot(saved))
        /\ saved' = saved /\ now' = now /\ top' = top
      BY <1>6 DEF Restart
  <2>2. h \in Nat \ {0}
      BY PplnsAssumption
  <2>3. Shape(led', top)
      BY <1>1, <2>1, <2>2, RestoreKeepsShape
  <2>. QED
      BY <1>1, <2>1, <2>3 DEF Ledgers
<1>7. ASSUME NEW pot \in Pots, NEW recorded \in SUBSET Workers, NEW failed \in SUBSET Workers,
             Settle(pot, recorded, failed)
      PROVE  Ledgers'
  <2>1. led' = led /\ saved' = saved /\ now' = now /\ top' = top
      BY <1>7 DEF Settle
  <2>. QED
      BY <1>1, <2>1 DEF Ledgers
<1>8. CASE UNCHANGED vars
    BY <1>1, <1>8 DEF vars, Ledgers
<1>. QED
    BY <1>2, <1>3, <1>4, <1>5, <1>6, <1>7, <1>8 DEF Next

\* The counts are the headcount of the window, buckets are in order and none is
\* of a time that has not been, for every window, horizon and clock, through
\* evictions, restarts and a clock set back (record, bank, restore).
THEOREM LedgerStaysInShape == Spec => []LedgerShape
<1>1. Ledgers => LedgerShape
  <2> SUFFICES ASSUME Ledgers PROVE LedgerShape
      OBVIOUS
  <2>1. Shape(led, top)
      BY DEF Ledgers
  <2>. QED
      BY <2>1 DEF Shape, Bank, Ordered, Past, Headcount, LedgerShape
<1>. QED
    BY <1>1, InitLedgers, NextLedgers, PTL DEF Spec
-----------------------------------------------------------------------------
(* The split.                                                              *)

\* The leftover units go to the largest remainders.
LEMMA BonusCount ==
    ASSUME NEW P \in SUBSET Workers, NEW rem \in [P -> Nat], NEW k \in 0..Cardinality(P)
    PROVE  Cardinality({w \in P : Bonus(rem, w, k) = 1}) = k
<1>1. IsFiniteSet(P) /\ P \subseteq Nat
    BY PplnsAssumption, FS_Subset
<1>2. PICK before : before = [w \in P |-> {v \in P : rem[v] > rem[w] \/ (rem[v] = rem[w] /\ v < w)}]
    OBVIOUS
<1>3. before \in [P -> SUBSET P]
    BY <1>2
<1>4. \A v, w \in P : v \in before[w] <=> rem[v] > rem[w] \/ (rem[v] = rem[w] /\ v < w)
    BY <1>2
<1>5. \A w \in P : rem[w] \in Nat /\ w \in Nat
    BY <1>1
<1>6. \A w \in P : w \notin before[w]
    BY <1>4, <1>5
<1>7. \A v, w \in P : v # w => v \in before[w] \/ w \in before[v]
    BY <1>4, <1>5
<1>8. \A v, w \in P : v \in before[w] => before[v] \subseteq before[w]
  <2> SUFFICES ASSUME NEW v \in P, NEW w \in P, v \in before[w], NEW u \in before[v]
               PROVE  u \in before[w]
      OBVIOUS
  <2>1. u \in P
      BY <1>3
  <2>. QED
      BY <1>4, <1>5, <2>1
<1>9. Cardinality({w \in P : Cardinality(before[w]) < k}) = k
    BY <1>1, <1>3, <1>6, <1>7, <1>8, RankCount
<1>10. \A w \in P : Bonus(rem, w, k) = IF Cardinality(before[w]) < k THEN 1 ELSE 0
  <2>1. DOMAIN rem = P
      OBVIOUS
  <2>. QED
      BY <1>2, <2>1 DEF Bonus
<1>11. {w \in P : Bonus(rem, w, k) = 1} = {w \in P : Cardinality(before[w]) < k}
    BY <1>10
<1>. QED
    BY <1>9, <1>11

\* Integer division and its remainder.
LEMMA DivRest ==
    ASSUME NEW a \in Nat, NEW m \in Nat \ {0}
    PROVE  /\ a \div m \in Nat /\ a % m \in Nat
           /\ a = m * (a \div m) + (a % m) /\ (a % m) < m
BY SMTT(30)

Divided(pot, cr, total, P, floor, rem) ==
    /\ total = SumFunction(cr) /\ total > 0
    /\ P = {w \in Workers : cr[w] > 0}
    /\ floor = [w \in Workers |-> (pot * cr[w]) \div total]
    /\ rem = [w \in P |-> (pot * cr[w]) % total]

\* The floors of the split and what is left over.
LEMMA FloorsOf ==
    ASSUME NEW pot \in Nat, NEW cr \in [Workers -> Nat],
           NEW total, NEW P, NEW floor, NEW rem, Divided(pot, cr, total, P, floor, rem)
    PROVE  /\ total \in Nat \ {0} /\ floor \in [Workers -> Nat]
           /\ \A w \in Workers : cr[w] = 0 => floor[w] = 0
           /\ rem \in [P -> Nat]
           /\ SumFunction(floor) \in Nat
           /\ pot - SumFunction(floor) \in 0..Cardinality(P)
           /\ pot = 0 => \A w \in Workers : floor[w] = 0
<1>0. /\ total = SumFunction(cr) /\ total > 0
      /\ P = {w \in Workers : cr[w] > 0}
      /\ floor = [w \in Workers |-> (pot * cr[w]) \div total]
      /\ rem = [w \in P |-> (pot * cr[w]) % total]
    BY DEF Divided
<1>1. IsFiniteSet(Workers) /\ DOMAIN cr = Workers /\ DOMAIN floor = Workers
    BY <1>0, PplnsAssumption
<1>2. total \in Nat \ {0}
  <2>1. SumFunctionOnSet(cr, Workers) \in Nat
      BY <1>1, SumNat
  <2>. QED
      BY <1>0, <1>1, <2>1 DEF SumFunction
<1>3. \A w \in Workers : pot * cr[w] \in Nat
  <2>1. \A c \in Nat : pot * c \in Nat
      OBVIOUS
  <2>. QED
      BY <2>1
<1>4. PICK rest : rest = [w \in Workers |-> (pot * cr[w]) % total]
    OBVIOUS
<1>5. PICK part : part = [w \in Workers |-> pot * cr[w]]
    OBVIOUS
<1>6. ASSUME NEW w \in Workers
      PROVE  /\ floor[w] \in Nat /\ rest[w] \in Nat /\ rest[w] < total /\ part[w] \in Nat
             /\ part[w] = total * floor[w] + rest[w]
  <2>1. PICK a \in Nat : a = pot * cr[w]
      BY <1>3
  <2>2. /\ a \div total \in Nat /\ a % total \in Nat
        /\ a = total * (a \div total) + (a % total) /\ (a % total) < total
      BY <1>2, DivRest
  <2>3. floor[w] = a \div total /\ rest[w] = a % total /\ part[w] = a
      BY <1>0, <1>4, <1>5, <2>1
  <2>. QED
      BY <2>1, <2>2, <2>3
<1>7. ASSUME NEW w \in Workers, pot * cr[w] = 0 PROVE floor[w] = 0 /\ rest[w] = 0
  <2>1. floor[w] = 0 \div total /\ rest[w] = 0 % total
      BY <1>0, <1>4, <1>7
  <2>2. 0 = total * (0 \div total) + (0 % total) /\ 0 \div total \in Nat /\ (0 % total) \in Nat
      BY <1>2, DivRest
  <2>3. PICK x \in Nat : x = 0 \div total
      BY <2>2
  <2>4. total * x \in Nat /\ total * x = 0 /\ 0 % total = 0
    <3>1. total * x \in Nat
        BY <1>2
    <3>. QED
        BY <2>2, <2>3, <3>1
  <2>5. x = 0
      BY <1>2, <2>4
  <2>. QED
      BY <2>1, <2>3, <2>4, <2>5
<1>8. \A w \in Workers : cr[w] = 0 \/ pot = 0 => pot * cr[w] = 0
  <2>1. \A c \in Nat : c = 0 \/ pot = 0 => pot * c = 0
      OBVIOUS
  <2>. QED
      BY <2>1
<1>9. PICK F : F = SumFunctionOnSet(floor, Workers)
    OBVIOUS
<1>10. F \in Nat /\ F = SumFunction(floor)
    BY <1>1, <1>6, <1>9, SumNat DEF SumFunction
<1>11. PICK R : R = SumFunctionOnSet(rest, Workers)
    OBVIOUS
<1>12. R \in Nat
    BY <1>1, <1>6, <1>11, SumNat
<1>13. pot * total = total * F + R
  <2>1. SumFunctionOnSet(part, Workers) = pot * total
    <3>1. \A w \in Workers : cr[w] \in Int /\ part[w] = pot * cr[w]
        BY <1>5
    <3>. QED
        BY <1>0, <1>1, <3>1, SumScale DEF SumFunction
  <2>2. PICK whole : whole = [w \in Workers |-> total * floor[w]]
      OBVIOUS
  <2>3. SumFunctionOnSet(whole, Workers) = total * F
    <3>1. \A w \in Workers : floor[w] \in Int /\ whole[w] = total * floor[w]
        BY <1>6, <2>2
    <3>. QED
        BY <1>1, <1>2, <1>9, <3>1, SumScale
  <2>4. \A w \in Workers : /\ whole[w] \in Int /\ rest[w] \in Int
                           /\ part[w] = whole[w] + rest[w]
    <3> TAKE w \in Workers
    <3>1. PICK x \in Nat : x = floor[w]
        BY <1>6
    <3>2. total * x \in Int
        BY <1>2
    <3>. QED
        BY <1>6, <2>2, <3>1, <3>2
  <2>5. SumFunctionOnSet(part, Workers)
          = SumFunctionOnSet(whole, Workers) + SumFunctionOnSet(rest, Workers)
      BY <1>1, <2>4, SumPlus
  <2>. QED
      BY <1>11, <2>1, <2>3, <2>5
<1>14. IsFiniteSet(P) /\ IsFiniteSet(Workers \ P) /\ Cardinality(P) \in Nat
  <2>1. P \in SUBSET Workers /\ Workers \ P \in SUBSET Workers
      BY <1>0
  <2>. QED
      BY <1>1, <2>1, FS_Subset, FS_CardinalityType
<1>15. R + Cardinality(P) <= total * Cardinality(P)
  <2>1a. PICK n \in Nat : n = Cardinality(P)
      BY <1>14
  <2>0. PICK c : c = total * n /\ n = Cardinality(P)
      BY <2>1a
  <2>1. SumFunctionOnSet(rest, P) + n <= c
    <3>1. \A w \in P : rest[w] \in Int /\ rest[w] < total
        BY <1>0, <1>6
    <3>2. PICK m \in Int : m = total
        BY <1>2
    <3>3. \A w \in P : rest[w] \in Int /\ rest[w] < m
        BY <3>1, <3>2
    <3>4. SumFunctionOnSet(rest, P) + Cardinality(P) <= m * Cardinality(P)
        BY <1>14, <3>3, SumBelow
    <3>. QED
        BY <2>0, <3>2, <3>4
  <2>2. SumFunctionOnSet(rest, Workers \ P) = 0
    <3>1. \A w \in Workers \ P : cr[w] = 0
        BY <1>0
    <3>2. \A w \in Workers \ P : rest[w] = 0
        BY <1>7, <1>8, <3>1
    <3>3. PICK D : D = Workers \ P
        OBVIOUS
    <3>4. IsFiniteSet(D) /\ (\A w \in D : rest[w] = 0) /\ (\A w \in D : rest[w] \in {0, 1})
        BY <1>14, <3>2, <3>3
    <3>5. {w \in D : rest[w] = 1} = {}
        BY <3>4
    <3>6. SumFunctionOnSet(rest, D) = Cardinality({w \in D : rest[w] = 1})
        BY <3>4, SumIndicator
    <3>. QED
        BY <3>3, <3>5, <3>6, FS_EmptySet
  <2>3. P \cup (Workers \ P) = Workers /\ P \cap (Workers \ P) = {}
      BY <1>0
  <2>4. \A w \in P \cup (Workers \ P) : rest[w] \in Int
      BY <1>6, <2>3
  <2>5. SumFunctionOnSet(rest, P \cup (Workers \ P))
          = SumFunctionOnSet(rest, P) + SumFunctionOnSet(rest, Workers \ P)
      BY <1>14, <2>3, <2>4, SumUnion
  <2>6. SumFunctionOnSet(rest, P) \in Int
      BY <1>0, <1>6, <1>14, SumInt
  <2>7. R = SumFunctionOnSet(rest, P)
    <3>1. PICK x \in Int : x = SumFunctionOnSet(rest, P)
        BY <2>6
    <3>2. R = x + 0
        BY <1>11, <2>2, <2>3, <2>5, <3>1
    <3>. QED
        BY <3>1, <3>2
  <2>8. R + n <= c
      BY <2>1, <2>7
  <2>. QED
      BY <2>0, <2>8
<1>16. pot - F \in 0..Cardinality(P)
  <2>1. PICK n \in Nat : n = Cardinality(P)
      BY <1>14
  <2>2. total * (pot - F) = R
    <3>1. PICK a \in Nat, b \in Int : a = total /\ b = F
        BY <1>2, <1>10
    <3>2. PICK x \in Int, y \in Int : x = pot * a /\ y = a * b
        BY <3>1
    <3>3. a * (pot - b) = x - y
        BY <3>2
    <3>4. x = y + R
        BY <1>13, <3>1, <3>2
    <3>5. x - y = R
        BY <1>12, <3>2, <3>4
    <3>. QED
        BY <3>1, <3>3, <3>5
  <2>3. R + n <= total * n
      BY <1>15, <2>1
  <2>4. pot - F >= 0
    <3> SUFFICES ASSUME pot - F <= -1 PROVE FALSE
        BY <1>10
    <3>1. total * (pot - F) <= -total
        BY <1>2, <1>10
    <3>. QED
        BY <1>2, <1>12, <2>2, <3>1
  <2>5. pot - F <= n
    <3> SUFFICES ASSUME pot - F >= n + 1 PROVE FALSE
        BY <1>10
    <3>1. total * (pot - F) >= total * n + total
      <4>0. PICK d \in Int : d = pot - F - (n + 1) /\ d >= 0
          BY <1>10
      <4>1. PICK a \in Nat : a = total
          BY <1>2
      <4>2. a * d >= 0
          BY <4>0
      <4>3. a * (d + (n + 1)) = a * d + (a * n + a)
          BY <4>1
      <4>4. pot - F = d + (n + 1)
          BY <1>10, <4>0
      <4>. QED
          BY <4>1, <4>2, <4>3, <4>4
    <3>2. total * n \in Nat
        BY <1>2
    <3>. QED
        BY <1>2, <1>12, <2>2, <2>3, <3>1, <3>2
  <2>. QED
      BY <1>10, <2>1, <2>4, <2>5
<1>17. floor \in [Workers -> Nat]
    BY <1>0, <1>6
<1>18. rem \in [P -> Nat]
    BY <1>0, <1>4, <1>6
<1>. QED
    BY <1>2, <1>7, <1>8, <1>10, <1>16, <1>17, <1>18

\* split_payout spends the pot and gives nobody less than the floor.
LEMMA SplitSpends ==
    ASSUME NEW pot \in Nat, NEW cr \in [Workers -> Nat]
    PROVE  /\ split_payout(pot, cr) \in [Workers -> Nat]
           /\ pot = 0 => split_payout(pot, cr) = Zero
           /\ SumFunction(split_payout(pot, cr)) = IF SumFunction(cr) > 0 THEN pot ELSE 0
           /\ \A w \in Workers : split_payout(pot, cr)[w] >= worker_pending_units(pot, cr, w)
<1>1. PICK total : total = SumFunction(cr)
    OBVIOUS
<1>2. IsFiniteSet(Workers) /\ DOMAIN cr = Workers
    BY PplnsAssumption
<1>3. total \in Nat
    BY <1>1, <1>2, SumNat DEF SumFunction
<1>4. CASE total = 0
  <2>1. split_payout(pot, cr) = Zero
      BY <1>1, <1>4 DEF split_payout
  <2>2. DOMAIN Zero = Workers /\ \A w \in Workers : Zero[w] = 0
      BY DEF Zero
  <2>3. SumFunctionOnSet(Zero, Workers) = Cardinality({w \in Workers : Zero[w] = 1})
      BY <1>2, <2>2, SumIndicator
  <2>4. {w \in Workers : Zero[w] = 1} = {}
      BY <2>2
  <2>5. SumFunction(Zero) = 0
      BY <2>2, <2>3, <2>4, FS_EmptySet DEF SumFunction
  <2>6. Zero \in [Workers -> Nat]
      BY DEF Zero
  <2>. QED
      BY <1>1, <1>4, <2>1, <2>2, <2>5, <2>6 DEF worker_pending_units
<1>5. CASE total # 0
  <2>1. PICK P : P = {w \in Workers : cr[w] > 0}
      OBVIOUS
  <2>2. PICK floor : floor = [w \in Workers |-> (pot * cr[w]) \div total]
      OBVIOUS
  <2>3. PICK rem : rem = [w \in P |-> (pot * cr[w]) % total]
      OBVIOUS
  <2>4. total > 0
      BY <1>3, <1>5
  <2>5. PICK k : k = pot - SumFunction(floor)
      OBVIOUS
  <2>6. /\ floor \in [Workers -> Nat] /\ rem \in [P -> Nat] /\ k \in 0..Cardinality(P)
        /\ SumFunction(floor) \in Nat
        /\ \A w \in Workers : cr[w] = 0 => floor[w] = 0
        /\ pot = 0 => \A w \in Workers : floor[w] = 0
    <3>1. /\ floor \in [Workers -> Nat] /\ rem \in [P -> Nat]
          /\ pot - SumFunction(floor) \in 0..Cardinality(P)
          /\ SumFunction(floor) \in Nat
          /\ \A w \in Workers : cr[w] = 0 => floor[w] = 0
          /\ pot = 0 => \A w \in Workers : floor[w] = 0
      <4>1. Divided(pot, cr, total, P, floor, rem)
          BY <1>1, <2>1, <2>2, <2>3, <2>4 DEF Divided
      <4>. QED
          BY <4>1, FloorsOf
    <3>. QED
        BY <2>5, <3>1
  <2>7. PICK more : more = [w \in Workers |-> IF cr[w] = 0 THEN 0 ELSE Bonus(rem, w, k)]
      OBVIOUS
  <2>8. PICK s : s = split_payout(pot, cr)
      OBVIOUS
  <2>9. s = [w \in Workers |-> IF cr[w] = 0 THEN 0 ELSE floor[w] + Bonus(rem, w, k)]
      BY <1>1, <1>5, <2>1, <2>2, <2>3, <2>5, <2>8 DEF split_payout
  <2>10. \A w \in Workers : more[w] \in {0, 1}
      BY <2>7 DEF Bonus
  <2>11. \A w \in Workers : floor[w] \in Nat /\ s[w] = floor[w] + more[w]
      BY <2>6, <2>7, <2>9, <2>10
  <2>12. s \in [Workers -> Nat] /\ DOMAIN s = Workers
    <3>1. \A w \in Workers : s[w] \in Nat
        BY <2>10, <2>11
    <3>. QED
        BY <2>9, <3>1
  <2>13. {w \in Workers : more[w] = 1} = {w \in P : Bonus(rem, w, k) = 1}
    <3>1. \A w \in Workers : cr[w] \in Nat
        OBVIOUS
    <3>. QED
        BY <2>1, <2>7, <3>1
  <2>14. SumFunctionOnSet(more, Workers) = k
    <3>1. Cardinality({w \in P : Bonus(rem, w, k) = 1}) = k
        BY <2>1, <2>6, BonusCount
    <3>. QED
        BY <1>2, <2>10, <2>13, <3>1, SumIndicator
  <2>15. SumFunctionOnSet(s, Workers) = SumFunctionOnSet(floor, Workers) + k
    <3>1. \A w \in Workers : floor[w] \in Int /\ more[w] \in Int
        BY <2>10, <2>11
    <3>. QED
        BY <1>2, <2>11, <2>14, <3>1, SumPlus
  <2>16. SumFunction(s) = pot
    <3>1. DOMAIN floor = Workers
        BY <2>2
    <3>. QED
        BY <2>5, <2>6, <2>12, <2>15, <3>1 DEF SumFunction
  <2>17. ASSUME pot = 0 PROVE s = Zero
    <3>1. SumFunctionOnSet(floor, Workers) = 0
      <4>1. {w \in Workers : floor[w] = 1} = {} /\ \A w \in Workers : floor[w] \in {0, 1}
          BY <2>6, <2>17
      <4>. QED
          BY <1>2, <4>1, SumIndicator, FS_EmptySet
    <3>2. k = 0
        BY <2>2, <2>5, <2>17, <3>1 DEF SumFunction
    <3>3. \A w \in P : Bonus(rem, w, k) = 0
      <4> TAKE w \in P
      <4>1. PICK A : A = {v \in DOMAIN rem : rem[v] > rem[w] \/ (rem[v] = rem[w] /\ v < w)}
          OBVIOUS
      <4>2. A \in SUBSET Workers
          BY <2>1, <2>3, <4>1
      <4>3. Cardinality(A) \in Nat
          BY <1>2, <4>2, FS_Subset, FS_CardinalityType
      <4>. QED
          BY <3>2, <4>1, <4>3 DEF Bonus
    <3>4. \A w \in Workers : s[w] = 0
        BY <2>1, <2>6, <2>9, <2>17, <3>3
    <3>. QED
        BY <2>9, <3>4 DEF Zero
  <2>18. \A w \in Workers : s[w] >= worker_pending_units(pot, cr, w)
    <3> TAKE w \in Workers
    <3>1. worker_pending_units(pot, cr, w) = floor[w]
        BY <1>1, <1>5, <2>2 DEF worker_pending_units
    <3>. QED
        BY <2>10, <2>11, <3>1
  <2>. QED
      BY <1>1, <2>4, <2>8, <2>12, <2>16, <2>17, <2>18
<1>. QED
    BY <1>4, <1>5
-----------------------------------------------------------------------------
(* Credit.                                                                 *)

LEMMA CreditType ==
    ASSUME NEW L, NEW T, Shape(L, T), NEW t \in Nat
    PROVE  credit(L, t) \in [Workers -> Nat]
<1>1. /\ L.order \in Seq(Entry) /\ L.banked \in Seq(Bucket) /\ L.horizon \in Nat
    BY DEF Shape, Bank
<1>2. ASSUME NEW w PROVE BankedOf(L, w, t) \in Nat
  <2>1. PICK mine : mine = {i \in 1..Len(L.banked) :
                       Fresh(L.banked[i], t, L.horizon) /\ w \in DOMAIN L.banked[i].rows}
      OBVIOUS
  <2>2. IsFiniteSet(mine)
    <3>1. IsFiniteSet(1..Len(L.banked))
        BY <1>1, BucketOf, FS_Interval
    <3>. QED
        BY <2>1, <3>1, FS_Subset
  <2>3. PICK f : f = [i \in mine |-> L.banked[i].rows[w]]
      OBVIOUS
  <2>4. \A i \in mine : f[i] \in Nat
    <3> TAKE i \in mine
    <3>1. i \in 1..Len(L.banked) /\ w \in DOMAIN L.banked[i].rows
        BY <2>1
    <3>2. L.banked[i].rows \in Rows
        BY <1>1, <3>1, BucketOf
    <3>3. PICK S \in SUBSET Workers : L.banked[i].rows \in [S -> Nat]
        BY <3>2 DEF Rows
    <3>4. w \in S /\ f[i] = L.banked[i].rows[w]
        BY <2>3, <3>1, <3>3
    <3>. QED
        BY <3>3, <3>4
  <2>5. SumFunction(f) \in Nat
      BY <2>2, <2>3, <2>4, SumNat DEF SumFunction
  <2>. QED
      BY <2>1, <2>3, <2>5 DEF BankedOf
<1>3. ASSUME NEW w PROVE StandingOf(L, w, t) \in Nat
  <2>1. PICK mine : mine = {i \in 1..Len(L.order) : L.order[i].w = w}
      OBVIOUS
  <2>2. IsFiniteSet(mine)
      BY <1>1, <2>1, EntryOf
  <2>3. PICK f : f = [i \in mine |-> Earned(L.order[i].at, t, L.horizon)]
      OBVIOUS
  <2>4. \A i \in mine : f[i] \in Nat
    <3> TAKE i \in mine
    <3>1. L.order[i].at \in Nat
        BY <1>1, <2>1, EntryOf
    <3>. QED
        BY <1>1, <2>3, <3>1, EarnedType
  <2>5. SumFunction(f) \in Nat
      BY <2>2, <2>3, <2>4, SumNat DEF SumFunction
  <2>. QED
      BY <2>1, <2>3, <2>5 DEF StandingOf
<1>. QED
    BY <1>2, <1>3 DEF credit
-----------------------------------------------------------------------------
(* Debts: at most one row for a worker.                                    *)

Debt == [w : Workers, units : Nat]
Owes(ow) ==
    /\ ow \in Seq(Debt)
    /\ \A i, j \in 1..Len(ow) : ow[i].w = ow[j].w => i = j
RowTotal(ow, f, w) == SumFunction([i \in {j \in 1..Len(ow) : ow[j].w = w} |-> f[i]])
Creditors(ow) == {ow[i].w : i \in 1..Len(ow)}

LEMMA DebtOf ==
    ASSUME NEW ow, Owes(ow)
    PROVE  /\ Len(ow) \in Nat /\ DOMAIN ow = 1..Len(ow)
           /\ \A i \in 1..Len(ow) : /\ ow[i] \in Debt
                                    /\ ow[i].w \in Workers /\ ow[i].units \in Nat
           /\ Creditors(ow) \subseteq Workers
<1>1. ow \in Seq(Debt)
    BY DEF Owes
<1>2. Len(ow) \in Nat /\ DOMAIN ow = 1..Len(ow)
    BY <1>1, LenProperties
<1>3. \A i \in 1..Len(ow) : ow[i] \in Debt
    BY <1>1, ElementOfSeq
<1>4. \A i \in 1..Len(ow) : ow[i].w \in Workers /\ ow[i].units \in Nat
    BY <1>3 DEF Debt
<1>. QED
    BY <1>2, <1>3, <1>4 DEF Creditors

LEMMA SumOne ==
    ASSUME NEW f, NEW x, f[x] \in Int
    PROVE  SumFunctionOnSet(f, {x}) = f[x]
<1>1. IsFiniteSet({}) /\ \A y \in {} : f[y] \in Int
    BY FS_EmptySet
<1>2. SumFunctionOnSet(f, {} \cup {x}) = f[x] + SumFunctionOnSet(f, {})
    BY <1>1, SumAdd
<1>3. {} \cup {x} = {x}
    OBVIOUS
<1>. QED
    BY <1>2, <1>3, SumEmpty

\* A sum over the rows of a worker is the value at its only row.
LEMMA RowSum ==
    ASSUME NEW ow, Owes(ow), NEW f, DOMAIN f = 1..Len(ow), \A i \in 1..Len(ow) : f[i] \in Nat,
           NEW w
    PROVE  /\ \A k \in 1..Len(ow) : ow[k].w = w => RowTotal(ow, f, w) = f[k]
           /\ w \notin Creditors(ow) => RowTotal(ow, f, w) = 0
<1>1. PICK mine : mine = {j \in 1..Len(ow) : ow[j].w = w}
    OBVIOUS
<1>2. PICK g : g = [i \in mine |-> f[i]]
    OBVIOUS
<1>3. ASSUME NEW k \in 1..Len(ow), ow[k].w = w PROVE SumFunction(g) = f[k]
  <2>1. mine = {k}
      BY <1>1, <1>3 DEF Owes
  <2>2. g[k] = f[k] /\ DOMAIN g = {k} /\ f[k] \in Int
      BY <1>2, <1>3, <2>1
  <2>. QED
      BY <2>2, SumOne DEF SumFunction
<1>4. ASSUME w \notin Creditors(ow) PROVE SumFunction(g) = 0
  <2>1. mine = {}
      BY <1>1, <1>4 DEF Creditors
  <2>2. DOMAIN g = {}
      BY <1>2, <2>1
  <2>. QED
      BY <2>2, SumEmpty DEF SumFunction
<1>. QED
    BY <1>1, <1>2, <1>3, <1>4 DEF RowTotal

LEMMA OwedToIs ==
    ASSUME NEW ow, Owes(ow)
    PROVE  /\ \A k \in 1..Len(ow) : OwedTo(ow, ow[k].w) = ow[k].units
           /\ \A w : w \notin Creditors(ow) => OwedTo(ow, w) = 0
           /\ \A w : OwedTo(ow, w) \in Nat
<1>1. PICK f : f = [i \in 1..Len(ow) |-> ow[i].units]
    OBVIOUS
<1>2. DOMAIN f = 1..Len(ow) /\ \A i \in 1..Len(ow) : f[i] \in Nat /\ f[i] = ow[i].units
    BY <1>1, DebtOf
<1>3. \A w : OwedTo(ow, w) = RowTotal(ow, f, w)
  <2> TAKE w
  <2>1. [i \in {j \in 1..Len(ow) : ow[j].w = w} |-> ow[i].units]
          = [i \in {j \in 1..Len(ow) : ow[j].w = w} |-> f[i]]
      BY <1>2
  <2>. QED
      BY <2>1 DEF OwedTo, RowTotal
<1>7. \A v : /\ \A k \in 1..Len(ow) : ow[k].w = v => OwedTo(ow, v) = f[k]
             /\ v \notin Creditors(ow) => OwedTo(ow, v) = 0
  <2> TAKE w
  <2>1. /\ \A k \in 1..Len(ow) : ow[k].w = w => RowTotal(ow, f, w) = f[k]
        /\ w \notin Creditors(ow) => RowTotal(ow, f, w) = 0
      BY <1>2, RowSum
  <2>2. OwedTo(ow, w) = RowTotal(ow, f, w)
      BY <1>3
  <2>. QED
      BY <2>1, <2>2
<1>4. \A k \in 1..Len(ow) : OwedTo(ow, ow[k].w) = ow[k].units
    BY <1>2, <1>7
<1>5. \A w : w \notin Creditors(ow) => OwedTo(ow, w) = 0
    BY <1>7
<1>6. \A w : OwedTo(ow, w) \in Nat
  <2> TAKE w
  <2>1. CASE w \in Creditors(ow)
    <3>1. PICK k \in 1..Len(ow) : w = ow[k].w
        BY <2>1 DEF Creditors
    <3>. QED
        BY <1>4, <3>1, DebtOf
  <2>. QED
      BY <1>5, <2>1
<1>. QED
    BY <1>4, <1>5, <1>6

\* The rows before one, by running totals.
LEMMA BeforeSteps ==
    ASSUME NEW ow, Owes(ow)
    PROVE  /\ Before(ow, 1) = 0
           /\ \A i \in 1..Len(ow) : Before(ow, i + 1) = Before(ow, i) + ow[i].units
           /\ \A i \in 1..(Len(ow) + 1) : Before(ow, i) \in Nat
<1>1. PICK n \in Nat : n = Len(ow)
    BY DebtOf
<1>2. PICK u : u = [i \in 1..n |-> ow[i].units]
    OBVIOUS
<1>3. DOMAIN u = 1..n /\ \A i \in 1..n : u[i] \in Nat /\ u[i] = ow[i].units
    BY <1>1, <1>2, DebtOf
<1>4. ASSUME NEW i \in 1..(n + 1)
      PROVE  /\ Before(ow, i) = SumFunctionOnSet(u, 1..(i - 1))
             /\ IsFiniteSet(1..(i - 1)) /\ \A j \in 1..(i - 1) : u[j] \in Nat
             /\ Before(ow, i) \in Nat
  <2>1. PICK b : b = [j \in 1..(i - 1) |-> ow[j].units]
      OBVIOUS
  <2>2. IsFiniteSet(1..(i - 1))
      BY FS_Interval
  <2>3. \A j \in 1..(i - 1) : j \in 1..n
      BY <1>1
  <2>4. DOMAIN b = 1..(i - 1) /\ \A j \in 1..(i - 1) : u[j] \in Nat /\ b[j] = u[j]
      BY <1>3, <2>1, <2>3
  <2>5. SumFunctionOnSet(u, 1..(i - 1)) = SumFunctionOnSet(b, 1..(i - 1))
    <3>1. \A j \in 1..(i - 1) : u[j] \in Int /\ b[j] = u[j]
        BY <2>4
    <3>. QED
        BY <2>2, <3>1, SumEqual
  <2>6. SumFunctionOnSet(u, 1..(i - 1)) \in Nat
      BY <2>2, <2>4, SumNat
  <2>7. Before(ow, i) = SumFunctionOnSet(b, 1..(i - 1))
      BY <2>1, <2>4 DEF Before, SumFunction
  <2>. QED
      BY <2>2, <2>4, <2>5, <2>6, <2>7
<1>5. Before(ow, 1) = 0
  <2>1. 1..(1 - 1) = {} /\ 1 \in 1..(n + 1)
      BY <1>1
  <2>. QED
      BY <1>4, <2>1, SumEmpty
<1>6. ASSUME NEW i \in 1..n PROVE Before(ow, i + 1) = Before(ow, i) + ow[i].units
  <2>1. i \in 1..(n + 1) /\ i + 1 \in 1..(n + 1) /\ (i + 1) - 1 = i
      BY <1>1
  <2>2. 1..i = (1..(i - 1)) \cup {i} /\ i \notin 1..(i - 1)
      BY <1>1
  <2>3. Before(ow, i + 1) = SumFunctionOnSet(u, 1..i)
      BY <1>4, <2>1
  <2>4. PICK D : D = 1..(i - 1)
      OBVIOUS
  <2>5. /\ IsFiniteSet(D) /\ (\A j \in D : u[j] \in Nat) /\ Before(ow, i) \in Nat
        /\ Before(ow, i) = SumFunctionOnSet(u, D)
      BY <1>4, <2>1, <2>4
  <2>6. u[i] \in Nat /\ u[i] = ow[i].units
      BY <1>3
  <2>7. SumFunctionOnSet(u, D \cup {i}) = u[i] + SumFunctionOnSet(u, D)
    <3>1. (\A j \in D : u[j] \in Int) /\ u[i] \in Int /\ i \notin D
        BY <2>2, <2>4, <2>5, <2>6
    <3>. QED
        BY <2>5, <3>1, SumAdd
  <2>8. Before(ow, i + 1) = SumFunctionOnSet(u, D \cup {i})
      BY <2>2, <2>3, <2>4
  <2>9. Before(ow, i + 1) = ow[i].units + Before(ow, i)
      BY <2>5, <2>6, <2>7, <2>8
  <2>10. ow[i].units \in Nat
      BY <2>6
  <2>. QED
      BY <2>5, <2>9, <2>10
<1>. QED
    BY <1>1, <1>4, <1>5, <1>6

\* take_owed pays the debts from the pot as far as it goes.
LEMMA TakesWhatThereIs ==
    ASSUME NEW ow, Owes(ow), NEW pot \in Nat
    PROVE  /\ take_owed(ow, pot) \in [Workers -> Nat]
           /\ \A w \in Workers : take_owed(ow, pot)[w] <= OwedTo(ow, w)
           /\ pot >= OwedTotal(ow) =>
                \A w \in Workers : take_owed(ow, pot)[w] = OwedTo(ow, w)
           /\ OwedTotal(ow) \in Nat
           /\ SumFunction(take_owed(ow, pot))
                = IF pot <= OwedTotal(ow) THEN pot ELSE OwedTotal(ow)
<1>1. PICK n \in Nat : n = Len(ow)
    BY DebtOf
<1>2. PICK B : B = [i \in 1..(n + 1) |-> Before(ow, i)]
    OBVIOUS
<1>3. /\ B[1] = 0 /\ OwedTotal(ow) = B[n + 1]
      /\ \A i \in 1..(n + 1) : B[i] \in Nat /\ B[i] = Before(ow, i)
      /\ \A i \in 1..n : B[i + 1] = B[i] + ow[i].units /\ ow[i].units \in Nat
  <2>1. /\ 1 \in 1..(n + 1) /\ n + 1 \in 1..(n + 1)
        /\ \A i \in 1..n : i \in 1..(n + 1) /\ i + 1 \in 1..(n + 1)
      BY <1>1
  <2>. QED
      BY <1>1, <1>2, <2>1, BeforeSteps, DebtOf DEF OwedTotal
<1>4. PICK taken : taken = [i \in 1..n |-> TakenAt(ow, i, pot)]
    OBVIOUS
<1>5. /\ DOMAIN taken = 1..n
      /\ \A i \in 1..n : taken[i] = LET left_ == IF pot > B[i] THEN pot - B[i] ELSE 0
                                    IN IF ow[i].units <= left_ THEN ow[i].units ELSE left_
  <2>1. ASSUME NEW i \in 1..n
        PROVE  taken[i] = LET left_ == IF pot > B[i] THEN pot - B[i] ELSE 0
                          IN IF ow[i].units <= left_ THEN ow[i].units ELSE left_
    <3>1. i \in 1..(n + 1)
        BY <1>1
    <3>2. B[i] \in Nat /\ ow[i].units \in Nat /\ B[i] = Before(ow, i)
        BY <1>3, <3>1
    <3>3. PICK r \in Nat : r = IF pot > B[i] THEN pot - B[i] ELSE 0
        BY <3>2
    <3>4. Monus(pot, B[i]) = r
        BY <3>3 DEF Monus
    <3>5. taken[i] = Min({ow[i].units, r})
        BY <1>4, <3>2, <3>4 DEF TakenAt
    <3>6. taken[i] = IF ow[i].units <= r THEN ow[i].units ELSE r
        BY <3>2, <3>5, MinOfTwo
    <3>. QED
        BY <3>3, <3>6
  <2>. QED
      BY <1>4, <2>1
<1>6. \A i \in 1..n : taken[i] \in Nat /\ taken[i] <= ow[i].units
  <2> TAKE i \in 1..n
  <2>1. i \in 1..(n + 1)
      BY <1>1
  <2>2. B[i] \in Nat /\ ow[i].units \in Nat
      BY <1>3, <2>1
  <2>. QED
      BY <1>5, <2>2
<1>15. \A k \in 1..n : B[k + 1] <= B[n + 1]
  <2> DEFINE P == {m \in Nat : m <= n => \A k \in 1..m : B[k + 1] <= B[m + 1]}
  <2>1. 0 \in P
      OBVIOUS
  <2>2. ASSUME NEW m \in P PROVE m + 1 \in P
    <3> SUFFICES ASSUME m + 1 <= n, NEW k \in 1..(m + 1) PROVE B[k + 1] <= B[(m + 1) + 1]
        BY <2>2
    <3>1. m \in Nat /\ m + 1 \in 1..n /\ m + 1 \in 1..(n + 1) /\ (m + 1) + 1 \in 1..(n + 1)
          /\ k + 1 \in 1..(n + 1)
        BY <1>1, <2>2
    <3>2. /\ B[(m + 1) + 1] = B[m + 1] + ow[m + 1].units
          /\ ow[m + 1].units \in Nat /\ B[m + 1] \in Nat
        BY <1>3, <3>1
    <3>3. CASE k = m + 1
        BY <1>3, <3>1, <3>3
    <3>4. CASE k \in 1..m
      <4>1. B[k + 1] <= B[m + 1]
          BY <1>1, <2>2, <3>1, <3>4
      <4>2. B[k + 1] \in Nat
          BY <1>3, <3>1
      <4>. QED
          BY <3>2, <4>1, <4>2
    <3>. QED
        BY <3>1, <3>3, <3>4
  <2>3. P = Nat
    <3>1. P \in SUBSET Nat
        OBVIOUS
    <3> HIDE DEF P
    <3>. QED
        BY <2>1, <2>2, <3>1, NatSetInduction
  <2>. QED
      BY <1>1, <2>3
<1>7. PICK d : d = take_owed(ow, pot)
    OBVIOUS
<1>8. d = [w \in Workers |-> RowTotal(ow, taken, w)]
  <2>1. ASSUME NEW w
        PROVE  SumFunction([i \in {j \in 1..Len(ow) : ow[j].w = w} |-> TakenAt(ow, i, pot)])
                 = RowTotal(ow, taken, w)
    <3>1. [i \in {j \in 1..Len(ow) : ow[j].w = w} |-> TakenAt(ow, i, pot)]
            = [i \in {j \in 1..Len(ow) : ow[j].w = w} |-> taken[i]]
        BY <1>1, <1>4
    <3>. QED
        BY <3>1 DEF RowTotal
  <2>. QED
      BY <1>7, <2>1 DEF take_owed
<1>9. ASSUME NEW w \in Workers
      PROVE  /\ \A k \in 1..n : ow[k].w = w => d[w] = taken[k]
             /\ w \notin Creditors(ow) => d[w] = 0
    BY <1>1, <1>5, <1>6, <1>8, RowSum
<1>10. ASSUME NEW w \in Workers
       PROVE  /\ d[w] \in Nat /\ d[w] <= OwedTo(ow, w)
              /\ pot >= OwedTotal(ow) => d[w] = OwedTo(ow, w)
  <2>1. CASE w \notin Creditors(ow)
      BY <1>9, <2>1, OwedToIs
  <2>2. CASE w \in Creditors(ow)
    <3>1. PICK k \in 1..n : w = ow[k].w
        BY <1>1, <2>2 DEF Creditors
    <3>2. d[w] = taken[k] /\ OwedTo(ow, w) = ow[k].units
        BY <1>1, <1>9, <3>1, OwedToIs
    <3>3. pot >= B[n + 1] => taken[k] = ow[k].units
      <4> SUFFICES ASSUME pot >= B[n + 1] PROVE taken[k] = ow[k].units
          OBVIOUS
      <4>1. B[k + 1] <= B[n + 1]
          BY <1>1, <1>15
      <4>2. k \in 1..(n + 1) /\ k + 1 \in 1..(n + 1) /\ n + 1 \in 1..(n + 1)
          BY <1>1
      <4>3. /\ B[k] \in Nat /\ ow[k].units \in Nat /\ B[k + 1] = B[k] + ow[k].units
            /\ B[n + 1] \in Nat
          BY <1>3, <4>2
      <4>. QED
          BY <1>5, <4>1, <4>3
    <3>. QED
        BY <1>3, <1>6, <3>2, <3>3
  <2>. QED
      BY <2>1, <2>2
<1>11. d \in [Workers -> Nat] /\ DOMAIN d = Workers
    BY <1>8, <1>10
\* The sum over the workers of the first k rows.
<1>12. PICK A : A = [k \in 0..n |-> {ow[i].w : i \in 1..k}]
    OBVIOUS
<1>13. SumFunctionOnSet(d, A[n]) = IF pot <= B[n + 1] THEN pot ELSE B[n + 1]
  <2> DEFINE Upto(m) == IF pot <= B[m + 1] THEN pot ELSE B[m + 1]
             P == {m \in Nat : m <= n => SumFunctionOnSet(d, A[m]) = Upto(m)}
  <2>1. 0 \in P
    <3>1. A[0] = {} /\ B[0 + 1] = 0
        BY <1>1, <1>3, <1>12
    <3>. QED
        BY <3>1, SumEmpty
  <2>2. ASSUME NEW m \in P PROVE m + 1 \in P
    <3> SUFFICES ASSUME m + 1 <= n PROVE SumFunctionOnSet(d, A[m + 1]) = Upto(m + 1)
        BY <2>2
    <3>1. m \in Nat /\ m + 1 \in 1..n /\ m + 1 \in 1..(n + 1) /\ (m + 1) + 1 \in 1..(n + 1)
          /\ m \in 0..n /\ m + 1 \in 0..n
        BY <1>1, <2>2
    <3>2. PICK w : w = ow[m + 1].w
        OBVIOUS
    <3>3. w \in Workers /\ d[w] = taken[m + 1] /\ d[w] \in Nat
        BY <1>1, <1>9, <1>10, <3>1, <3>2, DebtOf
    <3>4. A[m + 1] = A[m] \cup {w}
      <4>1. \A i \in 1..(m + 1) : i \in 1..m \/ i = m + 1
          BY <3>1
      <4>2. (\A i \in 1..m : i \in 1..(m + 1)) /\ m + 1 \in 1..(m + 1)
          BY <3>1
      <4>3. A[m] = {ow[i].w : i \in 1..m} /\ A[m + 1] = {ow[i].w : i \in 1..(m + 1)}
          BY <1>12, <3>1
      <4>. QED
          BY <3>2, <4>1, <4>2, <4>3
    <3>5. w \notin A[m]
      <4> SUFFICES ASSUME w \in A[m] PROVE FALSE
          OBVIOUS
      <4>1. PICK i \in 1..m : w = ow[i].w
          BY <1>12, <3>1
      <4>2. i \in 1..Len(ow) /\ m + 1 \in 1..Len(ow) /\ i # m + 1
          BY <1>1, <3>1
      <4>. QED
          BY <3>2, <4>1, <4>2 DEF Owes
    <3>6. A[m] \subseteq Workers
      <4>1. \A i \in 1..m : i \in 1..Len(ow)
          BY <1>1, <3>1
      <4>. QED
          BY <1>12, <3>1, <4>1, DebtOf
    <3>7. IsFiniteSet(A[m]) /\ \A v \in A[m] : d[v] \in Int
      <4>1. IsFiniteSet(Workers)
          BY PplnsAssumption
      <4>. QED
          BY <1>10, <3>6, <4>1, FS_Subset
    <3>8. SumFunctionOnSet(d, A[m] \cup {w}) = d[w] + SumFunctionOnSet(d, A[m])
      <4>1. d[w] \in Int
          BY <3>3
      <4>. QED
          BY <3>5, <3>7, <4>1, SumAdd
    <3>9. SumFunctionOnSet(d, A[m]) = Upto(m)
        BY <1>1, <2>2, <3>1
    <3>10. PICK b \in Nat, u \in Nat : /\ b = B[m + 1] /\ u = ow[m + 1].units
                                       /\ B[(m + 1) + 1] = b + u
        BY <1>3, <3>1
    <3>11. d[w] = LET left_ == IF pot > b THEN pot - b ELSE 0
                  IN IF u <= left_ THEN u ELSE left_
        BY <1>5, <3>1, <3>3, <3>10
    <3>12. Upto(m) = (IF pot <= b THEN pot ELSE b)
           /\ Upto(m + 1) = IF pot <= b + u THEN pot ELSE b + u
        BY <3>10
    <3> HIDE DEF Upto
    <3>. QED
        BY <3>4, <3>8, <3>9, <3>10, <3>11, <3>12
  <2>3. P = Nat
    <3>1. P \in SUBSET Nat
        OBVIOUS
    <3> HIDE DEF P
    <3>. QED
        BY <2>1, <2>2, <3>1, NatSetInduction
  <2>. QED
      BY <1>1, <2>3
<1>14. SumFunctionOnSet(d, Workers) = SumFunctionOnSet(d, A[n])
  <2>1. A[n] = Creditors(ow) /\ A[n] \subseteq Workers
    <3>1. A[n] = Creditors(ow)
        BY <1>1, <1>12 DEF Creditors
    <3>. QED
        BY <3>1, DebtOf
  <2>2. PICK R : R = Workers \ A[n]
      OBVIOUS
  <2>3. A[n] \cup R = Workers /\ A[n] \cap R = {}
      BY <2>1, <2>2
  <2>4. IsFiniteSet(A[n]) /\ IsFiniteSet(R)
    <3>1. IsFiniteSet(Workers) /\ R \subseteq Workers
        BY <2>2, PplnsAssumption
    <3>. QED
        BY <2>1, <3>1, FS_Subset
  <2>5. \A w \in R : d[w] = 0
      BY <1>9, <2>1, <2>2
  <2>6. SumFunctionOnSet(d, R) = 0
    <3>1. {w \in R : d[w] = 1} = {} /\ \A w \in R : d[w] \in {0, 1}
        BY <2>5
    <3>2. SumFunctionOnSet(d, R) = Cardinality({w \in R : d[w] = 1})
        BY <2>4, <3>1, SumIndicator
    <3>. QED
        BY <3>1, <3>2, FS_EmptySet
  <2>7. \A w \in A[n] \cup R : d[w] \in Int
      BY <1>10, <2>3
  <2>8. SumFunctionOnSet(d, A[n] \cup R) = SumFunctionOnSet(d, A[n]) + SumFunctionOnSet(d, R)
      BY <2>3, <2>4, <2>7, SumUnion
  <2>9. PICK a \in Int : a = SumFunctionOnSet(d, A[n])
    <3>1. \A w \in A[n] : d[w] \in Int
        BY <2>7
    <3>. QED
        BY <2>4, <3>1, SumInt
  <2>10. SumFunctionOnSet(d, Workers) = SumFunctionOnSet(d, A[n] \cup R)
      BY <2>3
  <2>11. SumFunctionOnSet(d, A[n] \cup R) = a + 0
      BY <2>6, <2>8, <2>9
  <2>. QED
      BY <2>9, <2>10, <2>11
<1>. QED
    BY <1>3, <1>7, <1>10, <1>11, <1>13, <1>14 DEF SumFunction

\* A plan pays the debts it can and splits the rest; when the debts take the
\* whole pot there is nothing left to split.
LEMMA PlanIs ==
    ASSUME NEW pot \in Nat, Shape(led, top), now \in Nat, Owes(owed)
    PROVE  /\ Fresh_split(pot) \in [Workers -> Nat]
           /\ plan(pot) \in [Workers -> Nat]
           /\ \A w \in Workers : /\ plan(pot)[w] = take_owed(owed, pot)[w] + Fresh_split(pot)[w]
                                 /\ pot <= OwedTotal(owed) => Fresh_split(pot)[w] = 0
           /\ SumFunction(plan(pot)) <= pot
           /\ SumFunction(credit(led, now)) > 0 => SumFunction(plan(pot)) = pot
           /\ pot >= OwedTotal(owed) =>
                \A w \in Workers :
                   plan(pot)[w] >= OwedTo(owed, w)
                      + worker_pending_units(Monus(pot, OwedTotal(owed)), credit(led, now), w)
<1>1. PICK cr : cr = credit(led, now)
    OBVIOUS
<1>2. cr \in [Workers -> Nat]
    BY <1>1, CreditType
<1>3. PICK total \in Nat : total = OwedTotal(owed)
    BY TakesWhatThereIs
<1>0. PICK rest : rest = Monus(pot, total)
    OBVIOUS
<1>4. rest \in Nat /\ rest = Monus(pot, total) /\ rest = IF pot > total THEN pot - total ELSE 0
    BY <1>0, <1>3 DEF Monus
<1>5. PICK f : f = split_payout(rest, cr)
    OBVIOUS
<1>6. f = Fresh_split(pot)
    BY <1>1, <1>3, <1>4, <1>5 DEF Fresh_split
<1>7. /\ f \in [Workers -> Nat]
      /\ rest = 0 => f = Zero
      /\ SumFunction(f) = IF SumFunction(cr) > 0 THEN rest ELSE 0
      /\ \A w \in Workers : f[w] >= worker_pending_units(rest, cr, w)
    BY <1>2, <1>4, <1>5, SplitSpends
<1>8. PICK d : d = take_owed(owed, pot)
    OBVIOUS
<1>9. /\ d \in [Workers -> Nat]
      /\ pot >= total => \A w \in Workers : d[w] = OwedTo(owed, w)
      /\ SumFunction(d) = IF pot <= total THEN pot ELSE total
    BY <1>3, <1>8, TakesWhatThereIs
<1>10. PICK p : p = plan(pot)
    OBVIOUS
<1>11. p = [w \in Workers |-> d[w] + f[w]]
    BY <1>6, <1>8, <1>10 DEF plan
<1>12. \A w \in Workers : d[w] \in Nat /\ f[w] \in Nat /\ p[w] = d[w] + f[w]
    BY <1>7, <1>9, <1>11
<1>13. p \in [Workers -> Nat]
    BY <1>11, <1>12
<1>14. SumFunction(p) = SumFunction(d) + SumFunction(f)
  <2>1. DOMAIN p = Workers /\ DOMAIN d = Workers /\ DOMAIN f = Workers /\ IsFiniteSet(Workers)
      BY <1>7, <1>9, <1>13, PplnsAssumption
  <2>2. \A w \in Workers : d[w] \in Int /\ f[w] \in Int /\ p[w] = d[w] + f[w]
      BY <1>12
  <2>3. SumFunctionOnSet(p, Workers) = SumFunctionOnSet(d, Workers) + SumFunctionOnSet(f, Workers)
      BY <2>1, <2>2, SumPlus
  <2>. QED
      BY <2>1, <2>3 DEF SumFunction
<1>15. SumFunction(p) <= pot /\ (SumFunction(cr) > 0 => SumFunction(p) = pot)
  <2>1. PICK a : a = SumFunction(d)
      OBVIOUS
  <2>2. PICK b : b = SumFunction(f)
      OBVIOUS
  <2>3. a = IF pot <= total THEN pot ELSE total
      BY <1>9, <2>1
  <2>4. b = rest \/ (b = 0 /\ ~(SumFunction(cr) > 0))
      BY <1>7, <2>2
  <2>. QED
      BY <1>4, <1>14, <2>1, <2>2, <2>3, <2>4
<1>16. pot <= total => \A w \in Workers : f[w] = 0
    BY <1>4, <1>7 DEF Zero
<1>17. pot >= total => \A w \in Workers :
          p[w] >= OwedTo(owed, w) + worker_pending_units(rest, cr, w)
  <2> SUFFICES ASSUME pot >= total, NEW w \in Workers
               PROVE  p[w] >= OwedTo(owed, w) + worker_pending_units(rest, cr, w)
      OBVIOUS
  <2>1. PICK u : u = worker_pending_units(rest, cr, w)
      OBVIOUS
  <2>2. u \in Nat
    <3>1. SumFunction(cr) \in Nat
      <4>1. DOMAIN cr = Workers /\ IsFiniteSet(Workers) /\ \A v \in Workers : cr[v] \in Nat
          BY <1>2, PplnsAssumption
      <4>. QED
          BY <4>1, SumNat DEF SumFunction
    <3>2. CASE SumFunction(cr) = 0
        BY <2>1, <3>2 DEF worker_pending_units
    <3>3. CASE SumFunction(cr) # 0
      <4>1. PICK c \in Nat : c = rest * cr[w]
          BY <1>2, <1>4
      <4>2. PICK s \in Nat \ {0} : s = SumFunction(cr)
          BY <3>1, <3>3
      <4>3. c \div s \in Nat
          BY DivBelow
      <4>. QED
          BY <2>1, <4>1, <4>2, <4>3 DEF worker_pending_units
    <3>. QED
        BY <3>2, <3>3
  <2>3. d[w] = OwedTo(owed, w) /\ f[w] >= u /\ d[w] \in Nat /\ f[w] \in Nat /\ p[w] = d[w] + f[w]
      BY <1>7, <1>9, <1>12, <2>1
  <2>. QED
      BY <2>1, <2>2, <2>3
<1>. QED
    BY <1>1, <1>3, <1>4, <1>6, <1>7, <1>8, <1>10, <1>12, <1>13, <1>15, <1>16, <1>17

LEMMA LoweredIs ==
    ASSUME NEW ow, Owes(ow), NEW rows \in [Workers -> Nat]
    PROVE  /\ Owes(Lowered(ow, rows)) /\ Len(Lowered(ow, rows)) = Len(ow)
           /\ \A i \in 1..Len(ow) : /\ Lowered(ow, rows)[i].w = ow[i].w
                                    /\ Lowered(ow, rows)[i].units = Monus(ow[i].units, rows[ow[i].w])
<1>1. PICK n \in Nat : n = Len(ow)
    BY DebtOf
<1>2. PICK l : l = Lowered(ow, rows)
    OBVIOUS
<1>3. ASSUME NEW i \in 1..n
      PROVE  /\ l[i].w = ow[i].w /\ l[i].units = Monus(ow[i].units, rows[ow[i].w])
             /\ l[i] \in Debt
  <2>1. ow[i] \in Debt /\ ow[i].w \in Workers /\ ow[i].units \in Nat
      BY <1>1, DebtOf
  <2>2. PICK m \in Nat : m = Monus(ow[i].units, rows[ow[i].w])
      BY <2>1, MonusType
  <2>3. l[i] = [ow[i] EXCEPT !.units = m]
      BY <1>1, <1>2, <2>2 DEF Lowered
  <2>4. l[i] = [w |-> ow[i].w, units |-> m]
      BY <2>1, <2>3 DEF Debt
  <2>. QED
      BY <2>1, <2>2, <2>4 DEF Debt
<1>4. l \in Seq(Debt) /\ Len(l) = n
  <2>1. DOMAIN l = 1..n
      BY <1>1, <1>2 DEF Lowered
  <2>2. l = [i \in 1..n |-> l[i]]
      BY <1>1, <1>2 DEF Lowered
  <2>3. l \in [1..n -> Debt]
      BY <1>3, <2>2
  <2>4. l \in Seq(Debt)
      BY <1>1, <2>3, SeqDef
  <2>. QED
      BY <1>1, <2>1, <2>4, LenProperties
<1>5. \A i, j \in 1..n : l[i].w = l[j].w => i = j
    BY <1>1, <1>3 DEF Owes
<1>. QED
    BY <1>1, <1>2, <1>3, <1>4, <1>5 DEF Owes

\* deduct_owed takes from each debt what the row pays, and no more.
LEMMA DeductIs ==
    ASSUME NEW ow, Owes(ow), NEW rows \in [Workers -> Nat]
    PROVE  /\ Owes(deduct_owed(ow, rows))
           /\ \A w \in Workers : OwedTo(deduct_owed(ow, rows), w) = Monus(OwedTo(ow, w), rows[w])
<1>1. PICK l : l = Lowered(ow, rows)
    OBVIOUS
<1>2. PICK n \in Nat : n = Len(ow)
    BY DebtOf
<1>3. /\ Owes(l) /\ Len(l) = n /\ l \in Seq(Debt) /\ DOMAIN l = 1..n
      /\ \A i \in 1..n : l[i].w = ow[i].w /\ l[i].units = Monus(ow[i].units, rows[ow[i].w])
  <2>1. /\ Owes(l) /\ Len(l) = n
        /\ \A i \in 1..n : l[i].w = ow[i].w /\ l[i].units = Monus(ow[i].units, rows[ow[i].w])
      BY <1>1, <1>2, LoweredIs
  <2>. QED
      BY <2>1, DebtOf DEF Owes
<1>4. PICK K : K = {r \in Range(l) : r.units > 0}
    OBVIOUS
<1>5. PICK q : q = Filter(l, K)
    OBVIOUS
<1>6. q = deduct_owed(ow, rows)
    BY <1>1, <1>4, <1>5 DEF deduct_owed
<1>7. q \in Seq(Debt) /\ Range(q) = Range(l) \cap K /\ Subsequence(q, l)
    BY <1>3, <1>5, FilterType, FilterRange, FilterSubsequence
<1>8. PICK m \in Nat : m = Len(q) /\ DOMAIN q = 1..m
    BY <1>7, LenProperties
<1>9. PICK f : Picks(f, l, q)
    BY <1>7 DEF Subsequence
<1>10. Owes(q)
  <2>1. \A i \in 1..m : f[i] \in 1..n /\ q[i] = l[f[i]]
      BY <1>3, <1>8, <1>9 DEF Picks
  <2>2. \A i, j \in 1..m : i < j => f[i] < f[j]
      BY <1>8, <1>9 DEF Picks
  <2>3. ASSUME NEW i \in 1..m, NEW j \in 1..m, q[i].w = q[j].w PROVE i = j
    <3>1. f[i] = f[j]
        BY <1>3, <2>1, <2>3 DEF Owes
    <3>. QED
        BY <1>8, <2>1, <2>2, <3>1
  <2>. QED
      BY <1>7, <1>8, <2>3 DEF Owes
<1>11. ASSUME NEW w \in Workers PROVE OwedTo(q, w) = Monus(OwedTo(ow, w), rows[w])
  <2>1. CASE w \in Creditors(q)
    <3>1. PICK k \in 1..m : w = q[k].w
        BY <1>8, <2>1 DEF Creditors
    <3>2. q[k] \in Range(l)
        BY <1>7, <1>8, <3>1 DEF Range
    <3>3. PICK i \in 1..n : q[k] = l[i]
        BY <1>3, <3>2 DEF Range
    <3>4. ow[i].w = w /\ q[k].units = Monus(ow[i].units, rows[w])
        BY <1>3, <3>1, <3>3
    <3>5. OwedTo(ow, w) = ow[i].units
        BY <1>2, <3>4, OwedToIs
    <3>6. OwedTo(q, w) = q[k].units
        BY <1>8, <1>10, <3>1, OwedToIs
    <3>. QED
        BY <3>4, <3>5, <3>6
  <2>2. CASE w \notin Creditors(q)
    <3>1. OwedTo(q, w) = 0
        BY <1>10, <2>2, OwedToIs
    <3>2. CASE w \notin Creditors(ow)
      <4>1. OwedTo(ow, w) = 0
          BY <3>2, OwedToIs
      <4>2. rows[w] \in Nat
          OBVIOUS
      <4>. QED
          BY <3>1, <4>1, <4>2 DEF Monus
    <3>3. CASE w \in Creditors(ow)
      <4>1. PICK i \in 1..n : w = ow[i].w
          BY <1>2, <3>3 DEF Creditors
      <4>2. OwedTo(ow, w) = ow[i].units /\ l[i].w = w /\ l[i].units = Monus(OwedTo(ow, w), rows[w])
        <5>1. OwedTo(ow, w) = ow[i].units
            BY <1>2, <4>1, OwedToIs
        <5>. QED
            BY <1>3, <4>1, <5>1
      <4>3. l[i] \in Range(l)
          BY <1>3 DEF Range
      <4>4. l[i] \notin K
        <5> SUFFICES ASSUME l[i] \in K PROVE FALSE
            OBVIOUS
        <5>1. l[i] \in Range(q)
            BY <1>7, <4>3
        <5>2. PICK k \in 1..m : q[k] = l[i]
            BY <1>8, <5>1 DEF Range
        <5>. QED
            BY <1>8, <2>2, <4>2, <5>2 DEF Creditors
      <4>5. ~(l[i].units > 0)
          BY <1>4, <4>3, <4>4
      <4>6. l[i].units \in Nat
          BY <1>3, DebtOf
      <4>. QED
          BY <3>1, <4>2, <4>5, <4>6
    <3>. QED
        BY <3>2, <3>3
  <2>. QED
      BY <2>1, <2>2
<1>. QED
    BY <1>6, <1>10, <1>11

\* A finite set of numbers can be listed in order.
LEMMA OrderExists ==
    ASSUME NEW S \in SUBSET Nat, IsFiniteSet(S)
    PROVE  \E s \in [1..Cardinality(S) -> S] :
              \A i, j \in 1..Cardinality(S) : i < j => s[i] < s[j]
<1> DEFINE Listed(U) == \E s \in [1..Cardinality(U) -> U] :
                           \A i, j \in 1..Cardinality(U) : i < j => s[i] < s[j]
           P == {n \in Nat : \A U \in SUBSET Nat :
                               IsFiniteSet(U) /\ Cardinality(U) = n => Listed(U)}
<1>1. 0 \in P
  <2> SUFFICES ASSUME NEW U \in SUBSET Nat, IsFiniteSet(U), Cardinality(U) = 0 PROVE Listed(U)
      OBVIOUS
  <2>1. 1..Cardinality(U) = {}
      OBVIOUS
  <2>2. PICK s : s = [i \in 1..Cardinality(U) |-> i]
      OBVIOUS
  <2>3. s \in [1..Cardinality(U) -> U] /\ \A i, j \in 1..Cardinality(U) : i < j => s[i] < s[j]
      BY <2>1, <2>2
  <2>. QED
      BY <2>3
<1>2. ASSUME NEW n \in P PROVE n + 1 \in P
  <2> SUFFICES ASSUME NEW U \in SUBSET Nat, IsFiniteSet(U), Cardinality(U) = n + 1
               PROVE  Listed(U)
      BY <1>2
  <2>1. n \in Nat /\ U # {}
      BY <1>2, FS_EmptySet
  <2>2. PICK x \in U : \A y \in U : x <= y
      BY <2>1, LeastNumber
  <2>3. PICK V : V = U \ {x}
      OBVIOUS
  <2>4. V \in SUBSET Nat /\ IsFiniteSet(V) /\ Cardinality(V) = n
      BY <2>1, <2>2, <2>3, FS_RemoveElement
  <2>5. Listed(V)
      BY <1>2, <2>4
  <2>6. PICK t \in [1..n -> V] : \A i, j \in 1..n : i < j => t[i] < t[j]
      BY <2>4, <2>5
  <2>7. PICK s : s = [i \in 1..(n + 1) |-> IF i = 1 THEN x ELSE t[i - 1]]
      OBVIOUS
  <2>8. \A i \in 1..(n + 1) : i = 1 \/ i - 1 \in 1..n
      BY <2>1
  <2>9. \A i \in 1..n : t[i] \in V /\ t[i] \in U /\ x < t[i]
    <3> TAKE i \in 1..n
    <3>1. t[i] \in V
        BY <2>6
    <3>2. t[i] \in U /\ t[i] # x /\ x \in Nat /\ t[i] \in Nat
        BY <2>2, <2>3, <3>1
    <3>3. x <= t[i]
        BY <2>2, <3>2
    <3>. QED
        BY <3>1, <3>2, <3>3
  <2>10. s \in [1..(n + 1) -> U]
    <3>1. \A i \in 1..(n + 1) : s[i] \in U
        BY <2>2, <2>7, <2>8, <2>9
    <3>. QED
        BY <2>7, <3>1
  <2>11. ASSUME NEW i \in 1..(n + 1), NEW j \in 1..(n + 1), i < j PROVE s[i] < s[j]
    <3>1. j # 1 /\ j - 1 \in 1..n /\ s[j] = t[j - 1]
        BY <2>1, <2>7, <2>8, <2>11
    <3>2. CASE i = 1
      <4>1. s[i] = x
          BY <2>7, <3>2
      <4>. QED
          BY <2>9, <3>1, <4>1
    <3>3. CASE i # 1
      <4>1. i - 1 \in 1..n /\ s[i] = t[i - 1] /\ i - 1 < j - 1
          BY <2>1, <2>7, <2>8, <2>11, <3>3
      <4>. QED
          BY <2>6, <3>1, <4>1
    <3>. QED
        BY <3>2, <3>3
  <2>. QED
      BY <2>10, <2>11
<1>3. P = Nat
  <2>1. P \in SUBSET Nat
      OBVIOUS
  <2> HIDE DEF P
  <2>. QED
      BY <1>1, <1>2, <2>1, NatSetInduction
<1>4. Cardinality(S) \in Nat
    BY FS_CardinalityType
<1>. QED
    BY <1>3, <1>4

\* InOrder lists every element of the set once.
LEMMA InOrderLists ==
    ASSUME NEW S \in SUBSET Workers
    PROVE  /\ InOrder(S) \in Seq(S)
           /\ \A i, j \in 1..Len(InOrder(S)) : InOrder(S)[i] = InOrder(S)[j] => i = j
           /\ Range(InOrder(S)) = S
<1>1. PICK n : n = Cardinality(S)
    OBVIOUS
<1>2. S \in SUBSET Nat /\ IsFiniteSet(S) /\ n \in Nat
    BY <1>1, PplnsAssumption, FS_Subset, FS_CardinalityType
<1>3. PICK s : s = InOrder(S)
    OBVIOUS
<1>4. s \in [1..n -> S] /\ \A i, j \in 1..n : i < j => s[i] < s[j]
    BY <1>1, <1>2, <1>3, OrderExists DEF InOrder
<1>5. \A i, j \in 1..n : s[i] = s[j] => i = j
  <2>1. \A i \in 1..n : s[i] \in Nat
      BY <1>2, <1>4
  <2>. QED
      BY <1>2, <1>4, <2>1
<1>6. s \in Seq(S) /\ Len(s) = n /\ DOMAIN s = 1..n
  <2>1. s \in Seq(S)
      BY <1>2, <1>4, SeqDef
  <2>. QED
      BY <1>2, <1>4, <2>1, LenProperties
<1>7. Range(s) = S
  <2>1. s \in Injection(1..n, S)
      BY <1>4, <1>5 DEF Injection, IsInjective
  <2>2. Cardinality(1..n) = n
      BY <1>2, FS_Interval
  <2>3. s \in Surjection(1..n, S)
      BY <1>1, <1>2, <2>1, <2>2, FS_Injection
  <2>. QED
      BY <1>6, <2>3 DEF Surjection, Range
<1>. QED
    BY <1>3, <1>5, <1>6, <1>7

\* owe_rows adds each row to the debt of its worker.
LEMMA OweIs ==
    ASSUME NEW ow, Owes(ow), NEW rows \in [Workers -> Nat]
    PROVE  /\ Owes(owe_rows(ow, rows))
           /\ \A w \in Workers : OwedTo(owe_rows(ow, rows), w) = OwedTo(ow, w) + rows[w]
<1>1. PICK n \in Nat : n = Len(ow)
    BY DebtOf
<1>2. PICK N : N = {w \in Workers \ Creditors(ow) : rows[w] > 0}
    OBVIOUS
<1>3. PICK s : s = InOrder(N)
    OBVIOUS
<1>4. N \in SUBSET Workers
    BY <1>2
<1>5. /\ s \in Seq(N) /\ Range(s) = N
      /\ \A i, j \in 1..Len(s) : s[i] = s[j] => i = j
    BY <1>3, <1>4, InOrderLists
<1>6. PICK m \in Nat : m = Len(s) /\ DOMAIN s = 1..m
    BY <1>5, LenProperties
<1>7. \A j \in 1..m : s[j] \in N
    BY <1>5, <1>6, ElementOfSeq
<1>8. PICK a : a = [i \in 1..n |-> [ow[i] EXCEPT !.units = @ + rows[ow[i].w]]]
    OBVIOUS
<1>9. PICK b : b = [j \in 1..m |-> [w |-> s[j], units |-> rows[s[j]]]]
    OBVIOUS
<1>10. PICK r : r = owe_rows(ow, rows)
    OBVIOUS
<1>11. r = a \o b
    BY <1>1, <1>2, <1>3, <1>6, <1>8, <1>9, <1>10 DEF owe_rows, Creditors
<1>12. ASSUME NEW i \in 1..n
       PROVE  a[i] \in Debt /\ a[i].w = ow[i].w /\ a[i].units = ow[i].units + rows[ow[i].w]
  <2>1. ow[i] \in Debt /\ ow[i].w \in Workers /\ ow[i].units \in Nat
      BY <1>1, DebtOf
  <2>2. PICK u \in Nat : u = ow[i].units + rows[ow[i].w]
      BY <2>1
  <2>3. a[i] = [ow[i] EXCEPT !.units = u]
      BY <1>8, <2>2
  <2>4. a[i] = [w |-> ow[i].w, units |-> u]
      BY <2>1, <2>3 DEF Debt
  <2>. QED
      BY <2>1, <2>2, <2>4 DEF Debt
<1>13. ASSUME NEW j \in 1..m
       PROVE  b[j] \in Debt /\ b[j].w = s[j] /\ b[j].units = rows[s[j]]
  <2>1. s[j] \in Workers /\ rows[s[j]] \in Nat
      BY <1>4, <1>7
  <2>2. b[j] = [w |-> s[j], units |-> rows[s[j]]]
      BY <1>9
  <2>. QED
      BY <2>1, <2>2 DEF Debt
<1>14. a \in Seq(Debt) /\ Len(a) = n /\ b \in Seq(Debt) /\ Len(b) = m
  <2>1. a \in [1..n -> Debt] /\ b \in [1..m -> Debt]
      BY <1>8, <1>9, <1>12, <1>13
  <2>2. a \in Seq(Debt) /\ b \in Seq(Debt)
      BY <2>1, SeqDef
  <2>. QED
      BY <2>1, <2>2, LenProperties
<1>15. /\ r \in Seq(Debt) /\ Len(r) = n + m
       /\ \A i \in 1..(n + m) : r[i] = IF i <= n THEN a[i] ELSE b[i - n]
    BY <1>11, <1>14, ConcatProperties
<1>16. \A i \in 1..n : i \in 1..(n + m) /\ r[i] = a[i]
    BY <1>15
<1>17. \A i \in 1..(n + m) : i \in 1..n \/ (i - n \in 1..m /\ r[i] = b[i - n])
    BY <1>15
<1>18. \A j \in 1..m : n + j \in 1..(n + m) /\ r[n + j] = b[j]
  <2> TAKE j \in 1..m
  <2>1. n + j \in 1..(n + m) /\ ~(n + j <= n) /\ (n + j) - n = j
      OBVIOUS
  <2>. QED
      BY <1>15, <2>1
<1>19. Owes(r)
  <2>1. ASSUME NEW i \in 1..(n + m), NEW j \in 1..(n + m), r[i].w = r[j].w PROVE i = j
    <3>1. ASSUME NEW k \in 1..n, NEW l \in 1..m PROVE a[k].w # b[l].w
      <4>1. a[k].w \in Creditors(ow)
          BY <1>1, <1>12 DEF Creditors
      <4>2. b[l].w \notin Creditors(ow)
          BY <1>2, <1>7, <1>13
      <4>. QED
          BY <4>1, <4>2
    <3>2. CASE i \in 1..n /\ j \in 1..n
        BY <1>1, <1>12, <1>16, <2>1, <3>2 DEF Owes
    <3>3. CASE i \in 1..n /\ j \notin 1..n
        BY <1>16, <1>17, <2>1, <3>1, <3>3
    <3>4. CASE i \notin 1..n /\ j \in 1..n
        BY <1>16, <1>17, <2>1, <3>1, <3>4
    <3>5. CASE i \notin 1..n /\ j \notin 1..n
      <4>1. i - n \in 1..m /\ j - n \in 1..m /\ s[i - n] = s[j - n]
          BY <1>13, <1>17, <2>1, <3>5
      <4>2. i - n = j - n
          BY <1>5, <1>6, <4>1
      <4>. QED
          BY <4>2
    <3>. QED
        BY <3>2, <3>3, <3>4, <3>5
  <2>. QED
      BY <1>15, <2>1 DEF Owes
<1>20. ASSUME NEW w \in Workers PROVE OwedTo(r, w) = OwedTo(ow, w) + rows[w]
  <2>1. rows[w] \in Nat
      OBVIOUS
  <2>2. CASE w \in Creditors(ow)
    <3>1. PICK i \in 1..n : w = ow[i].w
        BY <1>1, <2>2 DEF Creditors
    <3>2. i \in 1..Len(r) /\ r[i].w = w /\ r[i].units = ow[i].units + rows[w]
        BY <1>12, <1>15, <1>16, <3>1
    <3>3. OwedTo(r, w) = r[i].units
        BY <1>19, <3>2, OwedToIs
    <3>4. OwedTo(ow, w) = ow[i].units
        BY <1>1, <3>1, OwedToIs
    <3>. QED
        BY <3>2, <3>3, <3>4
  <2>3. CASE w \in N
    <3>1. PICK j \in 1..m : w = s[j]
        BY <1>5, <1>6, <2>3 DEF Range
    <3>2. n + j \in 1..Len(r) /\ r[n + j].w = w /\ r[n + j].units = rows[w]
        BY <1>13, <1>15, <1>18, <3>1
    <3>3. OwedTo(r, w) = rows[w]
        BY <1>19, <3>2, OwedToIs
    <3>4. OwedTo(ow, w) = 0
        BY <1>2, <2>3, OwedToIs
    <3>. QED
        BY <2>1, <3>3, <3>4
  <2>4. CASE w \notin Creditors(ow) /\ w \notin N
    <3>1. rows[w] = 0
        BY <1>2, <2>1, <2>4
    <3>2. w \notin Creditors(r)
      <4> SUFFICES ASSUME w \in Creditors(r) PROVE FALSE
          OBVIOUS
      <4>1. PICK i \in 1..(n + m) : w = r[i].w
          BY <1>15 DEF Creditors
      <4>2. CASE i \in 1..n
          BY <1>1, <1>12, <1>16, <2>4, <4>1, <4>2 DEF Creditors
      <4>3. CASE i \notin 1..n
          BY <1>7, <1>13, <1>17, <2>4, <4>1, <4>3
      <4>. QED
          BY <4>2, <4>3
    <3>3. OwedTo(r, w) = 0 /\ OwedTo(ow, w) = 0
        BY <1>19, <2>4, <3>2, OwedToIs
    <3>. QED
        BY <3>1, <3>3
  <2>. QED
      BY <2>2, <2>3, <2>4
<1>. QED
    BY <1>10, <1>19, <1>20
-----------------------------------------------------------------------------
(* Every unit once.                                                        *)

\* What is kept and what is owed is what was promised.
Accounts ==
    /\ Owes(owed)
    /\ promised \in [Workers -> Nat] /\ kept \in [Workers -> Nat]
    /\ \A w \in Workers : kept[w] + OwedTo(owed, w) = promised[w]

LEMMA InitAccounts == Init => Accounts
<1> SUFFICES ASSUME Init PROVE Accounts
    OBVIOUS
<1>1. owed = <<>> /\ promised = Zero /\ kept = Zero
    BY DEF Init
<1>2. owed \in Seq(Debt) /\ Len(owed) = 0
    BY <1>1, EmptySeq
<1>3. Owes(owed) /\ Creditors(owed) = {}
    BY <1>2 DEF Owes, Creditors
<1>4. \A w \in Workers : OwedTo(owed, w) = 0
    BY <1>3, OwedToIs
<1>5. Zero \in [Workers -> Nat] /\ \A w \in Workers : Zero[w] = 0
    BY DEF Zero
<1>. QED
    BY <1>1, <1>3, <1>4, <1>5 DEF Accounts

LEMMA SettleKeepsAccounts ==
    ASSUME Ledgers, Accounts, NEW pot \in Pots, NEW recorded \in SUBSET Workers,
           NEW failed \in SUBSET Workers, Settle(pot, recorded, failed)
    PROVE  Accounts'
<1>1. pot \in Nat /\ Shape(led, top) /\ now \in Nat /\ Owes(owed)
    BY PplnsAssumption DEF Ledgers, Accounts
<1>2. PICK p : p = plan(pot)
    OBVIOUS
<1>3. PICK f : f = Fresh_split(pot)
    OBVIOUS
<1>4. PICK d : d = take_owed(owed, pot)
    OBVIOUS
<1>5. /\ f \in [Workers -> Nat] /\ p \in [Workers -> Nat]
      /\ \A w \in Workers : /\ p[w] = d[w] + f[w]
                            /\ pot <= OwedTotal(owed) => f[w] = 0
    BY <1>1, <1>2, <1>3, <1>4, PlanIs
<1>6. /\ d \in [Workers -> Nat] /\ OwedTotal(owed) \in Nat
      /\ \A w \in Workers : d[w] <= OwedTo(owed, w)
      /\ pot >= OwedTotal(owed) => \A w \in Workers : d[w] = OwedTo(owed, w)
    BY <1>1, <1>4, TakesWhatThereIs
<1>7. PICK back : back = [w \in Workers |-> IF w \in failed THEN p[w] ELSE 0]
    OBVIOUS
<1>8. PICK stay : stay = [w \in Workers |-> IF w \in recorded \ failed THEN p[w] ELSE 0]
    OBVIOUS
<1>9. PICK q, less : /\ q = [w \in Workers |-> IF w \in recorded THEN p[w] ELSE 0]
                     /\ less = deduct_owed(owed, q)
    OBVIOUS
<1>10. /\ owed' = owe_rows(less, back)
       /\ promised' = [w \in Workers |-> promised[w] + IF w \in recorded THEN f[w] ELSE 0]
       /\ kept' = [w \in Workers |-> kept[w] + stay[w]]
       /\ failed \subseteq recorded
    BY <1>2, <1>3, <1>7, <1>8, <1>9 DEF Settle
<1>11. /\ back \in [Workers -> Nat] /\ q \in [Workers -> Nat]
       /\ \A w \in Workers : back[w] \in Nat /\ stay[w] \in Nat
    BY <1>5, <1>7, <1>8, <1>9
<1>12. Owes(less) /\ \A w \in Workers : OwedTo(less, w) = Monus(OwedTo(owed, w), q[w])
    BY <1>1, <1>9, <1>11, DeductIs
<1>13. PICK more : more = owe_rows(less, back)
    OBVIOUS
<1>14. Owes(more) /\ \A w \in Workers : OwedTo(more, w) = OwedTo(less, w) + back[w]
    BY <1>11, <1>12, <1>13, OweIs
<1>15. Owes(owed)' /\ \A w \in Workers : OwedTo(owed, w)' = OwedTo(more, w)
    BY <1>10, <1>13, <1>14
<1>16. ASSUME NEW w \in Workers
       PROVE  /\ promised'[w] \in Nat /\ kept'[w] \in Nat
              /\ kept'[w] + OwedTo(more, w) = promised'[w]
  <2>1. PICK o \in Nat : o = OwedTo(owed, w)
      BY <1>1, OwedToIs
  <2>2. /\ kept[w] \in Nat /\ promised[w] \in Nat /\ kept[w] + o = promised[w]
      BY <2>1 DEF Accounts
  <2>3. d[w] \in Nat /\ f[w] \in Nat /\ p[w] = d[w] + f[w] /\ d[w] <= o
      BY <1>5, <1>6, <2>1
  <2>4. Monus(o, p[w]) = o - d[w]
    <3>1. CASE pot <= OwedTotal(owed)
      <4>1. f[w] = 0
          BY <1>5, <3>1
      <4>. QED
          BY <2>3, <4>1 DEF Monus
    <3>2. CASE pot >= OwedTotal(owed)
      <4>1. d[w] = o
          BY <1>6, <2>1, <3>2
      <4>. QED
          BY <2>3, <4>1 DEF Monus
    <3>. QED
        BY <1>1, <1>6, <3>1, <3>2
  <2>5. CASE w \in recorded
    <3>1. OwedTo(more, w) = (o - d[w]) + back[w]
      <4>1. q[w] = p[w]
          BY <1>9, <2>5
      <4>. QED
          BY <1>12, <1>14, <2>1, <2>4, <4>1
    <3>2. back[w] + stay[w] = p[w] /\ back[w] \in Nat /\ stay[w] \in Nat
        BY <1>7, <1>8, <1>11, <2>3, <2>5
    <3>3. promised'[w] = promised[w] + f[w] /\ kept'[w] = kept[w] + stay[w]
        BY <1>10, <2>5
    <3>. QED
        BY <2>2, <2>3, <3>1, <3>2, <3>3
  <2>6. CASE w \notin recorded
    <3>1. q[w] = 0 /\ back[w] = 0 /\ stay[w] = 0
        BY <1>7, <1>8, <1>9, <1>10, <2>6
    <3>2. OwedTo(more, w) = o
      <4>1. Monus(o, 0) = o
          BY DEF Monus
      <4>. QED
          BY <1>12, <1>14, <2>1, <3>1, <4>1
    <3>3. promised'[w] = promised[w] + 0 /\ kept'[w] = kept[w] + 0
        BY <1>10, <2>6, <3>1
    <3>. QED
        BY <2>1, <2>2, <3>2, <3>3
  <2>. QED
      BY <2>5, <2>6
<1>17. promised' \in [Workers -> Nat] /\ kept' \in [Workers -> Nat]
    BY <1>10, <1>16
<1>. QED
    BY <1>15, <1>16, <1>17 DEF Accounts

LEMMA NextAccounts == Ledgers /\ Accounts /\ [Next]_vars => Accounts'
<1> SUFFICES ASSUME Ledgers, Accounts, [Next]_vars PROVE Accounts'
    OBVIOUS
<1>1. ASSUME UNCHANGED <<owed, promised, kept>> PROVE Accounts'
    BY <1>1 DEF Accounts
<1>2. ASSUME NEW w \in Workers, Share(w) PROVE Accounts'
    BY <1>1, <1>2 DEF Share
<1>3. CASE Save
    BY <1>1, <1>3 DEF Save
<1>4. CASE Tick
    BY <1>1, <1>4 DEF Tick
<1>5. CASE StepBack
    BY <1>1, <1>5 DEF StepBack
<1>6. ASSUME NEW h \in Horizons, Restart(h) PROVE Accounts'
    BY <1>1, <1>6 DEF Restart
<1>7. ASSUME NEW pot \in Pots, NEW recorded \in SUBSET Workers, NEW failed \in SUBSET Workers,
             Settle(pot, recorded, failed)
      PROVE  Accounts'
    BY <1>7, SettleKeepsAccounts
<1>8. CASE UNCHANGED vars
    BY <1>1, <1>8 DEF vars
<1>. QED
    BY <1>2, <1>3, <1>4, <1>5, <1>6, <1>7, <1>8 DEF Next

\* The ledgers and the accounts together.
LEMMA PplnsInvariant == Spec => [](Ledgers /\ Accounts)
BY InitLedgers, NextLedgers, InitAccounts, NextAccounts, PTL DEF Spec

\* What was split in recorded chunks is kept or owed, once, and a debt stays while
\* the chunk that would pay it is not recorded, for every number of workers, pot
\* and choice of the chunks that are not recorded or fail (take_owed, deduct_owed,
\* owe_rows, settle_once).
THEOREM UnitsCountOnce == Spec => []EveryUnitOnce
<1>1. Accounts => EveryUnitOnce
    BY DEF Accounts, EveryUnitOnce
<1>. QED
    BY <1>1, PplnsInvariant, PTL

\* The plan of any pot spends it exactly when there is credit to split over,
\* never more, pays debts first and pays nobody less than /earnings promised
\* (split_payout with its largest remainders, take_owed).
THEOREM PlansAreSound == Spec => []PlanSound
<1>1. Ledgers /\ Accounts => PlanSound
  <2> SUFFICES ASSUME Ledgers, Accounts, NEW pot \in Pots
               PROVE  /\ SumFunction(plan(pot)) <= pot
                      /\ SumFunction(credit(led, now)) > 0 => SumFunction(plan(pot)) = pot
                      /\ pot >= OwedTotal(owed) =>
                           \A w \in Workers :
                              plan(pot)[w] >= OwedTo(owed, w)
                                + worker_pending_units(Monus(pot, OwedTotal(owed)),
                                                       credit(led, now), w)
      BY DEF PlanSound
  <2>1. pot \in Nat /\ Shape(led, top) /\ now \in Nat /\ Owes(owed)
      BY PplnsAssumption DEF Ledgers, Accounts
  <2>. QED
      BY <2>1, PlanIs
<1>. QED
    BY <1>1, PplnsInvariant, PTL
-----------------------------------------------------------------------------
(* Credit as a sum along the window and along the bank.                    *)

RowOf(rows, w) == IF w \in DOMAIN rows THEN rows[w] ELSE 0
BankVals(bs, w, t, h) ==
    [i \in 1..Len(bs) |-> IF Fresh(bs[i], t, h) THEN RowOf(bs[i].rows, w) ELSE 0]
OrderVals(order, w, t, h) ==
    [i \in 1..Len(order) |-> IF order[i].w = w THEN Earned(order[i].at, t, h) ELSE 0]

LEMMA RowOfType ==
    ASSUME NEW rows \in Rows, NEW w
    PROVE  RowOf(rows, w) \in Nat
<1>1. PICK S \in SUBSET Workers : rows \in [S -> Nat]
    BY DEF Rows
<1>. QED
    BY <1>1 DEF RowOf

LEMMA BankValsType ==
    ASSUME NEW bs \in Seq(Bucket), NEW w, NEW t, NEW h
    PROVE  /\ BankVals(bs, w, t, h) \in Seq(Nat) /\ Len(BankVals(bs, w, t, h)) = Len(bs)
           /\ \A i \in 1..Len(bs) : /\ BankVals(bs, w, t, h)[i] \in Nat
                 /\ BankVals(bs, w, t, h)[i]
                      = IF Fresh(bs[i], t, h) THEN RowOf(bs[i].rows, w) ELSE 0
<1>1. PICK n \in Nat : n = Len(bs) /\ \A i \in 1..n : bs[i].rows \in Rows
    BY BucketOf
<1>2. PICK v : v = BankVals(bs, w, t, h)
    OBVIOUS
<1>3. v = [i \in 1..n |-> IF Fresh(bs[i], t, h) THEN RowOf(bs[i].rows, w) ELSE 0]
    BY <1>1, <1>2 DEF BankVals
<1>4. \A i \in 1..n : v[i] \in Nat
    BY <1>1, <1>3, RowOfType
<1>5. v \in [1..n -> Nat]
    BY <1>3, <1>4
<1>6. v \in Seq(Nat) /\ Len(v) = n
  <2>1. v \in Seq(Nat)
      BY <1>5, SeqDef
  <2>. QED
      BY <1>5, <2>1, LenProperties
<1>. QED
    BY <1>1, <1>2, <1>3, <1>4, <1>6

LEMMA OrderValsType ==
    ASSUME NEW order \in Seq(Entry), NEW w, NEW t \in Nat, NEW h \in Nat
    PROVE  /\ OrderVals(order, w, t, h) \in Seq(Nat)
           /\ Len(OrderVals(order, w, t, h)) = Len(order)
           /\ \A i \in 1..Len(order) : /\ OrderVals(order, w, t, h)[i] \in Nat
                 /\ OrderVals(order, w, t, h)[i]
                      = IF order[i].w = w THEN Earned(order[i].at, t, h) ELSE 0
<1>1. PICK n \in Nat : n = Len(order) /\ \A i \in 1..n : order[i].at \in Nat
    BY EntryOf
<1>2. PICK v : v = OrderVals(order, w, t, h)
    OBVIOUS
<1>3. v = [i \in 1..n |-> IF order[i].w = w THEN Earned(order[i].at, t, h) ELSE 0]
    BY <1>1, <1>2 DEF OrderVals
<1>4. \A i \in 1..n : v[i] \in Nat
    BY <1>1, <1>3, EarnedType
<1>5. v \in [1..n -> Nat]
    BY <1>3, <1>4
<1>6. v \in Seq(Nat) /\ Len(v) = n
  <2>1. v \in Seq(Nat)
      BY <1>5, SeqDef
  <2>. QED
      BY <1>5, <2>1, LenProperties
<1>. QED
    BY <1>1, <1>2, <1>3, <1>4, <1>6

LEMMA BankedIs ==
    ASSUME NEW L, L.banked \in Seq(Bucket), NEW w, NEW t
    PROVE  BankedOf(L, w, t) = Total(BankVals(L.banked, w, t, L.horizon))
<1>1. PICK bs : bs = L.banked
    OBVIOUS
<1>2. PICK h : h = L.horizon
    OBVIOUS
<1>3. PICK n \in Nat : n = Len(bs)
    BY <1>1, BucketOf
<1>4. PICK A : A = {i \in 1..n : Fresh(bs[i], t, h) /\ w \in DOMAIN bs[i].rows}
    OBVIOUS
<1>5. PICK f : f = [i \in A |-> bs[i].rows[w]]
    OBVIOUS
<1>6. BankedOf(L, w, t) = SumFunctionOnSet(f, A)
  <2>1. DOMAIN f = A
      BY <1>5
  <2>2. BankedOf(L, w, t) = SumFunction(f)
      BY <1>1, <1>2, <1>3, <1>4, <1>5 DEF BankedOf
  <2>. QED
      BY <2>1, <2>2 DEF SumFunction
<1>7. PICK v : v = BankVals(bs, w, t, h)
    OBVIOUS
<1>8. Len(v) = n /\ \A i \in 1..n : v[i] \in Nat
                       /\ v[i] = IF Fresh(bs[i], t, h) THEN RowOf(bs[i].rows, w) ELSE 0
  <2>1. bs \in Seq(Bucket)
      BY <1>1
  <2>2. Len(v) = Len(bs) /\ \A i \in 1..Len(bs) : v[i] \in Nat
                       /\ v[i] = IF Fresh(bs[i], t, h) THEN RowOf(bs[i].rows, w) ELSE 0
      BY <1>7, <2>1, BankValsType
  <2>. QED
      BY <1>3, <2>2
<1>9. \A i \in 1..n : v[i] = IF i \in A THEN f[i] ELSE 0
    BY <1>4, <1>5, <1>8 DEF RowOf
<1>10. \A i \in A : f[i] \in Int
    BY <1>4, <1>8, <1>9
<1>11. IsFiniteSet(1..n) /\ A \in SUBSET (1..n)
    BY <1>4, IntervalUp
<1>12. SumFunctionOnSet(f, A) = SumFunctionOnSet(v, 1..n)
  <2>1. PICK D : D = 1..n
      OBVIOUS
  <2>2. /\ IsFiniteSet(D) /\ A \in SUBSET D
        /\ \A i \in D : v[i] = (IF i \in A THEN f[i] ELSE 0)
      BY <1>9, <1>11, <2>1
  <2>3. SumFunctionOnSet(f, A) = SumFunctionOnSet(v, D)
      BY <1>10, <2>2, SumPart
  <2>. QED
      BY <2>1, <2>3
<1>. QED
    BY <1>1, <1>2, <1>6, <1>7, <1>8, <1>12 DEF Total

LEMMA StandingIs ==
    ASSUME NEW L, L.order \in Seq(Entry), L.horizon \in Nat, NEW w, NEW t \in Nat
    PROVE  StandingOf(L, w, t) = Total(OrderVals(L.order, w, t, L.horizon))
<1>1. PICK q : q = L.order
    OBVIOUS
<1>2. PICK h : h = L.horizon
    OBVIOUS
<1>3. PICK n \in Nat : n = Len(q)
    BY <1>1, EntryOf
<1>4. PICK A : A = {i \in 1..n : q[i].w = w}
    OBVIOUS
<1>5. PICK f : f = [i \in A |-> Earned(q[i].at, t, h)]
    OBVIOUS
<1>6. StandingOf(L, w, t) = SumFunctionOnSet(f, A)
  <2>1. DOMAIN f = A
      BY <1>5
  <2>2. StandingOf(L, w, t) = SumFunction(f)
      BY <1>1, <1>2, <1>3, <1>4, <1>5 DEF StandingOf
  <2>. QED
      BY <2>1, <2>2 DEF SumFunction
<1>7. PICK v : v = OrderVals(q, w, t, h)
    OBVIOUS
<1>8. Len(v) = n /\ \A i \in 1..n : v[i] \in Nat
                       /\ v[i] = IF q[i].w = w THEN Earned(q[i].at, t, h) ELSE 0
    BY <1>1, <1>2, <1>3, <1>7, OrderValsType
<1>9. \A i \in 1..n : v[i] = IF i \in A THEN f[i] ELSE 0
    BY <1>4, <1>5, <1>8
<1>10. \A i \in A : f[i] \in Int
    BY <1>4, <1>8, <1>9
<1>11. IsFiniteSet(1..n) /\ A \in SUBSET (1..n)
    BY <1>4, IntervalUp
<1>12. SumFunctionOnSet(f, A) = SumFunctionOnSet(v, 1..n)
  <2>1. PICK D : D = 1..n
      OBVIOUS
  <2>2. /\ IsFiniteSet(D) /\ A \in SUBSET D
        /\ \A i \in D : v[i] = (IF i \in A THEN f[i] ELSE 0)
      BY <1>9, <1>11, <2>1
  <2>3. SumFunctionOnSet(f, A) = SumFunctionOnSet(v, D)
      BY <1>10, <2>2, SumPart
  <2>. QED
      BY <2>1, <2>3
<1>. QED
    BY <1>1, <1>2, <1>6, <1>7, <1>8, <1>12 DEF Total

\* One bucket more.
LEMMA BankTotalAppend ==
    ASSUME NEW bs \in Seq(Bucket), NEW b \in Bucket, NEW w, NEW t, NEW h
    PROVE  Total(BankVals(Append(bs, b), w, t, h))
             = Total(BankVals(bs, w, t, h)) + (IF Fresh(b, t, h) THEN RowOf(b.rows, w) ELSE 0)
<1>1. PICK n \in Nat : n = Len(bs)
    BY BucketOf
<1>2. PICK cs : cs = Append(bs, b)
    OBVIOUS
<1>3. cs \in Seq(Bucket) /\ Len(cs) = n + 1 /\ cs[n + 1] = b /\ \A i \in 1..n : cs[i] = bs[i]
    BY <1>1, <1>2, AppendProperties
<1>4. PICK x : x = IF Fresh(b, t, h) THEN RowOf(b.rows, w) ELSE 0
    OBVIOUS
<1>5. PICK v : v = BankVals(bs, w, t, h)
    OBVIOUS
<1>6. PICK u : u = BankVals(cs, w, t, h)
    OBVIOUS
<1>7. /\ v \in Seq(Nat) /\ Len(v) = n
      /\ \A i \in 1..n : v[i] = IF Fresh(bs[i], t, h) THEN RowOf(bs[i].rows, w) ELSE 0
    BY <1>1, <1>5, BankValsType
<1>8. /\ u \in Seq(Nat) /\ Len(u) = n + 1
      /\ \A i \in 1..(n + 1) : /\ u[i] \in Nat
            /\ u[i] = IF Fresh(cs[i], t, h) THEN RowOf(cs[i].rows, w) ELSE 0
    BY <1>3, <1>6, BankValsType, SMTT(30)
<1>9. u[n + 1] = x /\ x \in Nat
  <2>1. n + 1 \in 1..(n + 1)
      OBVIOUS
  <2>. QED
      BY <1>3, <1>4, <1>8, <2>1
<1>10. u = Append(v, x)
  <2>1. PICK a : a = Append(v, x)
      OBVIOUS
  <2>2. a \in Seq(Nat) /\ Len(a) = n + 1 /\ a[n + 1] = x /\ \A i \in 1..n : a[i] = v[i]
      BY <1>7, <1>9, <2>1, AppendProperties
  <2>3. \A i \in 1..(n + 1) : i \in 1..n \/ i = n + 1
      OBVIOUS
  <2>4. \A i \in 1..n : i \in 1..(n + 1)
      OBVIOUS
  <2>5. \A i \in 1..(n + 1) : u[i] = a[i]
      BY <1>3, <1>7, <1>8, <1>9, <2>2, <2>3, <2>4, ZenonT(60)
  <2>. QED
      BY <1>8, <2>1, <2>2, <2>5, SeqEqual
<1>11. Total(u) = Total(v) + x
    BY <1>7, <1>9, <1>10, TotalAppend
<1>. QED
    BY <1>2, <1>4, <1>5, <1>6, <1>11, ZenonT(30)

LEMMA AddedRow ==
    ASSUME NEW rows \in Rows, NEW more \in Rows, NEW w
    PROVE  RowOf(AddRows(rows, more), w) = RowOf(rows, w) + RowOf(more, w)
<1>1. RowOf(rows, w) \in Nat /\ RowOf(more, w) \in Nat
    BY RowOfType
<1>2. DOMAIN AddRows(rows, more) = DOMAIN rows \cup DOMAIN more
    BY DEF AddRows
<1>3. w \in DOMAIN rows \cup DOMAIN more =>
        AddRows(rows, more)[w] = RowOf(rows, w) + RowOf(more, w)
    BY DEF AddRows, RowOf
<1>4. w \notin DOMAIN rows \cup DOMAIN more => RowOf(rows, w) = 0 /\ RowOf(more, w) = 0
    BY DEF RowOf
<1>5. RowOf(AddRows(rows, more), w)
        = IF w \in DOMAIN rows \cup DOMAIN more THEN AddRows(rows, more)[w] ELSE 0
    BY <1>2 DEF RowOf
<1>. QED
    BY <1>1, <1>3, <1>4, <1>5

\* Rows folded into the newest bucket.
LEMMA BankTotalFold ==
    ASSUME NEW bs \in Seq(Bucket), bs # <<>>, NEW more \in Rows, NEW w, NEW t, NEW h
    PROVE  Total(BankVals([bs EXCEPT ![Len(bs)].rows = AddRows(@, more)], w, t, h))
             = Total(BankVals(bs, w, t, h))
                 + (IF Fresh(Last(bs), t, h) THEN RowOf(more, w) ELSE 0)
<1>1. PICK f \in Seq(Bucket), l \in Bucket : bs = Append(f, l)
    BY SequenceEmptyOrAppend
<1>2. PICK n \in Nat : n = Len(f)
    BY BucketOf
<1>3. /\ Len(bs) = n + 1 /\ bs[n + 1] = l /\ DOMAIN bs = 1..(n + 1)
      /\ \A i \in 1..n : bs[i] = f[i]
    BY <1>1, <1>2, AppendProperties, BucketOf
<1>4. PICK rows : rows = AddRows(l.rows, more)
    OBVIOUS
<1>5. l.rows \in Rows /\ l.bucket \in Nat
    BY DEF Bucket
<1>6. rows \in Rows /\ RowOf(rows, w) = RowOf(l.rows, w) + RowOf(more, w)
    BY <1>4, <1>5, AddRowsType, AddedRow
<1>7. PICK e : e = [bucket |-> l.bucket, rows |-> rows]
    OBVIOUS
<1>8. e \in Bucket /\ e.bucket = l.bucket /\ e.rows = rows
    BY <1>5, <1>6, <1>7 DEF Bucket
<1>9. [bs EXCEPT ![Len(bs)].rows = AddRows(@, more)] = Append(f, e)
  <2>1. PICK cs : cs = [bs EXCEPT ![Len(bs)].rows = AddRows(@, more)]
      OBVIOUS
  <2>2. PICK ds : ds = Append(f, e)
      OBVIOUS
  <2>3. ds \in Seq(Bucket) /\ Len(ds) = n + 1 /\ ds[n + 1] = e /\ \A i \in 1..n : ds[i] = f[i]
      BY <1>2, <1>8, <2>2, AppendProperties
  <2>4. cs = [bs EXCEPT ![n + 1] = [l EXCEPT !.rows = rows]]
      BY <1>3, <1>4, <2>1
  <2>5. [l EXCEPT !.rows = rows] = e
      BY <1>7, SMTT(30) DEF Bucket
  <2>6. cs = [bs EXCEPT ![n + 1] = e] /\ n + 1 \in 1..Len(bs)
    <3>1. PICK x : x = [l EXCEPT !.rows = rows]
        OBVIOUS
    <3>2. cs = [bs EXCEPT ![n + 1] = x]
        BY <2>4, <3>1
    <3>3. x = e
        BY <2>5, <3>1
    <3>4. n + 1 \in 1..Len(bs)
        BY <1>3
    <3>. QED
        BY <3>2, <3>3, <3>4
  <2>7. /\ cs \in Seq(Bucket) /\ Len(cs) = n + 1
        /\ \A i \in 1..(n + 1) : cs[i] = IF i = n + 1 THEN e ELSE bs[i]
      BY <1>3, <1>8, <2>6, ExceptSeq
  <2>8. \A i \in 1..(n + 1) : i \in 1..n \/ i = n + 1
      OBVIOUS
  <2>9. \A i \in 1..(n + 1) : cs[i] = ds[i]
      BY <1>3, <2>3, <2>7, <2>8
  <2>10. cs = ds
      BY <2>3, <2>7, <2>9, SeqEqual
  <2>. QED
      BY <2>1, <2>2, <2>10
<1>10. PICK z \in Nat : z = Total(BankVals(f, w, t, h))
    BY BankValsType, TotalAppend
<1>11. Total(BankVals(bs, w, t, h)) = z + (IF Fresh(l, t, h) THEN RowOf(l.rows, w) ELSE 0)
    BY <1>1, <1>10, BankTotalAppend
<1>12. Total(BankVals(Append(f, e), w, t, h)) = z + (IF Fresh(e, t, h) THEN RowOf(e.rows, w) ELSE 0)
    BY <1>8, <1>10, BankTotalAppend
<1>13. (Fresh(e, t, h) <=> Fresh(l, t, h)) /\ Last(bs) = l
    BY <1>3, <1>8 DEF Fresh, Last
<1>14. PICK a \in Nat, b \in Nat : a = RowOf(l.rows, w) /\ b = RowOf(more, w)
    BY <1>5, RowOfType
<1>15. Total(BankVals(bs, w, t, h)) = z + (IF Fresh(l, t, h) THEN a ELSE 0)
    BY <1>11, <1>14
<1>16. Total(BankVals(Append(f, e), w, t, h)) = z + (IF Fresh(l, t, h) THEN a + b ELSE 0)
    BY <1>6, <1>8, <1>12, <1>13, <1>14
<1>17. Total(BankVals(Append(f, e), w, t, h))
         = Total(BankVals(bs, w, t, h)) + (IF Fresh(Last(bs), t, h) THEN b ELSE 0)
    BY <1>13, <1>15, <1>16
<1>. QED
    BY <1>9, <1>14, <1>17

\* What expires was not counted.
LEMMA BankTotalExpire ==
    ASSUME NEW bs \in Seq(Bucket), NEW w, NEW t, NEW h
    PROVE  Total(BankVals(expire_banked(bs, t, h), w, t, h)) = Total(BankVals(bs, w, t, h))
<1>1. PICK n \in Nat : n = Len(bs) /\ \A i \in 1..n : bs[i] \in Bucket
    BY BucketOf
<1>2. PICK alive : alive = {i \in 1..n : Fresh(bs[i], t, h)}
    OBVIOUS
<1>3. PICK v : v = BankVals(bs, w, t, h)
    OBVIOUS
<1>4. /\ v \in Seq(Nat) /\ Len(v) = n
      /\ \A i \in 1..n : v[i] = IF Fresh(bs[i], t, h) THEN RowOf(bs[i].rows, w) ELSE 0
    BY <1>1, <1>3, BankValsType
<1>5. PICK cs : cs = expire_banked(bs, t, h)
    OBVIOUS
<1>6. PICK u : u = BankVals(cs, w, t, h)
    OBVIOUS
<1>7. CASE alive = {}
  <2>1. cs \in Seq(Bucket) /\ Len(cs) = 0
    <3>1. cs = <<>>
        BY <1>1, <1>2, <1>5, <1>7 DEF expire_banked
    <3>. QED
        BY <3>1, EmptySeq
  <2>2. PICK r \in Nat : r = 0
      OBVIOUS
  <2>3. u \in Seq(Nat) /\ Len(u) = r
    <3>1. BankVals(cs, w, t, h) \in Seq(Nat) /\ Len(BankVals(cs, w, t, h)) = Len(cs)
      <4>1. cs \in Seq(Bucket)
          BY <2>1
      <4>. QED
          BY ONLY <4>1, BankValsType
    <3>. QED
        BY <1>6, <2>1, <2>2, <3>1
  <2>4. \A i \in 1..n : v[i] = 0
      BY <1>2, <1>4, <1>7
  <2>5. v \in Seq(Nat) /\ Len(v) = n + r /\ \A i \in 1..r : u[i] = v[n + i]
      BY <1>1, <1>4, <2>2
  <2>6. n \in Nat
      BY <1>1
  <2>7. Total(u) = Total(v)
      BY <2>3, <2>4, <2>5, <2>6, TotalDrop
  <2>. QED
      BY <1>3, <1>5, <1>6, <2>7
<1>8. CASE alive # {}
  <2>1. PICK m \in alive : \A y \in alive : m <= y
    <3>1. alive \in SUBSET Nat
        BY <1>1, <1>2
    <3>. QED
        BY <1>8, <3>1, LeastNumber
  <2>2. m \in 1..n /\ \A x \in alive : (\A y \in alive : x <= y) => x = m
      BY <1>2, <2>1
  <2>3. Min(alive) = m
      BY <2>1, <2>2 DEF Min
  <2>4. cs = SubSeq(bs, m, n)
      BY <1>1, <1>2, <1>5, <1>8, <2>3 DEF expire_banked
  <2>5. cs \in Seq(Bucket) /\ Len(cs) = n - m + 1 /\ \A i \in 1..(n - m + 1) : cs[i] = bs[m + i - 1]
    <3>1. \A i \in m..n : bs[i] \in Bucket
        BY <1>1, <2>2
    <3>2. /\ SubSeq(bs, m, n) \in Seq(Bucket)
          /\ Len(SubSeq(bs, m, n)) = IF m <= n THEN n - m + 1 ELSE 0
          /\ \A i \in 1..(n - m + 1) : SubSeq(bs, m, n)[i] = bs[m + i - 1]
        BY <1>1, <2>2, <3>1, SubSeqProperties
    <3>. QED
        BY <1>1, <2>2, <2>4, <3>2
  <2>13. m - 1 \in Nat /\ n - m + 1 \in Nat
      BY <1>1, <2>2
  <2>6. PICK k \in Nat, r \in Nat : k = m - 1 /\ r = n - m + 1
      BY <2>13
  <2>7. /\ u \in Seq(Nat) /\ Len(u) = r
        /\ \A i \in 1..r : u[i] = IF Fresh(cs[i], t, h) THEN RowOf(cs[i].rows, w) ELSE 0
      BY <1>6, <2>5, <2>6, BankValsType
  <2>8. \A i \in 1..r : k + i \in 1..n /\ cs[i] = bs[k + i]
    <3> TAKE i \in 1..r
    <3>1. i \in 1..(n - m + 1) /\ m + i - 1 = k + i /\ k + i \in 1..n
        BY <1>1, <2>2, <2>6
    <3>. QED
        BY <2>5, <3>1
  <2>9. \A i \in 1..r : u[i] = v[k + i]
      BY <1>4, <2>7, <2>8
  <2>10. \A i \in 1..k : v[i] = 0
    <3> TAKE i \in 1..k
    <3>1. i \in 1..n /\ ~(m <= i)
        BY <1>1, <2>2, <2>6
    <3>2. i \notin alive
        BY <2>1, <3>1
    <3>. QED
        BY <1>2, <1>4, <3>1, <3>2
  <2>11. Len(v) = k + r
      BY <1>1, <1>4, <2>2, <2>6
  <2>12. Total(u) = Total(v)
    <3>1. v \in Seq(Nat) /\ u \in Seq(Nat) /\ Len(u) = r
        BY <1>4, <2>7
    <3>2. k \in Nat /\ r \in Nat
        OBVIOUS
    <3>. QED
        BY <2>9, <2>10, <2>11, <3>1, <3>2, TotalDrop, ZenonT(60)
  <2>. QED
      BY <1>3, <1>5, <1>6, <2>12
<1>. QED
    BY <1>7, <1>8

\* A bucket that is not before the present one has not expired.
LEMMA PresentIsFresh ==
    ASSUME NEW t \in Nat, NEW h \in Nat \ {0}, NEW b, b.bucket \in Nat,
           t \div BucketMs(h) <= b.bucket
    PROVE  Fresh(b, t, h)
<1>1. PICK m \in Nat \ {0} : m = BucketMs(h) /\ m <= h
  <2>1. h \div BankBuckets \in Nat /\ h \div BankBuckets <= h
    <3>1. PICK c \in Nat : c = h \div BankBuckets /\ c * BankBuckets <= h
        BY PplnsAssumption, DivBelow
    <3>2. BankBuckets \in Nat \ {0}
        BY PplnsAssumption
    <3>3. c <= c * BankBuckets
        BY <3>1, <3>2
    <3>. QED
        BY <3>1, <3>2, <3>3
  <2>2. BucketMs(h) = IF 1 >= h \div BankBuckets THEN 1 ELSE h \div BankBuckets
      BY <2>1, MaxOfTwo DEF BucketMs
  <2>. QED
      BY <2>1, <2>2
<1>2. PICK q \in Nat : q = t \div m /\ q * m <= t /\ t < q * m + m
    BY <1>1, DivBelow
<1>3. PICK k \in Nat : k = b.bucket /\ q <= k
    BY <1>1, <1>2
<1>4. PICK x \in Nat, y \in Nat : x = q * m /\ y = k * m
    BY <1>1, <1>2, <1>3
<1>5. x <= y
    BY <1>1, <1>2, <1>3, <1>4
<1>6. Monus(t, y) <= h
    BY <1>1, <1>2, <1>4, <1>5 DEF Monus
<1>. QED
    BY <1>1, <1>3, <1>4, <1>6 DEF Fresh

\* What bank adds, it adds to the credit of that worker.
LEMMA BankTotal ==
    ASSUME Cardinality(Workers) <= BankWorkersMax,
           NEW h \in Nat \ {0}, NEW cs, NEW T \in Nat, Bank(cs, h, T),
           NEW L, L.banked = cs, L.horizon = h,
           NEW w \in Workers, NEW ms \in Nat, NEW t \in Nat, NEW v
    PROVE  /\ v = w => Total(BankVals(bank(L, w, ms, t), v, t, h))
                          = Total(BankVals(cs, v, t, h)) + ms
           /\ v # w => Total(BankVals(bank(L, w, ms, t), v, t, h)) = Total(BankVals(cs, v, t, h))
<1>1. h = L.horizon
    OBVIOUS
<1>2. cs = L.banked
    OBVIOUS
<1>3. h \in Nat \ {0} /\ cs \in Seq(Bucket) /\ Bank(cs, h, T)
    BY DEF Bank
<1>4. PICK z \in Nat : z = Total(BankVals(cs, v, t, h))
    BY <1>3, BankValsType, TotalAppend
<1>5. CASE ms = 0
  <2>1. bank(L, w, ms, t) = cs
      BY <1>2, <1>5 DEF bank
  <2>. QED
      BY <1>1, <1>2, <1>4, <1>5, <2>1
<1>6. CASE ms # 0
  <2>1. PICK b \in Nat : b = t \div BucketMs(h)
      BY <1>3, BucketMsType, DivBelow
  <2>2. PICK new : new = [bucket |-> b, rows |-> <<>>]
      OBVIOUS
  <2>3. new \in Bucket /\ new.bucket = b /\ RowOf(new.rows, v) = 0
      BY <2>2, NoRows DEF Bucket, RowOf
  <2>4. PICK bs : bs = IF Opens(cs, b) THEN Append(cs, new) ELSE cs
      OBVIOUS
  <2>5. /\ bs \in Seq(Bucket) /\ bs # <<>> /\ Last(bs) \in Bucket /\ b <= Last(bs).bucket
        /\ Total(BankVals(bs, v, t, h)) = z
    <3>1. CASE Opens(cs, b)
      <4>1. bs = Append(cs, new)
          BY <2>4, <3>1
      <4>2. /\ bs \in Seq(Bucket) /\ bs # <<>>
            /\ Len(bs) = Len(cs) + 1 /\ bs[Len(cs) + 1] = new
          BY <1>3, <2>3, <4>1, AppendProperties
      <4>3. Last(bs) = new
          BY <4>2 DEF Last
      <4>4. Total(BankVals(bs, v, t, h)) = z + (IF Fresh(new, t, h) THEN 0 ELSE 0)
          BY <1>3, <1>4, <2>3, <4>1, BankTotalAppend
      <4>. QED
          BY <1>4, <2>3, <4>2, <4>3, <4>4
    <3>2. CASE ~Opens(cs, b)
      <4>1. bs = cs /\ cs # <<>> /\ ~(b > Last(cs).bucket)
          BY <2>4, <3>2 DEF Opens
      <4>2. Len(cs) \in 1..Len(cs)
          BY <1>3, <4>1, BucketOf
      <4>3. Last(cs) \in Bucket /\ Last(cs).bucket \in Nat
          BY <1>3, <4>2, BucketOf DEF Last
      <4>. QED
          BY <1>3, <1>4, <4>1, <4>3
    <3>. QED
        BY <3>1, <3>2
  <2>6. PICK more : more = [x \in {w} |-> ms]
      OBVIOUS
  <2>7. more \in Rows /\ RowOf(more, v) = IF v = w THEN ms ELSE 0
    <3>1. more \in [{w} -> Nat] /\ {w} \in SUBSET Workers
        BY <2>6
    <3>. QED
        BY <2>6, <3>1 DEF Rows, RowOf
  <2>8. AddRow(Last(bs).rows, w, ms) = AddRows(Last(bs).rows, more)
    <3>1. Last(bs).rows \in Rows
        BY <2>5 DEF Bucket
    <3>2. PICK D : D = DOMAIN Last(bs).rows
        OBVIOUS
    <3>3. D \in SUBSET Workers
      <4>1. PICK S \in SUBSET Workers : Last(bs).rows \in [S -> Nat]
          BY <3>1 DEF Rows
      <4>. QED
          BY <3>2, <4>1
    <3>4. w \in D \/ Cardinality(D) < BankWorkersMax
      <4> SUFFICES ASSUME w \notin D PROVE Cardinality(D) < BankWorkersMax
          OBVIOUS
      <4>1. /\ IsFiniteSet(D) /\ Cardinality(D) <= Cardinality(Workers)
            /\ Cardinality(D) # Cardinality(Workers)
          BY <3>3, PplnsAssumption, FS_Subset
      <4>2. Cardinality(D) \in Nat /\ Cardinality(Workers) \in Nat /\ BankWorkersMax \in Nat
          BY <4>1, PplnsAssumption, FS_CardinalityType
      <4>. QED
          BY <4>1, <4>2
    <3>. QED
        BY <2>6, <3>2, <3>4 DEF AddRow
  <2>9. bank(L, w, ms, t) = [bs EXCEPT ![Len(bs)].rows = AddRows(@, more)]
    <3>1. bank(L, w, ms, t) = [bs EXCEPT ![Len(bs)].rows = AddRow(@, w, ms)]
        BY <1>1, <1>2, <1>6, <2>1, <2>2, <2>4 DEF bank
    <3>2. bs[Len(bs)] = Last(bs)
        BY DEF Last
    <3>. QED
        BY <2>8, <3>1, <3>2
  <2>10. Fresh(Last(bs), t, h)
    <3>1. Last(bs).bucket \in Nat
        BY <2>5 DEF Bucket
    <3>. QED
        BY <1>3, <2>1, <2>5, <3>1, PresentIsFresh
  <2>11. Total(BankVals([bs EXCEPT ![Len(bs)].rows = AddRows(@, more)], v, t, h))
           = z + (IF v = w THEN ms ELSE 0)
      BY <2>5, <2>7, <2>10, BankTotalFold
  <2>. QED
      BY <1>1, <1>2, <1>4, <2>9, <2>11
<1>. QED
    BY <1>5, <1>6

\* A share that has just come has earned nothing.
LEMMA OrderTotalAppend ==
    ASSUME NEW order \in Seq(Entry), NEW e \in Entry, NEW t \in Nat, e.at = t,
           NEW h \in Nat, NEW w
    PROVE  Total(OrderVals(Append(order, e), w, t, h)) = Total(OrderVals(order, w, t, h))
<1>1. PICK n \in Nat : n = Len(order)
    BY EntryOf
<1>2. PICK cs : cs = Append(order, e)
    OBVIOUS
<1>3. cs \in Seq(Entry) /\ Len(cs) = n + 1 /\ cs[n + 1] = e /\ \A i \in 1..n : cs[i] = order[i]
    BY <1>1, <1>2, AppendProperties
<1>4. PICK v : v = OrderVals(order, w, t, h)
    OBVIOUS
<1>5. PICK u : u = OrderVals(cs, w, t, h)
    OBVIOUS
<1>6. /\ v \in Seq(Nat) /\ Len(v) = n
      /\ \A i \in 1..n : v[i] = IF order[i].w = w THEN Earned(order[i].at, t, h) ELSE 0
    BY <1>1, <1>4, OrderValsType
<1>7. /\ u \in Seq(Nat) /\ Len(u) = n + 1
      /\ \A i \in 1..(n + 1) : u[i] = IF cs[i].w = w THEN Earned(cs[i].at, t, h) ELSE 0
    BY <1>3, <1>5, OrderValsType
<1>8. Earned(t, t, h) = 0
  <2>1. Monus(t, t) = 0
      BY DEF Monus
  <2>2. Min({0, h}) = 0
      BY MinOfTwo
  <2>. QED
      BY <2>1, <2>2 DEF Earned
<1>9. u[n + 1] = 0
  <2>1. n + 1 \in 1..(n + 1)
      OBVIOUS
  <2>. QED
      BY <1>3, <1>7, <1>8, <2>1
<1>10. u = Append(v, 0)
  <2>1. PICK a : a = Append(v, 0)
      OBVIOUS
  <2>2. a \in Seq(Nat) /\ Len(a) = n + 1 /\ a[n + 1] = 0 /\ \A i \in 1..n : a[i] = v[i]
      BY <1>6, <2>1, AppendProperties
  <2>3. \A i \in 1..(n + 1) : i \in 1..n \/ i = n + 1
      OBVIOUS
  <2>4. \A i \in 1..n : i \in 1..(n + 1)
      OBVIOUS
  <2>5. \A i \in 1..(n + 1) : u[i] = a[i]
      BY <1>3, <1>6, <1>7, <1>9, <2>2, <2>3, <2>4, ZenonT(60)
  <2>. QED
      BY <1>7, <2>1, <2>2, <2>5, SeqEqual
<1>. QED
    BY <1>2, <1>4, <1>5, <1>6, <1>10, TotalAppend

\* What the oldest share had earned leaves with it.
LEMMA OrderTotalTail ==
    ASSUME NEW order \in Seq(Entry), order # <<>>, NEW t \in Nat, NEW h \in Nat, NEW w
    PROVE  /\ Tail(order) \in Seq(Entry)
           /\ Total(OrderVals(Tail(order), w, t, h)) \in Nat
           /\ Total(OrderVals(order, w, t, h))
                = Total(OrderVals(Tail(order), w, t, h))
                    + (IF order[1].w = w THEN Earned(order[1].at, t, h) ELSE 0)
<1>1. PICK n \in Nat : n + 1 = Len(order)
  <2>1. Len(order) \in Nat /\ Len(order) # 0
      BY LenProperties, EmptySeq
  <2>. QED
      BY <2>1
<1>2. PICK cs : cs = Tail(order)
    OBVIOUS
<1>3. cs \in Seq(Entry) /\ Len(cs) = n /\ \A i \in 1..n : cs[i] = order[i + 1]
    BY <1>1, <1>2, HeadTailProperties
<1>4. PICK v : v = OrderVals(order, w, t, h)
    OBVIOUS
<1>5. PICK u : u = OrderVals(cs, w, t, h)
    OBVIOUS
<1>6. /\ v \in Seq(Nat) /\ Len(v) = n + 1
      /\ \A i \in 1..(n + 1) : v[i] \in Nat
           /\ v[i] = IF order[i].w = w THEN Earned(order[i].at, t, h) ELSE 0
    BY <1>1, <1>4, OrderValsType
<1>7. /\ u \in Seq(Nat) /\ Len(u) = n
      /\ \A i \in 1..n : u[i] = IF cs[i].w = w THEN Earned(cs[i].at, t, h) ELSE 0
  <2>1. cs \in Seq(Entry) /\ Len(cs) = n
      BY <1>3
  <2>. QED
      BY <1>5, <2>1, OrderValsType, SMTT(30)
<1>8. u = Tail(v)
  <2>1. PICK a : a = Tail(v)
      OBVIOUS
  <2>2. v # <<>>
      BY <1>6, EmptySeq
  <2>3. a \in Seq(Nat) /\ Len(a) = n /\ \A i \in 1..n : a[i] = v[i + 1]
      BY <1>6, <2>1, <2>2, HeadTailProperties
  <2>4. \A i \in 1..n : i + 1 \in 1..(n + 1)
      OBVIOUS
  <2>5. \A i \in 1..n : u[i] = a[i]
      BY <1>3, <1>6, <1>7, <2>3, <2>4, ZenonT(60)
  <2>. QED
      BY <1>7, <2>1, <2>3, <2>5, SeqEqual
<1>9. v # <<>> /\ 1 \in 1..(n + 1)
    BY <1>6, EmptySeq
<1>10. Total(v) = v[1] + Total(u) /\ Total(u) \in Nat
    BY <1>6, <1>8, <1>9, TotalTail
<1>. QED
    BY <1>2, <1>3, <1>4, <1>5, <1>6, <1>9, <1>10

\* A share changes nobody's credit at the moment it is accepted.
LEMMA RecordKeepsCredit ==
    ASSUME Cardinality(Workers) <= BankWorkersMax,
           NEW L, NEW T \in Nat, Shape(L, T), NEW w \in Workers, NEW t \in Nat, t <= T
    PROVE  credit(record(L, w, t), t) = credit(L, t)
<1>1. PICK h \in Nat \ {0} : h = L.horizon
    BY DEF Shape
<1>2. PICK q \in Seq(Entry) : q = L.order
    BY DEF Shape
<1>3. PICK e : e = [w |-> w, at |-> t]
    OBVIOUS
<1>4. e \in Entry /\ e.at = t
    BY <1>3 DEF Entry
<1>5. PICK q1 : q1 = Append(q, e)
    OBVIOUS
<1>6. PICK n \in Nat : n = Len(q)
    BY EntryOf
<1>7. /\ q1 \in Seq(Entry) /\ q1 # <<>> /\ Len(q1) = n + 1
      /\ \A i \in 1..n : q1[i] = q[i]
    BY <1>4, <1>5, <1>6, AppendProperties
<1>8. PICK full : full = (n = Window)
    OBVIOUS
<1>9. PICK bs : bs = IF full THEN Evicted(L, t) ELSE L.banked
    OBVIOUS
<1>10. PICK R : R = record(L, w, t)
    OBVIOUS
<1>11. /\ R.order = IF full THEN Tail(q1) ELSE q1
       /\ R.banked = expire_banked(bs, t, h) /\ R.horizon = h
  <2>1. L = [order |-> L.order, counts |-> L.counts, banked |-> L.banked, horizon |-> L.horizon]
      BY DEF Shape
  <2>2. PICK c : c = IF full THEN [[L.counts EXCEPT ![w] = @ + 1] EXCEPT ![L.order[1].w] = @ - 1]
                     ELSE [L.counts EXCEPT ![w] = @ + 1]
      OBVIOUS
  <2>3. R = [L EXCEPT !.order = IF full THEN Tail(q1) ELSE q1, !.counts = c,
                      !.banked = expire_banked(bs, t, h)]
      BY <1>1, <1>2, <1>3, <1>5, <1>6, <1>8, <1>9, <1>10, <2>2 DEF record
  <2>. QED
      BY <1>1, <2>1, <2>3
<1>12. L.banked \in Seq(Bucket) /\ Bank(L.banked, h, T)
    BY <1>1 DEF Shape, Bank
<1>13. full => q[1].w \in Workers /\ q[1].at \in Nat /\ Earned(q[1].at, t, h) \in Nat
               /\ q1[1] = q[1]
  <2> SUFFICES ASSUME full PROVE q[1].w \in Workers /\ q[1].at \in Nat
               /\ Earned(q[1].at, t, h) \in Nat /\ q1[1] = q[1]
      OBVIOUS
  <2>1. 1 \in 1..n
    <3>1. n = Window /\ Window \in Nat \ {0}
        BY <1>8, PplnsAssumption
    <3>. QED
        BY <3>1
  <2>2. q[1].w \in Workers /\ q[1].at \in Nat
      BY <1>6, <2>1, EntryOf
  <2>. QED
      BY <1>7, <2>1, <2>2, EarnedType
<1>14. bs \in Seq(Bucket)
  <2>1. CASE full
    <3>1. PICK m \in Nat : m = Earned(q[1].at, t, h)
        BY <1>13, <2>1
    <3>2. bs = bank(L, q[1].w, m, t)
        BY <1>1, <1>2, <1>9, <2>1, <3>1 DEF Evicted
    <3>3. Bank(L.banked, L.horizon, T) /\ L.horizon \in Nat /\ q[1].w \in Workers
        BY <1>1, <1>12, <1>13, <2>1
    <3>4. Bank(bs, L.horizon, T)
        BY <3>2, <3>3, BankIsBank
    <3>. QED
        BY <3>4 DEF Bank
  <2>. QED
      BY <1>9, <1>12, <2>1
<1>15. ASSUME NEW v \in Workers
       PROVE  BankedOf(R, v, t) + StandingOf(R, v, t) = BankedOf(L, v, t) + StandingOf(L, v, t)
  <2>1. PICK lost \in Nat : lost = IF full THEN (IF q[1].w = v THEN Earned(q[1].at, t, h) ELSE 0) ELSE 0
      BY <1>13
  <2>2. PICK s \in Nat : s = Total(OrderVals(q, v, t, h))
      BY OrderValsType, TotalAppend
  <2>3. PICK z \in Nat : z = Total(BankVals(L.banked, v, t, h))
      BY <1>12, BankValsType, TotalAppend
  <2>4. StandingOf(L, v, t) = s /\ BankedOf(L, v, t) = z
    <3>1. StandingOf(L, v, t) = Total(OrderVals(L.order, v, t, L.horizon))
        BY <1>1, <1>2, StandingIs
    <3>2. BankedOf(L, v, t) = Total(BankVals(L.banked, v, t, L.horizon))
        BY <1>12, BankedIs
    <3>. QED
        BY <1>1, <1>2, <2>2, <2>3, <3>1, <3>2
  <2>5. Total(OrderVals(q1, v, t, h)) = s
      BY <1>4, <1>5, <2>2, OrderTotalAppend
  <2>6. /\ R.order \in Seq(Entry) /\ Total(OrderVals(R.order, v, t, h)) \in Nat
        /\ s = Total(OrderVals(R.order, v, t, h)) + lost
    <3>1. CASE full
      <4>1. R.order = Tail(q1)
          BY <1>11, <3>1
      <4>2. /\ Tail(q1) \in Seq(Entry) /\ Total(OrderVals(Tail(q1), v, t, h)) \in Nat
            /\ Total(OrderVals(q1, v, t, h))
                 = Total(OrderVals(Tail(q1), v, t, h))
                     + (IF q1[1].w = v THEN Earned(q1[1].at, t, h) ELSE 0)
          BY <1>7, OrderTotalTail
      <4>. QED
          BY <1>13, <2>1, <2>5, <3>1, <4>1, <4>2
    <3>2. CASE ~full
      <4>1. R.order = q1 /\ lost = 0
          BY <1>11, <2>1, <3>2
      <4>. QED
          BY <1>7, <2>2, <2>5, <4>1
    <3>. QED
        BY <3>1, <3>2
  <2>7. Total(BankVals(bs, v, t, h)) = z + lost
    <3>1. CASE full
      <4>1. PICK m \in Nat : m = Earned(q[1].at, t, h)
          BY <1>13, <3>1
      <4>2. bs = bank(L, q[1].w, m, t)
          BY <1>1, <1>2, <1>9, <3>1, <4>1 DEF Evicted
      <4>3. q[1].w \in Workers
          BY <1>13, <3>1
      <4>4. Total(BankVals(bank(L, q[1].w, m, t), v, t, L.horizon))
              = Total(BankVals(L.banked, v, t, L.horizon)) + (IF v = q[1].w THEN m ELSE 0)
        <5>1. PICK cs : cs = L.banked
            OBVIOUS
        <5>2. Bank(cs, h, T) /\ L.banked = cs /\ L.horizon = h
            BY <1>1, <1>12, <5>1
        <5>3. PICK x \in Workers : x = q[1].w
            BY <4>3
        <5>4. PICK c : c = bank(L, x, m, t)
            OBVIOUS
        <5>5. /\ v = x => Total(BankVals(c, v, t, h)) = Total(BankVals(cs, v, t, h)) + m
              /\ v # x => Total(BankVals(c, v, t, h)) = Total(BankVals(cs, v, t, h))
            BY <5>2, <5>4, BankTotal
        <5>6. Total(BankVals(c, v, t, h)) = z + (IF v = x THEN m ELSE 0)
            BY <2>3, <5>1, <5>5
        <5>. QED
            BY <1>1, <2>3, <5>3, <5>4, <5>6
      <4>. QED
          BY <1>1, <2>1, <2>3, <3>1, <4>1, <4>2, <4>4
    <3>2. CASE ~full
        BY <1>9, <2>1, <2>3, <3>2
    <3>. QED
        BY <3>1, <3>2
  <2>8. Total(BankVals(R.banked, v, t, h)) = z + lost
      BY <1>11, <1>14, <2>7, BankTotalExpire
  <2>9. StandingOf(R, v, t) = Total(OrderVals(R.order, v, t, h))
      BY <1>11, <2>6, StandingIs
  <2>10. BankedOf(R, v, t) = Total(BankVals(R.banked, v, t, h))
    <3>1. Shape(R, T)
        BY <1>10, RecordKeepsShape
    <3>2. R.banked \in Seq(Bucket)
        BY <3>1 DEF Shape, Bank
    <3>. QED
        BY <1>11, <3>2, BankedIs
  <2>11. PICK r \in Nat : r = Total(OrderVals(R.order, v, t, h))
      BY <2>6
  <2>. QED
      BY <2>4, <2>6, <2>8, <2>9, <2>10, <2>11
<1>. QED
    BY <1>10, <1>15 DEF credit

\* A burst erases nothing: a share that is accepted changes nobody's credit at
\* that moment, also when it evicts another, while there are no more workers
\* than a bucket of the bank has rows for (record, bank, expire_banked).
THEOREM BurstsEraseNothing ==
    ASSUME Cardinality(Workers) <= BankWorkersMax
    PROVE  Spec => BurstErasesNothing
<1>1. Ledgers => ((\E w \in Workers : led' = record(led, w, now)) /\ now' = now
                    => credit(led', now) = credit(led, now))
  <2> SUFFICES ASSUME Ledgers, NEW w \in Workers, led' = record(led, w, now)
               PROVE  credit(led', now) = credit(led, now)
      OBVIOUS
  <2>1. Shape(led, top) /\ now \in Nat /\ top \in Nat /\ now <= top
      BY DEF Ledgers
  <2>2. credit(record(led, w, now), now) = credit(led, now)
      BY <2>1, RecordKeepsCredit
  <2>. QED
      BY <2>2
<1>. QED
    BY <1>1, PplnsInvariant, PTL DEF BurstErasesNothing
-----------------------------------------------------------------------------
(* Restarts.                                                               *)

LEMMA DivExact ==
    ASSUME NEW b \in Nat, NEW m \in Nat \ {0}
    PROVE  (b * m) \div m = b
<1>1. PICK c \in Nat : c = b * m
    OBVIOUS
<1>2. PICK q \in Nat : q = c \div m /\ q * m <= c /\ c < q * m + m
    BY <1>1, DivBelow
<1>3. ~(q < b)
  <2> SUFFICES ASSUME q + 1 <= b PROVE FALSE
      BY <1>2
  <2>1. (q + 1) * m <= b * m
      BY <1>2
  <2>2. (q + 1) * m = q * m + m
      BY <1>2
  <2>. QED
      BY <1>1, <1>2, <2>1, <2>2
<1>4. ~(b < q)
  <2> SUFFICES ASSUME b + 1 <= q PROVE FALSE
      BY <1>2
  <2>1. (b + 1) * m <= q * m
      BY <1>2
  <2>2. (b + 1) * m = b * m + m
      OBVIOUS
  <2>. QED
      BY <1>1, <1>2, <2>1, <2>2
<1>. QED
    BY <1>1, <1>2, <1>3, <1>4

\* With the interval it was stored with, the bank is read back as it was.
LEMMA RefillSame ==
    ASSUME NEW L, NEW T \in Nat, Shape(L, T), Fitting(L)
    PROVE  Refill(L.horizon, banked_snapshot(L)) = L.banked
<1>1. PICK h \in Nat \ {0} : h = L.horizon
    BY DEF Shape
<1>2. PICK bs \in Seq(Bucket) : bs = L.banked
    BY DEF Shape, Bank
<1>3. Bank(bs, h, T)
    BY <1>1, <1>2 DEF Shape
<1>4. PICK N \in Nat : N = Len(bs) /\ \A i \in 1..N : /\ bs[i] \in Bucket /\ bs[i].bucket \in Nat
                                                     /\ bs[i].rows \in Rows
    BY BucketOf
<1>5. PICK ss : ss = banked_snapshot(L)
    OBVIOUS
<1>6. PICK m \in Nat \ {0} : m = BucketMs(h)
    BY <1>1, BucketMsType
<1>7. ss = [i \in 1..N |-> [at |-> bs[i].bucket * m, rows |-> bs[i].rows]]
    BY <1>1, <1>2, <1>4, <1>5, <1>6 DEF banked_snapshot, Stamp
<1>8. Len(ss) = N /\ Stored(ss, T)
  <2>1. Len(ss) = N
      BY <1>7
  <2>. QED
      BY <1>5, <2>1, SnapshotIsStored
<1>9. PICK f : /\ f[0] = <<>>
               /\ \A n \in 1..N : f[n] = Refilled(h, f[n - 1], ss[n])
               /\ Refill(h, ss) = f[N]
    BY <1>8, RefillUnfold, ZenonT(60)
<1> DEFINE P == {n \in Nat : n <= N => /\ f[n] \in Seq(Bucket) /\ Len(f[n]) = n
                                       /\ \A i \in 1..n : f[n][i] = bs[i]}
<1>10. 0 \in P
  <2>1. f[0] \in Seq(Bucket) /\ Len(f[0]) = 0
      BY <1>9, EmptySeq
  <2>. QED
      BY <2>1
<1>11. ASSUME NEW n \in P PROVE n + 1 \in P
  <2> SUFFICES ASSUME n + 1 <= N
               PROVE  /\ f[n + 1] \in Seq(Bucket) /\ Len(f[n + 1]) = n + 1
                      /\ \A i \in 1..(n + 1) : f[n + 1][i] = bs[i]
      OBVIOUS
  <2>1. PICK g, s, k : g = f[n] /\ s = ss[n + 1] /\ k = bs[n + 1]
      OBVIOUS
  <2>2. n \in Nat /\ n + 1 \in 1..N /\ (n + 1) - 1 = n
      BY <1>4
  <2>3. g \in Seq(Bucket) /\ Len(g) = n /\ \A i \in 1..n : g[i] = bs[i]
      BY <1>4, <2>1
  <2>4. k \in Bucket /\ k.bucket \in Nat /\ s = [at |-> k.bucket * m, rows |-> k.rows]
      BY <1>4, <1>7, <2>1, <2>2
  <2>5. s.at \div BucketMs(h) = k.bucket
    <3>1. PICK b \in Nat : b = k.bucket
        BY <2>4
    <3>2. s.at = b * m
        BY <2>4, <3>1
    <3>3. (b * m) \div m = b
        BY DivExact
    <3>. QED
        BY <1>6, <3>1, <3>2, <3>3
  <2>6. ~(g # <<>> /\ k.bucket <= Last(g).bucket)
    <3> SUFFICES ASSUME g # <<>>, k.bucket <= Last(g).bucket PROVE FALSE
        OBVIOUS
    <3>1. n # 0
        BY <2>3, EmptySeq
    <3>2. n \in 1..N /\ n \in 1..n
        BY <1>4, <2>2, <3>1
    <3>3. Last(g) = bs[n]
        BY <2>3, <3>2 DEF Last
    <3>4. bs[n].bucket < bs[n + 1].bucket
        BY <1>3, <1>4, <2>2, <3>2 DEF Bank, Ordered
    <3>5. bs[n].bucket \in Nat
        BY <1>4, <3>2
    <3>. QED
        BY <2>1, <2>4, <3>3, <3>4, <3>5
  <2>7. f[n + 1] = Append(g, k)
    <3>1. f[n + 1] = Refilled(h, g, s)
        BY <1>9, <2>1, <2>2
    <3>2. s.rows = k.rows /\ FirstRows(s.rows) = k.rows
      <4>1. Cardinality(DOMAIN k.rows) <= BankWorkersMax
          BY <1>2, <1>4, <2>1, <2>2 DEF Fitting
      <4>2. k.rows \in Rows
          BY <1>4, <2>1, <2>2
      <4>. QED
          BY <2>4, <4>1, <4>2, FirstRowsAll
    <3>3. Refilled(h, g, s) = Append(g, [bucket |-> k.bucket, rows |-> k.rows])
        BY <2>5, <2>6, <3>2 DEF Refilled
    <3>4. k = [bucket |-> k.bucket, rows |-> k.rows]
        BY <2>4 DEF Bucket
    <3>. QED
        BY <3>1, <3>3, <3>4
  <2>8. PICK a : a = Append(g, k)
      OBVIOUS
  <2>9. a \in Seq(Bucket) /\ Len(a) = n + 1 /\ a[n + 1] = k /\ \A i \in 1..n : a[i] = g[i]
      BY <2>3, <2>4, <2>8, AppendProperties
  <2>10. \A i \in 1..(n + 1) : i \in 1..n \/ i = n + 1
      BY <2>2
  <2>11. \A i \in 1..(n + 1) : a[i] = bs[i]
      BY <2>1, <2>3, <2>9, <2>10
  <2>. QED
      BY <2>7, <2>8, <2>9, <2>11
<1>12. P = Nat
  <2>1. P \in SUBSET Nat
      OBVIOUS
  <2>. HIDE DEF P
  <2>. QED
      BY <1>10, <1>11, <2>1, NatSetInduction
<1>13. f[N] \in Seq(Bucket) /\ Len(f[N]) = N /\ \A i \in 1..N : f[N][i] = bs[i]
    BY <1>4, <1>12
<1>14. f[N] = bs
    BY <1>4, <1>13, SeqEqual
<1>. QED
    BY <1>1, <1>2, <1>5, <1>9, <1>14

\* A bucket well inside the new horizon stays inside.
LEMMA YoungIsFresh ==
    ASSUME NEW t \in Nat, NEW h \in Nat \ {0}, NEW at \in Nat, NEW b, b.bucket \in Nat,
           at \div BucketMs(h) <= b.bucket, Monus(t, at) + BucketMs(h) <= h
    PROVE  Fresh(b, t, h)
<1>1. PICK m \in Nat \ {0} : m = BucketMs(h)
    BY BucketMsType
<1>2. PICK q \in Nat : q = at \div m /\ q * m <= at /\ at < q * m + m
    BY <1>1, DivBelow
<1>3. PICK k \in Nat : k = b.bucket /\ q <= k
    BY <1>1, <1>2
<1>4. PICK x \in Nat, y \in Nat : x = q * m /\ y = k * m
    BY <1>1, <1>2, <1>3
<1>5. x <= y
    BY <1>1, <1>2, <1>3, <1>4
<1>6. Monus(t, y) <= h
  <2>1. (IF t > at THEN t - at ELSE 0) + m <= h
      BY <1>1 DEF Monus
  <2>2. at < x + m
      BY <1>2, <1>4
  <2>. QED
      BY <1>1, <1>4, <1>5, <2>1, <2>2 DEF Monus
<1>. QED
    BY <1>1, <1>3, <1>4, <1>6 DEF Fresh

\* One bucket read back: nothing is lost, and what is young is counted.
LEMMA RefilledCounts ==
    ASSUME NEW h \in Nat \ {0}, NEW t \in Nat, NEW T \in Nat, NEW w,
           NEW g, Bank(g, h, T),
           NEW s, s.at \in Nat, s.at <= T, s.rows \in Rows,
           Cardinality(DOMAIN s.rows) <= BankWorkersMax,
           NEW y \in Nat, y = 0 \/ (y = RowOf(s.rows, w) /\ Monus(t, s.at) + BucketMs(h) <= h)
    PROVE  /\ Total(BankVals(g, w, t, h)) \in Nat
           /\ Total(BankVals(Refilled(h, g, s), w, t, h)) \in Nat
           /\ Total(BankVals(Refilled(h, g, s), w, t, h)) >= Total(BankVals(g, w, t, h)) + y
<1>1. g \in Seq(Bucket)
    BY DEF Bank
<1>2. PICK z \in Nat : z = Total(BankVals(g, w, t, h))
    BY <1>1, BankValsType, TotalAppend
<1>3. PICK r \in Nat : r = RowOf(s.rows, w)
    BY RowOfType
<1>4. PICK m \in Nat \ {0} : m = BucketMs(h)
    BY BucketMsType
<1>5. PICK b \in Nat : b = s.at \div m
    BY <1>4, DivBelow
<1>6. FirstRows(s.rows) = s.rows
    BY FirstRowsAll
<1>7. CASE g # <<>> /\ b <= Last(g).bucket
  <2>1. PICK l \in Bucket : l = Last(g) /\ l.bucket \in Nat
    <3>1. PICK n \in Nat : n = Len(g) /\ \A i \in 1..n : g[i] \in Bucket /\ g[i].bucket \in Nat
        BY <1>1, BucketOf
    <3>2. n # 0
        BY <1>1, <1>7, <3>1, EmptySeq
    <3>3. n \in 1..n
        BY <3>1, <3>2
    <3>. QED
        BY <3>1, <3>3 DEF Last
  <2>2. Refilled(h, g, s) = [g EXCEPT ![Len(g)].rows = AddRows(@, s.rows)]
      BY <1>4, <1>5, <1>7, <1>6 DEF Refilled
  <2>3. Total(BankVals(Refilled(h, g, s), w, t, h)) = z + (IF Fresh(l, t, h) THEN r ELSE 0)
    <3>1. PICK more \in Rows : more = s.rows
        OBVIOUS
    <3>2. g # <<>>
        BY <1>7
    <3>3. Total(BankVals([g EXCEPT ![Len(g)].rows = AddRows(@, more)], w, t, h))
            = Total(BankVals(g, w, t, h)) + (IF Fresh(Last(g), t, h) THEN RowOf(more, w) ELSE 0)
        BY ONLY <1>1, <3>1, <3>2, BankTotalFold, SMTT(30)
    <3>4. Refilled(h, g, s) = [g EXCEPT ![Len(g)].rows = AddRows(@, more)]
        BY <2>2, <3>1
    <3>. QED
        BY <1>2, <1>3, <2>1, <3>1, <3>3, <3>4
  <2>4. y # 0 => Fresh(l, t, h) /\ y = r
    <3> SUFFICES ASSUME y # 0 PROVE Fresh(l, t, h)
        BY <1>3
    <3>1. PICK a \in Nat : a = s.at
        OBVIOUS
    <3>2. a \div BucketMs(h) <= l.bucket /\ Monus(t, a) + BucketMs(h) <= h
        BY <1>4, <1>5, <1>7, <2>1, <3>1
    <3>. QED
        BY <2>1, <3>2, YoungIsFresh
  <2>. QED
      BY <1>2, <2>3, <2>4
<1>8. CASE ~(g # <<>> /\ b <= Last(g).bucket)
  <2>1. PICK k : k = [bucket |-> b, rows |-> s.rows]
      OBVIOUS
  <2>2. k \in Bucket /\ k.bucket = b /\ k.rows = s.rows
      BY <2>1 DEF Bucket
  <2>3. Refilled(h, g, s) = Append(g, k)
      BY <1>4, <1>5, <1>8, <1>6, <2>1 DEF Refilled
  <2>4. Total(BankVals(Refilled(h, g, s), w, t, h)) = z + (IF Fresh(k, t, h) THEN r ELSE 0)
      BY <1>1, <1>2, <1>3, <2>2, <2>3, BankTotalAppend
  <2>5. y # 0 => Fresh(k, t, h) /\ y = r
    <3> SUFFICES ASSUME y # 0 PROVE Fresh(k, t, h)
        BY <1>3
    <3>1. PICK a \in Nat : a = s.at
        OBVIOUS
    <3>2. k.bucket \in Nat /\ a \div BucketMs(h) <= k.bucket /\ Monus(t, a) + BucketMs(h) <= h
        BY <1>4, <1>5, <2>2, <3>1
    <3>. QED
        BY <3>2, YoungIsFresh
  <2>. QED
      BY <1>2, <2>4, <2>5
<1>. QED
    BY <1>7, <1>8

\* What was banked well inside the horizon is there when the bank is read back.
LEMMA RefillKeepsYoung ==
    ASSUME NEW h \in Nat \ {0}, NEW t \in Nat, NEW T \in Nat, NEW w,
           NEW ss, Len(ss) \in Nat, Stored(ss, T),
           \A i \in 1..Len(ss) : Cardinality(DOMAIN ss[i].rows) <= BankWorkersMax, NEW y,
           \A i \in 1..Len(ss) :
              /\ y[i] \in Nat
              /\ y[i] = 0 \/ (y[i] = RowOf(ss[i].rows, w) /\ Monus(t, ss[i].at) + BucketMs(h) <= h)
    PROVE  SumFunctionOnSet(y, 1..Len(ss)) <= Total(BankVals(Refill(h, ss), w, t, h))
<1>1. PICK N \in Nat : N = Len(ss)
    OBVIOUS
<1>2. PICK f : /\ f[0] = <<>>
               /\ \A n \in 1..N : f[n] = Refilled(h, f[n - 1], ss[n])
               /\ Refill(h, ss) = f[N]
  <2>1. h \in Nat
      OBVIOUS
  <2>. QED
      BY <1>1, <2>1, RefillUnfold
<1> DEFINE P == {n \in Nat : n <= N =>
                   /\ Bank(f[n], h, T)
                   /\ SumFunctionOnSet(y, 1..n) \in Nat
                   /\ SumFunctionOnSet(y, 1..n) <= Total(BankVals(f[n], w, t, h))}
<1>3. 0 \in P
  <2>1. Bank(f[0], h, T)
      BY <1>2, EmptyBank
  <2>2. SumFunctionOnSet(y, 1..0) = 0
    <3>1. 1..0 = {}
        OBVIOUS
    <3>. QED
        BY <3>1, SumEmpty
  <2>3. Total(BankVals(f[0], w, t, h)) \in Nat
    <3>1. f[0] \in Seq(Bucket)
        BY <2>1 DEF Bank
    <3>. QED
        BY <3>1, BankValsType, TotalAppend
  <2>. QED
      BY <2>1, <2>2, <2>3
<1>4. ASSUME NEW n \in P PROVE n + 1 \in P
  <2> SUFFICES ASSUME n + 1 <= N
               PROVE  /\ Bank(f[n + 1], h, T)
                      /\ SumFunctionOnSet(y, 1..(n + 1)) \in Nat
                      /\ SumFunctionOnSet(y, 1..(n + 1)) <= Total(BankVals(f[n + 1], w, t, h))
      OBVIOUS
  <2>1. n \in Nat /\ n + 1 \in 1..N /\ (n + 1) - 1 = n /\ n <= N
      BY <1>1
  <2>2. PICK g, s : g = f[n] /\ s = ss[n + 1]
      OBVIOUS
  <2>3. PICK D : D = 1..n
      OBVIOUS
  <2>4. PICK c \in Nat : c = SumFunctionOnSet(y, D)
      BY <2>1, <2>3
  <2>5. Bank(g, h, T) /\ c <= Total(BankVals(g, w, t, h))
      BY <2>1, <2>2, <2>3, <2>4
  <2>6. /\ s.at \in Nat /\ s.at <= T /\ s.rows \in Rows
        /\ Cardinality(DOMAIN s.rows) <= BankWorkersMax
      BY <1>1, <2>1, <2>2 DEF Stored
  <2>7. PICK x \in Nat : /\ x = y[n + 1]
                         /\ x = 0 \/ (x = RowOf(s.rows, w) /\ Monus(t, s.at) + BucketMs(h) <= h)
      BY <1>1, <2>1, <2>2
  <2>8. f[n + 1] = Refilled(h, g, s)
      BY <1>2, <2>1, <2>2
  <2>9. PICK a \in Nat, b \in Nat : /\ a = Total(BankVals(g, w, t, h))
                                    /\ b = Total(BankVals(f[n + 1], w, t, h)) /\ b >= a + x
      BY <2>5, <2>6, <2>7, <2>8, RefilledCounts, SMTT(30)
  <2>10. Bank(f[n + 1], h, T)
      BY <2>5, <2>6, <2>8, RefilledIsBank
  <2>11. SumFunctionOnSet(y, 1..(n + 1)) = x + c
    <3>1. IsFiniteSet(D) /\ n + 1 \notin D /\ 1..(n + 1) = D \cup {n + 1}
        BY <2>1, <2>3, IntervalUp
    <3>2. \A i \in D : y[i] \in Int
        BY <1>1, <2>1, <2>3
    <3>3. y[n + 1] \in Int
        BY <2>7
    <3>4. SumFunctionOnSet(y, D \cup {n + 1}) = y[n + 1] + SumFunctionOnSet(y, D)
        BY <3>1, <3>2, <3>3, SumAdd
    <3>. QED
        BY <2>4, <2>7, <3>1, <3>4
  <2>. QED
      BY <2>5, <2>9, <2>10, <2>11, SMTT(30)
<1>5. P = Nat
  <2>1. P \subseteq Nat
      BY DEF P
  <2>. HIDE DEF P
  <2>. QED
      BY <1>3, <1>4, <2>1, NatSetInduction
<1>6. N \in P => SumFunctionOnSet(y, 1..N) <= Total(BankVals(f[N], w, t, h))
    OBVIOUS
<1>. QED
  <2>. HIDE DEF P
  <2>. QED
      BY <1>1, <1>2, <1>5, <1>6

\* With the same interval no credit changes.
LEMMA RestoreKeepsCredit ==
    ASSUME NEW L, NEW T \in Nat, Shape(L, T), Fitting(L), NEW t
    PROVE  credit(restore(L.horizon, L.order, banked_snapshot(L)), t) = credit(L, t)
<1>1. PICK R : R = restore(L.horizon, L.order, banked_snapshot(L))
    OBVIOUS
<1>2. Refill(L.horizon, banked_snapshot(L)) = L.banked
    BY RefillSame
<1>3. R.order = L.order /\ R.banked = L.banked /\ R.horizon = L.horizon
    BY <1>1, <1>2 DEF restore
<1>4. ASSUME NEW w \in Workers
      PROVE  BankedOf(R, w, t) = BankedOf(L, w, t) /\ StandingOf(R, w, t) = StandingOf(L, w, t)
    BY <1>3 DEF BankedOf, StandingOf
<1>. QED
    BY <1>1, <1>4 DEF credit

Young(L, w, t, h) ==
    {i \in 1..Len(L.banked) : /\ w \in DOMAIN L.banked[i].rows
                              /\ Monus(t, L.banked[i].bucket * BucketMs(L.horizon))
                                   + BucketMs(h) <= h}

\* With any interval, what was banked well inside the new horizon is still there.
LEMMA RestoreKeepsYoung ==
    ASSUME NEW L, NEW T \in Nat, Shape(L, T), Fitting(L), NEW t \in Nat, NEW h \in Nat \ {0}, NEW w
    PROVE  BankedOf(restore(h, L.order, banked_snapshot(L)), w, t)
             >= SumFunction([i \in Young(L, w, t, h) |-> L.banked[i].rows[w]])
<1>1. PICK bs, old, ss : bs = L.banked /\ old = L.horizon /\ ss = banked_snapshot(L)
    OBVIOUS
<1>2. Bank(bs, old, T) /\ old \in Nat \ {0} /\ bs \in Seq(Bucket)
    BY <1>1 DEF Shape, Bank
<1>3. PICK N \in Nat : N = Len(bs) /\ \A i \in 1..N : bs[i].rows \in Rows /\ bs[i].bucket \in Nat
    BY <1>2, BucketOf
<1>4. ss = [i \in 1..N |-> [at |-> bs[i].bucket * BucketMs(old), rows |-> bs[i].rows]]
    BY <1>1, <1>3 DEF banked_snapshot, Stamp
<1>5. Len(ss) = N /\ Stored(ss, T)
  <2>1. Len(ss) = N
      BY <1>4
  <2>. QED
      BY <1>1, <2>1, SnapshotIsStored
<1>6. PICK A : A = Young(L, w, t, h)
    OBVIOUS
<1>7. A = {i \in 1..N : /\ w \in DOMAIN bs[i].rows
                        /\ Monus(t, ss[i].at) + BucketMs(h) <= h}
    BY <1>1, <1>3, <1>4, <1>6 DEF Young
<1>8. PICK f : f = [i \in A |-> bs[i].rows[w]]
    OBVIOUS
<1>9. PICK y : y = [i \in 1..N |-> IF i \in A THEN f[i] ELSE 0]
    OBVIOUS
<1>10. \A i \in A : f[i] = RowOf(bs[i].rows, w) /\ f[i] \in Nat
  <2>1. \A i \in 1..N : RowOf(bs[i].rows, w) \in Nat
      BY <1>3, RowOfType
  <2>. QED
      BY <1>7, <1>8, <2>1 DEF RowOf
<1>11. \A i \in 1..N :
          /\ y[i] \in Nat
          /\ y[i] = 0 \/ (y[i] = RowOf(ss[i].rows, w) /\ Monus(t, ss[i].at) + BucketMs(h) <= h)
  <2>1. \A i \in 1..N : ss[i].rows = bs[i].rows
      BY <1>4
  <2>. QED
      BY <1>7, <1>9, <1>10, <2>1
<1>12. SumFunctionOnSet(y, 1..N) <= Total(BankVals(Refill(h, ss), w, t, h))
  <2>1. \A i \in 1..N : Cardinality(DOMAIN ss[i].rows) <= BankWorkersMax
      BY <1>1, <1>3, <1>4 DEF Fitting
  <2>. QED
      BY <1>5, <1>11, <2>1, RefillKeepsYoung
<1>13. SumFunction(f) = SumFunctionOnSet(y, 1..N)
  <2>1. PICK D : D = 1..N
      OBVIOUS
  <2>2. IsFiniteSet(D) /\ A \in SUBSET D /\ \A i \in D : y[i] = (IF i \in A THEN f[i] ELSE 0)
      BY <1>7, <1>9, <2>1, IntervalUp
  <2>3. \A i \in A : f[i] \in Int
      BY <1>10
  <2>4. SumFunctionOnSet(f, A) = SumFunctionOnSet(y, D)
      BY <2>2, <2>3, SumPart
  <2>5. DOMAIN f = A
      BY <1>8
  <2>. QED
      BY <2>1, <2>4, <2>5 DEF SumFunction
<1>14. PICK R : R = restore(h, L.order, ss)
    OBVIOUS
<1>15. R.banked = Refill(h, ss) /\ R.horizon = h
    BY <1>14 DEF restore
<1>16. R.banked \in Seq(Bucket)
    BY <1>5, <1>15, RefillIsBank DEF Bank
<1>17. BankedOf(R, w, t) = Total(BankVals(Refill(h, ss), w, t, h))
    BY <1>15, <1>16, BankedIs
<1>18. Total(BankVals(Refill(h, ss), w, t, h)) \in Nat /\ SumFunctionOnSet(y, 1..N) \in Nat
  <2>1. Total(BankVals(R.banked, w, t, h)) \in Nat
      BY <1>16, BankValsType, TotalAppend
  <2>2. SumFunctionOnSet(y, 1..N) \in Nat
    <3>1. PICK D : D = 1..N
        OBVIOUS
    <3>2. IsFiniteSet(D) /\ \A i \in D : y[i] \in Nat
        BY <1>11, <3>1, IntervalUp
    <3>. QED
        BY <3>1, <3>2, SumNat
  <2>. QED
      BY <1>15, <2>1, <2>2
<1>19. BankedOf(R, w, t) >= SumFunction(f)
    BY <1>12, <1>13, <1>17, <1>18
<1>. QED
    BY <1>1, <1>6, <1>8, <1>14, <1>19

\* Only a restart uses up a restart.
Budget == left \in [shares : Int, restarts : Int, back : Int, settles : Int]

LEMMA InitBudget == Init => Budget
BY PplnsAssumption DEF Init, Budget

LEMMA NextBudget ==
    Budget /\ [Next]_vars =>
      /\ Budget'
      /\ left'.restarts < left.restarts => \E h \in Horizons : Restart(h)
<1> SUFFICES ASSUME Budget, [Next]_vars
             PROVE  /\ Budget'
                    /\ left'.restarts < left.restarts => \E h \in Horizons : Restart(h)
    OBVIOUS
<1>1. left.restarts \in Int
    BY DEF Budget
<1>2. ASSUME NEW w \in Workers, Share(w) PROVE Budget' /\ left'.restarts = left.restarts
  <2>1. left' = [left EXCEPT !.shares = @ - 1]
      BY <1>2 DEF Share
  <2>. QED
      BY <2>1 DEF Budget
<1>3. CASE left' = left
    BY <1>3 DEF Budget
<1>4. CASE StepBack
  <2>1. left' = [left EXCEPT !.back = @ - 1]
      BY <1>4 DEF StepBack
  <2>. QED
      BY <2>1 DEF Budget
<1>5. ASSUME NEW h \in Horizons, Restart(h) PROVE Budget'
    BY <1>5 DEF Restart, Budget
<1>6. ASSUME NEW pot \in Pots, NEW recorded \in SUBSET Workers, NEW failed \in SUBSET Workers,
             Settle(pot, recorded, failed)
      PROVE  Budget' /\ left'.restarts = left.restarts
  <2>1. left' = [left EXCEPT !.settles = @ - 1]
      BY <1>6 DEF Settle
  <2>. QED
      BY <2>1 DEF Budget
<1>7. Save \/ Tick \/ UNCHANGED vars => left' = left
    BY DEF Save, Tick, vars
<1>. QED
    BY <1>1, <1>2, <1>3, <1>4, <1>5, <1>6, <1>7 DEF Next

\* "A time survives any interval": a restart with the same settlement interval
\* gives the credit of the ledger in the state file, and with another one what was
\* banked there well inside the new horizon is still there, for every pair of
\* intervals, whatever buckets fall together, while no stored bucket has more rows
\* than restore reads (banked_snapshot, restore).
THEOREM RestartsKeepCredit == Spec => RestartKeepsCredit
<1> DEFINE Same == led'.horizon = saved.horizon => credit(led', now) = credit(saved, now)
           Kept == \A w \in Workers :
                     BankedOf(led', w, now)
                       >= SumFunction([i \in Young(saved, w, now, led'.horizon)
                                         |-> saved.banked[i].rows[w]])
<1>1. Ledgers /\ Budget /\ [Next]_vars =>
         (left'.restarts < left.restarts /\ Fitting(saved) => Same /\ Kept)
  <2> SUFFICES ASSUME Ledgers, Budget, [Next]_vars, left'.restarts < left.restarts, Fitting(saved)
               PROVE  Same /\ Kept
      OBVIOUS
  <2>1. PICK h \in Horizons : Restart(h)
      BY NextBudget
  <2>2. PICK L, R : L = saved /\ R = led'
      OBVIOUS
  <2>3. R = restore(h, L.order, banked_snapshot(L))
      BY <2>1, <2>2 DEF Restart
  <2>4. Shape(L, top) /\ Fitting(L) /\ top \in Nat /\ now \in Nat
      BY <2>2 DEF Ledgers
  <2>5. h \in Nat \ {0} /\ R.horizon = h
      BY <2>3, PplnsAssumption DEF restore
  <2>6. L.horizon = h => credit(R, now) = credit(L, now)
      BY <2>3, <2>4, RestoreKeepsCredit
  <2>7. ASSUME NEW w \in Workers
        PROVE  BankedOf(R, w, now) >= SumFunction([i \in Young(L, w, now, h) |-> L.banked[i].rows[w]])
      BY <2>3, <2>4, <2>5, RestoreKeepsYoung
  <2>. QED
      BY <2>2, <2>5, <2>6, <2>7
<1>2. Spec => []Budget
  <2>1. Budget /\ [Next]_vars => Budget'
      BY NextBudget
  <2>. QED
      BY InitBudget, <2>1, PTL DEF Spec
<1>3. (left'.restarts < left.restarts /\ Fitting(saved) => Same /\ Kept) =>
         (left'.restarts < left.restarts /\ Fitting(saved) =>
            /\ led'.horizon = saved.horizon => credit(led', now) = credit(saved, now)
            /\ \A w \in Workers :
                 LET young == {i \in 1..Len(saved.banked) :
                                 /\ w \in DOMAIN saved.banked[i].rows
                                 /\ Monus(now, saved.banked[i].bucket * BucketMs(saved.horizon))
                                      + BucketMs(led'.horizon) <= led'.horizon}
                 IN BankedOf(led', w, now)
                      >= SumFunction([i \in young |-> saved.banked[i].rows[w]]))
    BY DEF Young
<1>. QED
    BY <1>1, <1>2, <1>3, PplnsInvariant, PTL DEF RestartKeepsCredit, Spec
=============================================================================
