----------------------------- MODULE DataLemmas -----------------------------
(***************************************************************************)
(* Facts about data that the other proof modules rest on: induction over   *)
(* numbers, sequences and finite sets, stated of the set where a formula   *)
(* holds, recursion, what Filter returns and how sums over finite sets     *)
(* behave.                                                                 *)
(***************************************************************************)
EXTENDS Filter, Functions, FiniteSets, SequenceTheorems, FiniteSetTheorems,
        WellFoundedInduction, TLAPS

-----------------------------------------------------------------------------
(* Induction.                                                              *)

\* A set of naturals with 0 and with the successors of its members is all of them.
LEMMA NatSetInduction ==
    ASSUME NEW P \in SUBSET Nat, 0 \in P, \A n \in P : n + 1 \in P
    PROVE  P = Nat
<1> SUFFICES ASSUME Nat \ P # {} PROVE FALSE
    OBVIOUS
<1>1. PICK m \in Nat \ P : \A y \in Nat \ P : ~(<<y, m>> \in OpToRel(<, Nat))
    BY WFMin, NatLessThanWellFounded
<1>2. \A y \in Nat \ P : ~(y < m)
    BY <1>1 DEF OpToRel
<1>3. m # 0 /\ m - 1 \in Nat
    OBVIOUS
<1>4. m - 1 \in P
    BY <1>2, <1>3
<1> QED
    BY <1>3, <1>4

\* A set of sequences closed under appending is all of them.
LEMMA SeqSetInduction ==
    ASSUME NEW S, NEW P \in SUBSET Seq(S), <<>> \in P,
           \A s \in P : \A e \in S : Append(s, e) \in P
    PROVE  P = Seq(S)
<1> DEFINE N == {n \in Nat : \A s \in Seq(S) : Len(s) = n => s \in P}
<1>1. 0 \in N
    BY EmptySeq
<1>2. ASSUME NEW n \in N PROVE n + 1 \in N
  <2> SUFFICES ASSUME NEW s \in Seq(S), Len(s) = n + 1 PROVE s \in P
      OBVIOUS
  <2>1. s # <<>>
      BY EmptySeq
  <2>2. PICK t \in Seq(S), e \in S : s = Append(t, e)
      BY <2>1, SequenceEmptyOrAppend
  <2>3. Len(t) = n
      BY <2>2, AppendProperties, LenProperties
  <2> QED
      BY <2>2, <2>3
<1>3. N = Nat
  <2> HIDE DEF N
  <2>1. N \subseteq Nat
      BY DEF N
  <2> QED
      BY <1>1, <1>2, <2>1, NatSetInduction
<1> QED
    BY <1>3, LenProperties

\* A set of subsets closed under adding an element has the whole finite set.
LEMMA FiniteSetInduction ==
    ASSUME NEW T, IsFiniteSet(T), NEW P, {} \in P,
           \A A \in SUBSET T : \A x \in T \ A : A \in P => A \cup {x} \in P
    PROVE  T \in P
<1> DEFINE N == {n \in Nat : \A A \in SUBSET T : Cardinality(A) = n => A \in P}
<1>1. 0 \in N
    BY FS_Subset, FS_EmptySet
<1>2. ASSUME NEW n \in N PROVE n + 1 \in N
  <2> SUFFICES ASSUME NEW A \in SUBSET T, Cardinality(A) = n + 1 PROVE A \in P
      OBVIOUS
  <2>1. IsFiniteSet(A) /\ n \in Nat
      BY FS_Subset
  <2>2. A # {}
      BY <2>1, FS_EmptySet
  <2>3. PICK x \in A : TRUE
      BY <2>2
  <2>4. Cardinality(A \ {x}) = n
    <3> HIDE DEF N
    <3>1. Cardinality(A \ {x}) = IF x \in A THEN Cardinality(A) - 1 ELSE Cardinality(A)
        BY <2>1, FS_RemoveElement, Zenon
    <3> QED
        BY <2>1, <3>1
  <2>5. A \ {x} \in P /\ x \in T \ (A \ {x}) /\ A = (A \ {x}) \cup {x}
      BY <2>3, <2>4
  <2> QED
      BY <2>5
<1>3. N = Nat
  <2> HIDE DEF N
  <2>1. N \subseteq Nat
      BY DEF N
  <2> QED
      BY <1>1, <1>2, <2>1, NatSetInduction
<1> QED
    BY <1>3, FS_CardinalityType
-----------------------------------------------------------------------------
(* Recursion over 0..N.                                                    *)

\* f is the recursion from a by step
Solves(f, N, a, step) == f[0] = a /\ \A n \in 1..N : f[n] = step[n][f[n - 1]]

\* A start and a step per index determine a function.
LEMMA Recursion ==
    ASSUME NEW D, NEW a \in D, NEW N \in Nat, NEW step \in [1..N -> [D -> D]]
    PROVE  \E f \in [0..N -> D] : Solves(f, N, a, step)
<1> DEFINE Upto(m, f) == f[0] = a /\ \A n \in 1..m : f[n] = step[n][f[n - 1]]
           P == {m \in Nat : m <= N => \E f \in [0..m -> D] : Upto(m, f)}
<1>1. 0 \in P
  <2>1. [n \in 0..0 |-> a] \in [0..0 -> D] /\ Upto(0, [n \in 0..0 |-> a])
      OBVIOUS
  <2> QED
      BY <2>1
<1>2. ASSUME NEW m \in P PROVE m + 1 \in P
  <2> SUFFICES ASSUME m + 1 <= N PROVE \E f \in [0..(m + 1) -> D] : Upto(m + 1, f)
      OBVIOUS
  <2>1. PICK f \in [0..m -> D] : Upto(m, f)
      OBVIOUS
  <2> DEFINE g == [n \in 0..(m + 1) |-> IF n <= m THEN f[n] ELSE step[m + 1][f[m]]]
  <2>2. step[m + 1] \in [D -> D] /\ f[m] \in D
      OBVIOUS
  <2>3. g \in [0..(m + 1) -> D]
      BY <2>2
  <2>4. g[0] = a
      BY <2>1
  <2>5. ASSUME NEW n \in 1..(m + 1) PROVE g[n] = step[n][g[n - 1]]
    <3>1. CASE n <= m
      <4>1. n - 1 \in 0..m /\ n \in 1..m
          BY <3>1
      <4>2. g[n] = f[n] /\ g[n - 1] = f[n - 1]
          BY <3>1, <4>1
      <4>3. f[n] = step[n][f[n - 1]]
          BY <2>1, <4>1
      <4> QED
          BY <4>2, <4>3
    <3>2. CASE n = m + 1
      <4>1. n - 1 = m /\ g[m] = f[m] /\ g[n] = step[m + 1][f[m]]
          BY <3>2
      <4> QED
          BY <3>2, <4>1
    <3> QED
        BY <3>1, <3>2
  <2> HIDE DEF g
  <2> QED
      BY <2>3, <2>4, <2>5
<1>3. P = Nat
  <2> HIDE DEF P
  <2>1. P \subseteq Nat
      BY DEF P
  <2> QED
      BY <1>1, <1>2, <2>1, NatSetInduction
<1> QED
    BY <1>3 DEF Solves
-----------------------------------------------------------------------------
(* Filter.                                                                 *)

\* f[n] holds what the first n elements of s leave
Keeps(f, s, K, N) ==
    /\ f[0] = <<>>
    /\ \A n \in 1..N : f[n] = IF s[n] \in K THEN Append(f[n - 1], s[n]) ELSE f[n - 1]

\* The recursion of Filter has a solution.
LEMMA KeptExists ==
    ASSUME NEW S, NEW N \in Nat, NEW s, \A n \in 1..N : s[n] \in S, NEW K
    PROVE  \E f \in [0..N -> Seq(S)] : Keeps(f, s, K, N)
<1> DEFINE step == [n \in 1..N |-> [t \in Seq(S) |->
                        IF s[n] \in K THEN Append(t, s[n]) ELSE t]]
<1>1. step \in [1..N -> [Seq(S) -> Seq(S)]]
    BY AppendProperties
<1>2. \A n \in 1..N : \A t \in Seq(S) :
          step[n][t] = IF s[n] \in K THEN Append(t, s[n]) ELSE t
    OBVIOUS
<1>3. \E st \in [1..N -> [Seq(S) -> Seq(S)]] :
          \A n \in 1..N : \A t \in Seq(S) :
              st[n][t] = IF s[n] \in K THEN Append(t, s[n]) ELSE t
  <2> HIDE DEF step
  <2> QED
      BY <1>1, <1>2
<1>4. PICK st \in [1..N -> [Seq(S) -> Seq(S)]] :
          \A n \in 1..N : \A t \in Seq(S) :
              st[n][t] = IF s[n] \in K THEN Append(t, s[n]) ELSE t
    BY <1>3
<1> HIDE DEF step
<1>5. PICK f \in [0..N -> Seq(S)] : Solves(f, N, <<>>, st)
  <2>1. <<>> \in Seq(S)
      BY EmptySeq
  <2> QED
      BY <2>1, Recursion
<1>6. \A n \in 1..N : f[n - 1] \in Seq(S)
    OBVIOUS
<1>7. Keeps(f, s, K, N)
  <2>1. f[0] = <<>>
      BY <1>5 DEF Solves
  <2>2. ASSUME NEW n \in 1..N
        PROVE  f[n] = IF s[n] \in K THEN Append(f[n - 1], s[n]) ELSE f[n - 1]
    <3>1. f[n] = st[n][f[n - 1]]
        BY <1>5 DEF Solves
    <3> QED
        BY <1>4, <1>6, <3>1
  <2> QED
      BY <2>1, <2>2 DEF Keeps
<1> QED
    BY <1>7

LEMMA SeqOfSubset ==
    ASSUME NEW S, NEW T, S \subseteq T, NEW s \in Seq(S)
    PROVE  s \in Seq(T)
    BY SeqDef

\* Filter is the last value of the recursion its definition describes.
LEMMA FilterUnfold ==
    ASSUME NEW S, NEW s \in Seq(S), NEW K
    PROVE  \E f \in [0..Len(s) -> Seq(S)] :
              Keeps(f, s, K, Len(s)) /\ Filter(s, K) = f[Len(s)]
<1> DEFINE N == Len(s)
           Step(n, t) == IF s[n] \in K THEN Append(t, s[n]) ELSE t
           Eq(f) == f = [n \in 0..N |-> IF n = 0 THEN <<>> ELSE Step(n, f[n - 1])]
<1>1. N \in Nat /\ \A n \in 1..N : s[n] \in S
    BY LenProperties, ElementOfSeq
<1>2. PICK g \in [0..N -> Seq(S)] : Keeps(g, s, K, N)
  <2> HIDE DEF N
  <2> QED
      BY <1>1, KeptExists
<1>3. g[0] = <<>> /\ \A n \in 1..N : g[n] = Step(n, g[n - 1])
    BY <1>2 DEF Keeps
<1>4. g = [n \in 0..N |-> IF n = 0 THEN <<>> ELSE Step(n, g[n - 1])]
  <2> HIDE DEF Step, N
  <2> QED
      BY <1>1, <1>3
<1>6. Eq(g)
    BY <1>4
<1> DEFINE c == CHOOSE h : Eq(h)
<1>7. Eq(c)
  <2> HIDE DEF Eq
  <2> QED
      BY <1>6
<1>8. c \in [0..N -> Seq(S)] /\ c[0] = <<>> /\ \A n \in 1..N : c[n] = Step(n, c[n - 1])
  <2>1. DOMAIN c = 0..N /\ c[0] = <<>> /\ \A n \in 1..N : c[n] = Step(n, c[n - 1])
    <3> HIDE DEF Step, c, N
    <3> QED
        BY <1>1, <1>7
  <2> DEFINE P == {n \in Nat : n <= N => c[n] \in Seq(S)}
  <2>2. 0 \in P
      BY <2>1, EmptySeq
  <2>3. ASSUME NEW n \in P PROVE n + 1 \in P
    <3> SUFFICES ASSUME n + 1 <= N PROVE c[n + 1] \in Seq(S)
        OBVIOUS
    <3> HIDE DEF c, N
    <3>1. c[n] \in Seq(S) /\ n + 1 \in 1..N /\ (n + 1) - 1 = n
        BY <1>1
    <3>2. c[n + 1] = Step(n + 1, c[n])
        BY <2>1, <3>1
    <3> QED
        BY <1>1, <3>1, <3>2, AppendProperties
  <2>4. P = Nat
    <3> HIDE DEF P
    <3>1. P \subseteq Nat
        BY DEF P
    <3> QED
        BY <2>2, <2>3, <3>1, NatSetInduction
  <2> HIDE DEF c, N
  <2>5. \A n \in 0..N : c[n] \in Seq(S)
    <3> TAKE n \in 0..N
    <3>1. n \in Nat /\ n <= N
        BY <1>1
    <3>2. n \in P
        BY <2>4, <3>1
    <3> QED
        BY <3>1, <3>2
  <2>6. c = [n \in 0..N |-> c[n]]
    <3> HIDE DEF Step
    <3> QED
        BY <1>7
  <2> HIDE DEF Step, Eq
  <2>7. c \in [0..N -> Seq(S)]
      BY <2>5, <2>6
  <2> QED
      BY <2>1, <2>7
<1>9. Filter(s, K) = c[N]
    BY DEF Filter
<1>10. Keeps(c, s, K, N)
  <2> HIDE DEF c, N
  <2> QED
      BY <1>8 DEF Keeps
<1> HIDE DEF c
<1> QED
    BY <1>8, <1>9, <1>10

\* Appending adds one element.
LEMMA RangeOfAppend ==
    ASSUME NEW S, NEW s \in Seq(S), NEW e
    PROVE  Range(Append(s, e)) = Range(s) \cup {e}
<1>1. s \in Seq(S \cup {e}) /\ e \in S \cup {e}
    BY SeqOfSubset
<1>2. /\ DOMAIN s = 1..Len(s) /\ DOMAIN Append(s, e) = 1..(Len(s) + 1) /\ Len(s) \in Nat
      /\ Append(s, e)[Len(s) + 1] = e /\ \A n \in 1..Len(s) : Append(s, e)[n] = s[n]
    BY <1>1, AppendProperties, LenProperties
<1> QED
    BY <1>2 DEF Range

LEMMA FilterType ==
    ASSUME NEW S, NEW s \in Seq(S), NEW K
    PROVE  Filter(s, K) \in Seq(S)
    BY FilterUnfold, LenProperties

LEMMA FilterEmpty ==
    ASSUME NEW K
    PROVE  Filter(<<>>, K) = <<>>
<1>1. ASSUME NEW s \in Seq({}), Len(s) = 0 PROVE Filter(s, K) = <<>>
  <2>1. PICK f \in [0..Len(s) -> Seq({})] : Keeps(f, s, K, Len(s)) /\ Filter(s, K) = f[Len(s)]
      BY FilterUnfold
  <2> QED
      BY <1>1, <2>1 DEF Keeps
<1> QED
    BY <1>1, EmptySeq

LEMMA FilterAppend ==
    ASSUME NEW S, NEW s \in Seq(S), NEW e \in S, NEW K
    PROVE  Filter(Append(s, e), K) =
               IF e \in K THEN Append(Filter(s, K), e) ELSE Filter(s, K)
<1> DEFINE t == Append(s, e)
           N == Len(s)
<1>1. /\ t \in Seq(S) /\ N \in Nat /\ Len(t) = N + 1 /\ t[N + 1] = e
      /\ \A n \in 1..N : t[n] = s[n]
    BY AppendProperties, LenProperties
<1>2. PICK f \in [0..N -> Seq(S)] : Keeps(f, s, K, N) /\ Filter(s, K) = f[N]
    BY FilterUnfold
<1>3. PICK g \in [0..(N + 1) -> Seq(S)] : Keeps(g, t, K, N + 1) /\ Filter(t, K) = g[N + 1]
  <2> HIDE DEF t, N
  <2>1. \E g \in [0..Len(t) -> Seq(S)] : Keeps(g, t, K, Len(t)) /\ Filter(t, K) = g[Len(t)]
      BY <1>1, FilterUnfold
  <2> QED
      BY <1>1, <2>1
<1> HIDE DEF t, N
<1> DEFINE P == {n \in Nat : n <= N => g[n] = f[n]}
<1>4. 0 \in P
    BY <1>2, <1>3 DEF Keeps
<1>5. ASSUME NEW n \in P PROVE n + 1 \in P
  <2> SUFFICES ASSUME n + 1 <= N PROVE g[n + 1] = f[n + 1]
      OBVIOUS
  <2> DEFINE k == n + 1
  <2>1. k \in 1..N /\ k \in 1..(N + 1) /\ k - 1 = n
      BY <1>1
  <2> HIDE DEF k
  <2>2. f[k] = IF s[k] \in K THEN Append(f[k - 1], s[k]) ELSE f[k - 1]
      BY <1>2, <2>1 DEF Keeps
  <2>3. g[k] = IF t[k] \in K THEN Append(g[k - 1], t[k]) ELSE g[k - 1]
      BY <1>3, <2>1 DEF Keeps
  <2>4. g[n] = f[n] /\ t[k] = s[k]
      BY <1>1, <2>1
  <2>5. g[k] = f[k]
      BY <2>1, <2>2, <2>3, <2>4
  <2> QED
      BY <2>5 DEF k
<1>6. P = Nat
  <2> HIDE DEF P
  <2>1. P \subseteq Nat
      BY DEF P
  <2> QED
      BY <1>4, <1>5, <2>1, NatSetInduction
<1>7. g[N] = f[N]
  <2>1. N \in P
      BY <1>1, <1>6
  <2> QED
      BY <1>1, <2>1
<1>8. N + 1 \in 1..(N + 1) /\ (N + 1) - 1 = N
    BY <1>1
<1>9. g[N + 1] = IF t[N + 1] \in K THEN Append(g[N], t[N + 1]) ELSE g[N]
    BY <1>3, <1>8 DEF Keeps
<1> QED
    BY <1>1, <1>2, <1>3, <1>7, <1>9 DEF t

\* What is left are the elements of the set.
LEMMA FilterRange ==
    ASSUME NEW S, NEW s \in Seq(S), NEW K
    PROVE  Range(Filter(s, K)) = Range(s) \cap K
<1> DEFINE P == {t \in Seq(S) : Range(Filter(t, K)) = Range(t) \cap K}
<1>1. <<>> \in P
  <2>1. Range(<<>>) = {}
      BY DEF Range
  <2> QED
      BY <2>1, EmptySeq, FilterEmpty
<1>2. ASSUME NEW t \in P, NEW e \in S PROVE Append(t, e) \in P
  <2>1. \A u \in Seq(S) : Range(Append(u, e)) = Range(u) \cup {e}
      BY RangeOfAppend
  <2>2. Filter(t, K) \in Seq(S)
      BY FilterType
  <2>3. Filter(Append(t, e), K) = IF e \in K THEN Append(Filter(t, K), e) ELSE Filter(t, K)
      BY FilterAppend
  <2>4. t \in Seq(S) /\ Append(t, e) \in Seq(S) /\ Range(Filter(t, K)) = Range(t) \cap K
      BY AppendProperties
  <2>5. Range(Filter(Append(t, e), K)) = (Range(t) \cup {e}) \cap K
    <3>1. CASE e \in K
        BY <2>1, <2>2, <2>3, <2>4, <3>1
    <3>2. CASE e \notin K
        BY <2>1, <2>2, <2>3, <2>4, <3>2
    <3> QED
        BY <3>1, <3>2
  <2> QED
      BY <2>1, <2>4, <2>5
<1>3. P = Seq(S)
  <2> HIDE DEF P
  <2>1. P \subseteq Seq(S)
      BY DEF P
  <2> QED
      BY <1>1, <1>2, <2>1, SeqSetInduction
<1> QED
    BY <1>3

\* What Filter returns is a subsequence: it picks elements from left to right.
Picks(f, s, r) ==
    /\ f \in [1..Len(r) -> 1..Len(s)]
    /\ \A i \in 1..Len(r) : r[i] = s[f[i]]
    /\ \A i, j \in 1..Len(r) : i < j => f[i] < f[j]

Subsequence(r, s) == Len(r) <= Len(s) /\ \E f : Picks(f, s, r)

LEMMA SubsequenceAppend ==
    ASSUME NEW S, NEW s \in Seq(S), NEW r \in Seq(S), NEW e \in S, Subsequence(r, s)
    PROVE  /\ Subsequence(r, Append(s, e))
           /\ Subsequence(Append(r, e), Append(s, e))
<1>1. PICK n \in Nat, m \in Nat : n = Len(s) /\ m = Len(r)
    BY LenProperties
<1>2. PICK f : Picks(f, s, r)
    BY DEF Subsequence
<1>3. m <= n /\ f \in [1..m -> 1..n]
    BY <1>1, <1>2 DEF Picks, Subsequence
<1>4. /\ \A i \in 1..m : r[i] = s[f[i]]
      /\ \A i, j \in 1..m : i < j => f[i] < f[j]
    BY <1>1, <1>2 DEF Picks
<1>5. PICK t : t = Append(s, e)
    OBVIOUS
<1>6. PICK u : u = Append(r, e)
    OBVIOUS
<1>7. Len(t) = n + 1 /\ t[n + 1] = e /\ \A i \in 1..n : t[i] = s[i]
    BY <1>1, <1>5, AppendProperties
<1>8. Len(u) = m + 1 /\ u[m + 1] = e /\ \A i \in 1..m : u[i] = r[i]
    BY <1>1, <1>6, AppendProperties
<1>9. Subsequence(r, t)
  <2>1. f \in [1..m -> 1..(n + 1)]
      BY <1>3
  <2>2. \A i \in 1..m : r[i] = t[f[i]]
      BY <1>3, <1>4, <1>7
  <2>3. Picks(f, t, r)
      BY <1>1, <1>4, <1>7, <2>1, <2>2 DEF Picks
  <2>. QED
      BY <1>1, <1>3, <1>7, <2>3 DEF Subsequence
<1>10. Subsequence(u, t)
  <2>1. PICK g : g = [i \in 1..(m + 1) |-> IF i = m + 1 THEN n + 1 ELSE f[i]]
      OBVIOUS
  <2>2. g[m + 1] = n + 1 /\ \A i \in 1..m : g[i] = f[i]
      BY <2>1
  <2>3. g \in [1..(m + 1) -> 1..(n + 1)]
      BY <1>3, <2>1
  <2>4. \A i \in 1..(m + 1) : u[i] = t[g[i]]
    <3>1. TAKE i \in 1..(m + 1)
    <3>2. CASE i = m + 1
      <4>1. g[i] = n + 1 /\ u[i] = e
          BY <1>8, <2>2, <3>2
      <4>. QED
          BY <1>7, <4>1
    <3>3. CASE i \in 1..m
      <4>1. g[i] = f[i] /\ f[i] \in 1..n /\ u[i] = r[i] /\ r[i] = s[f[i]]
          BY <1>3, <1>4, <1>8, <2>2, <3>3
      <4>2. t[f[i]] = s[f[i]]
          BY <1>7, <4>1
      <4>. QED
          BY <4>1, <4>2
    <3>. QED
        BY <3>2, <3>3
  <2>5. \A i, j \in 1..(m + 1) : i < j => g[i] < g[j]
    <3>1. TAKE i, j \in 1..(m + 1)
    <3>2. HAVE i < j
    <3>3. i \in 1..m /\ f[i] \in 1..n /\ g[i] = f[i]
        BY <1>3, <2>2, <3>2
    <3>4. CASE j = m + 1
        BY <2>2, <3>3, <3>4
    <3>5. CASE j \in 1..m
        BY <1>4, <2>2, <3>2, <3>3, <3>5
    <3>. QED
        BY <3>4, <3>5
  <2>6. Picks(g, t, u)
      BY <1>7, <1>8, <2>3, <2>4, <2>5 DEF Picks
  <2>. QED
      BY <1>3, <1>7, <1>8, <2>6 DEF Subsequence
<1>. QED
    BY <1>5, <1>6, <1>9, <1>10

LEMMA FilterSubsequence ==
    ASSUME NEW S, NEW s \in Seq(S), NEW K
    PROVE  Subsequence(Filter(s, K), s)
<1> DEFINE P == {t \in Seq(S) : Subsequence(Filter(t, K), t)}
<1>1. <<>> \in P
  <2>1. Len(<<>>) = 0 /\ <<>> \in Seq(S) /\ Filter(<<>>, K) = <<>>
      BY EmptySeq, FilterEmpty
  <2>2. Picks(<<>>, <<>>, <<>>)
      BY <2>1 DEF Picks
  <2>. QED
      BY <2>1, <2>2 DEF Subsequence
<1>2. ASSUME NEW t \in P, NEW e \in S PROVE Append(t, e) \in P
  <2>1. t \in Seq(S) /\ Filter(t, K) \in Seq(S) /\ Subsequence(Filter(t, K), t)
      BY FilterType
  <2>2. Filter(Append(t, e), K) \in {Filter(t, K), Append(Filter(t, K), e)}
      BY <2>1, FilterAppend
  <2>3. Subsequence(Filter(Append(t, e), K), Append(t, e))
      BY <2>1, <2>2, SubsequenceAppend
  <2>. QED
      BY <2>1, <2>3, AppendProperties
<1>. HIDE DEF P
<1>3. P = Seq(S)
  <2>1. P \in SUBSET Seq(S)
      BY DEF P
  <2>. QED
      BY <1>1, <1>2, <2>1, SeqSetInduction
<1>4. s \in P
    BY <1>3
<1>. QED
    BY <1>4 DEF P
-----------------------------------------------------------------------------
(* The least number.                                                       *)

\* A set of numbers has a least one.
LEMMA LeastNumber ==
    ASSUME NEW S \in SUBSET Nat, S # {}
    PROVE  \E x \in S : \A y \in S : x <= y
<1>1. \E x \in S : \A y \in S : ~(<<y, x>> \in OpToRel(<, Nat))
    BY WFMin, NatLessThanWellFounded
<1>2. PICK x \in S : \A y \in S : ~(<<y, x>> \in OpToRel(<, Nat))
    BY <1>1
<1>3. \A y \in S : ~(y < x)
    BY <1>2 DEF OpToRel
<1>. QED
    BY <1>3
-----------------------------------------------------------------------------
(* Sums over finite sets.                                                  *)

\* h gives every subset of T the sum of f over it
Sums(h, f, T) ==
    h[{}] = 0 /\ \A A \in SUBSET T : \A x \in T \ A : h[A \cup {x}] = f[x] + h[A]

LEMMA SumsExist ==
    ASSUME NEW T, IsFiniteSet(T), NEW f, \A x \in T : f[x] \in Int
    PROVE  \E h \in [SUBSET T -> Int] : Sums(h, f, T)
<1> DEFINE P == {A \in SUBSET T : \E h \in [SUBSET A -> Int] : Sums(h, f, A)}
<1>1. {} \in P
  <2> DEFINE h == [A \in SUBSET {} |-> 0]
  <2>1. h \in [SUBSET {} -> Int] /\ Sums(h, f, {})
      BY DEF Sums
  <2> QED
      BY <2>1
<1>2. ASSUME NEW A \in SUBSET T, NEW y \in T \ A, A \in P PROVE A \cup {y} \in P
  <2>1. PICK h \in [SUBSET A -> Int] : Sums(h, f, A)
      BY <1>2
  <2> DEFINE U == A \cup {y}
             g == [B \in SUBSET U |-> IF y \in B THEN f[y] + h[B \ {y}] ELSE h[B]]
  <2>2. \A B \in SUBSET U : B \ {y} \in SUBSET A /\ (y \notin B => B \in SUBSET A)
      OBVIOUS
  <2>3. f[y] \in Int /\ \A B \in SUBSET A : h[B] \in Int
      OBVIOUS
  <2>4. g \in [SUBSET U -> Int]
    <3> HIDE DEF U
    <3> QED
        BY <2>2, <2>3
  <2>5. \A B \in SUBSET U : g[B] = IF y \in B THEN f[y] + h[B \ {y}] ELSE h[B]
      OBVIOUS
  <2>6. g[{}] = 0
      BY <2>1, <2>5 DEF Sums
  <2>7. ASSUME NEW B \in SUBSET U, NEW x \in U \ B
        PROVE  g[B \cup {x}] = f[x] + g[B]
    <3> HIDE DEF g
    <3>0. B \cup {x} \in SUBSET U /\ f[x] \in Int
        OBVIOUS
    <3>1. CASE x = y
      <4>1. (B \cup {x}) \ {y} = B /\ y \notin B /\ y \in B \cup {x}
          BY <3>1
      <4> QED
          BY <2>5, <3>0, <3>1, <4>1
    <3>2. CASE x # y /\ y \in B
      <4> DEFINE C == B \ {y}
      <4>1. (B \cup {x}) \ {y} = C \cup {x} /\ y \in B \cup {x} /\ C \in SUBSET A /\ x \in A \ C
          BY <3>2
      <4>2. h[C \cup {x}] = f[x] + h[C] /\ h[C] \in Int
          BY <2>1, <2>3, <4>1 DEF Sums
      <4>3. g[B \cup {x}] = f[y] + h[C \cup {x}] /\ g[B] = f[y] + h[C]
          BY <2>5, <3>0, <3>2, <4>1
      <4> HIDE DEF C
      <4> QED
          BY <2>3, <3>0, <4>2, <4>3
    <3>3. CASE x # y /\ y \notin B
      <4>1. y \notin B \cup {x} /\ B \in SUBSET A /\ x \in A \ B
          BY <3>3
      <4>2. h[B \cup {x}] = f[x] + h[B]
          BY <2>1, <4>1 DEF Sums
      <4> QED
          BY <2>5, <3>0, <4>1, <4>2
    <3> QED
        BY <3>1, <3>2, <3>3
  <2>8. Sums(g, f, U)
    <3> HIDE DEF g, U
    <3> QED
        BY <2>6, <2>7 DEF Sums
  <2> HIDE DEF g
  <2> QED
      BY <2>4, <2>8
<1> HIDE DEF P
<1>3. T \in P
    BY <1>1, <1>2, FiniteSetInduction
<1> QED
    BY <1>3 DEF P

\* The sum of the library is the one that such a function gives.
LEMMA SumIs ==
    ASSUME NEW T, IsFiniteSet(T), NEW f, \A x \in T : f[x] \in Int,
           NEW h \in [SUBSET T -> Int], Sums(h, f, T)
    PROVE  SumFunctionOnSet(f, T) = h[T]
<1> DEFINE pick(s) == CHOOSE x \in s : TRUE
           Step(s, g) == IF s = {} THEN 0 ELSE f[pick(s)] + g[s \ {pick(s)}]
           Eq(g) == g = [s \in SUBSET T |-> Step(s, g)]
           c == CHOOSE g : Eq(g)
<1>1. SumFunctionOnSet(f, T) = c[T]
    BY DEF SumFunctionOnSet, FoldFunctionOnSet, MapThenFoldSet
<1>2. ASSUME NEW s \in SUBSET T, s # {}
      PROVE  pick(s) \in s /\ s \ {pick(s)} \in SUBSET T /\ pick(s) \in T \ (s \ {pick(s)})
             /\ s = (s \ {pick(s)}) \cup {pick(s)}
    BY <1>2
<1>3. \A s \in SUBSET T : h[s] = Step(s, h)
  <2> SUFFICES ASSUME NEW s \in SUBSET T PROVE h[s] = Step(s, h)
      OBVIOUS
  <2>1. CASE s = {}
      BY <2>1 DEF Sums
  <2>2. CASE s # {}
    <3> DEFINE x == pick(s)
    <3>1. s \ {x} \in SUBSET T /\ x \in T \ (s \ {x}) /\ s = (s \ {x}) \cup {x}
        BY <1>2, <2>2
    <3> HIDE DEF x
    <3>2. h[(s \ {x}) \cup {x}] = f[x] + h[s \ {x}]
        BY <3>1 DEF Sums
    <3>3. h[s] = f[x] + h[s \ {x}]
        BY <3>1, <3>2
    <3> QED
        BY <2>2, <3>3 DEF x
  <2> QED
      BY <2>1, <2>2
<1>4. Eq(h)
  <2> HIDE DEF Step
  <2> QED
      BY <1>3
<1>5. Eq(c)
  <2> HIDE DEF Eq
  <2> QED
      BY <1>4
<1>6. \A s \in SUBSET T : c[s] = Step(s, c)
  <2> HIDE DEF c, Step
  <2> QED
      BY <1>5
<1> DEFINE N == {n \in Nat : \A A \in SUBSET T : Cardinality(A) = n => c[A] = h[A]}
<1> HIDE DEF c, pick
<1>7. 0 \in N
  <2>1. ASSUME NEW A \in SUBSET T, Cardinality(A) = 0 PROVE c[A] = h[A]
    <3>1. A = {}
        BY <2>1, FS_Subset, FS_EmptySet
    <3> QED
        BY <1>6, <3>1 DEF Sums
  <2> QED
      BY <2>1
<1>8. ASSUME NEW n \in N PROVE n + 1 \in N
  <2> SUFFICES ASSUME NEW A \in SUBSET T, Cardinality(A) = n + 1 PROVE c[A] = h[A]
      OBVIOUS
  <2>1. IsFiniteSet(A) /\ n \in Nat
      BY FS_Subset
  <2>2. A # {}
      BY <2>1, FS_EmptySet
  <2> DEFINE x == pick(A)
  <2>3. x \in A
      BY <1>2, <2>2
  <2> HIDE DEF x
  <2>4. Cardinality(A \ {x}) = n
    <3> HIDE DEF N
    <3>1. Cardinality(A \ {x}) = IF x \in A THEN Cardinality(A) - 1 ELSE Cardinality(A)
        BY <2>1, FS_RemoveElement, Zenon
    <3> QED
        BY <2>1, <2>3, <3>1
  <2>5. c[A \ {x}] = h[A \ {x}]
      BY <2>4
  <2>6. c[A] = f[x] + c[A \ {x}] /\ h[A] = f[x] + h[A \ {x}]
      BY <1>3, <1>6, <2>2 DEF x
  <2> QED
      BY <2>5, <2>6
<1>9. N = Nat
  <2> HIDE DEF N
  <2>1. N \subseteq Nat
      BY DEF N
  <2> QED
      BY <1>7, <1>8, <2>1, NatSetInduction
<1>10. c[T] = h[T]
    BY <1>9, FS_CardinalityType
<1> QED
    BY <1>1, <1>10

LEMMA SumEmpty ==
    ASSUME NEW f
    PROVE  SumFunctionOnSet(f, {}) = 0
<1>1. IsFiniteSet({}) /\ \A x \in {} : f[x] \in Int
    BY FS_EmptySet
<1>2. PICK h \in [SUBSET {} -> Int] : Sums(h, f, {})
    BY <1>1, SumsExist
<1>3. SumFunctionOnSet(f, {}) = h[{}]
    BY <1>1, <1>2, SumIs
<1> QED
    BY <1>2, <1>3 DEF Sums

\* One element more.
LEMMA SumAdd ==
    ASSUME NEW T, IsFiniteSet(T), NEW f, \A x \in T : f[x] \in Int,
           NEW y, y \notin T, f[y] \in Int
    PROVE  /\ SumFunctionOnSet(f, T) \in Int
           /\ SumFunctionOnSet(f, T \cup {y}) = f[y] + SumFunctionOnSet(f, T)
<1> DEFINE U == T \cup {y}
<1>1. IsFiniteSet(U) /\ (\A x \in U : f[x] \in Int) /\ T \in SUBSET U /\ y \in U \ T
    BY FS_AddElement
<1> HIDE DEF U
<1>2. PICK h \in [SUBSET U -> Int] : Sums(h, f, U)
    BY <1>1, SumsExist
<1>3. SumFunctionOnSet(f, U) = h[U]
    BY <1>1, <1>2, SumIs
<1> DEFINE g == [A \in SUBSET T |-> h[A]]
<1>4. g \in [SUBSET T -> Int] /\ \A A \in SUBSET T : g[A] = h[A]
    BY <1>1
<1> HIDE DEF g
<1>5. Sums(g, f, T)
  <2>1. g[{}] = 0
      BY <1>2, <1>4 DEF Sums
  <2>2. ASSUME NEW A \in SUBSET T, NEW x \in T \ A
        PROVE  g[A \cup {x}] = f[x] + g[A]
    <3>1. A \in SUBSET U /\ x \in U \ A /\ A \cup {x} \in SUBSET T
        BY <1>1
    <3>2. h[A \cup {x}] = f[x] + h[A]
        BY <1>2, <3>1 DEF Sums
    <3> QED
        BY <1>4, <3>1, <3>2
  <2> QED
      BY <2>1, <2>2 DEF Sums
<1>6. SumFunctionOnSet(f, T) = g[T] /\ g[T] = h[T] /\ g[T] \in Int
    BY <1>4, <1>5, SumIs
<1>7. h[T \cup {y}] = f[y] + h[T]
    BY <1>1, <1>2 DEF Sums
<1> QED
    BY <1>3, <1>6, <1>7 DEF U

LEMMA SumInt ==
    ASSUME NEW T, IsFiniteSet(T), NEW f, \A x \in T : f[x] \in Int
    PROVE  SumFunctionOnSet(f, T) \in Int
<1>1. PICK h \in [SUBSET T -> Int] : Sums(h, f, T)
    BY SumsExist
<1>2. SumFunctionOnSet(f, T) = h[T]
    BY <1>1, SumIs
<1> QED
    BY <1>2

LEMMA SumNat ==
    ASSUME NEW T, IsFiniteSet(T), NEW f, \A x \in T : f[x] \in Nat
    PROVE  SumFunctionOnSet(f, T) \in Nat
<1> DEFINE P == {A \in SUBSET T : SumFunctionOnSet(f, A) \in Nat}
<1>1. {} \in P
    BY SumEmpty
<1>2. ASSUME NEW A \in SUBSET T, NEW x \in T \ A, A \in P PROVE A \cup {x} \in P
  <2>1. IsFiniteSet(A) /\ (\A z \in A : f[z] \in Int) /\ f[x] \in Int /\ x \notin A
      BY FS_Subset
  <2>2. SumFunctionOnSet(f, A \cup {x}) = f[x] + SumFunctionOnSet(f, A)
      BY <2>1, SumAdd
  <2>3. SumFunctionOnSet(f, A) \in Nat /\ f[x] \in Nat
      BY <1>2
  <2> QED
      BY <2>2, <2>3
<1> HIDE DEF P
<1>3. T \in P
    BY <1>1, <1>2, FiniteSetInduction
<1> QED
    BY <1>3 DEF P

\* Functions that agree have the same sum.
LEMMA SumEqual ==
    ASSUME NEW T, IsFiniteSet(T), NEW f, NEW g,
           \A x \in T : f[x] \in Int /\ g[x] = f[x]
    PROVE  SumFunctionOnSet(f, T) = SumFunctionOnSet(g, T)
<1> DEFINE P == {A \in SUBSET T : SumFunctionOnSet(f, A) = SumFunctionOnSet(g, A)}
<1>1. {} \in P
    BY SumEmpty
<1>2. ASSUME NEW A \in SUBSET T, NEW x \in T \ A, A \in P PROVE A \cup {x} \in P
  <2>1. IsFiniteSet(A) /\ (\A z \in A : f[z] \in Int) /\ (\A z \in A : g[z] \in Int)
        /\ f[x] \in Int /\ g[x] \in Int /\ x \notin A /\ f[x] = g[x]
      BY FS_Subset
  <2>2. SumFunctionOnSet(f, A \cup {x}) = f[x] + SumFunctionOnSet(f, A)
      BY <2>1, SumAdd
  <2>3. SumFunctionOnSet(g, A \cup {x}) = g[x] + SumFunctionOnSet(g, A)
      BY <2>1, SumAdd
  <2> QED
      BY <1>2, <2>1, <2>2, <2>3
<1> HIDE DEF P
<1>3. T \in P
    BY <1>1, <1>2, FiniteSetInduction
<1> QED
    BY <1>3 DEF P

\* Two sums over one set add up.
LEMMA SumPlus ==
    ASSUME NEW T, IsFiniteSet(T), NEW f, NEW g, NEW h,
           \A x \in T : f[x] \in Int /\ g[x] \in Int /\ h[x] = f[x] + g[x]
    PROVE  SumFunctionOnSet(h, T) = SumFunctionOnSet(f, T) + SumFunctionOnSet(g, T)
<1> DEFINE P == {A \in SUBSET T :
                    /\ SumFunctionOnSet(f, A) \in Int
                    /\ SumFunctionOnSet(g, A) \in Int
                    /\ SumFunctionOnSet(h, A) = SumFunctionOnSet(f, A) + SumFunctionOnSet(g, A)}
<1>1. {} \in P
    BY SumEmpty
<1>2. ASSUME NEW A \in SUBSET T, NEW x \in T \ A, A \in P PROVE A \cup {x} \in P
  <2>1. /\ IsFiniteSet(A) /\ x \notin A
        /\ (\A z \in A : f[z] \in Int) /\ (\A z \in A : g[z] \in Int) /\ (\A z \in A : h[z] \in Int)
        /\ f[x] \in Int /\ g[x] \in Int /\ h[x] = f[x] + g[x]
      BY FS_Subset
  <2>2. SumFunctionOnSet(f, A \cup {x}) = f[x] + SumFunctionOnSet(f, A)
      BY <2>1, SumAdd
  <2>3. SumFunctionOnSet(g, A \cup {x}) = g[x] + SumFunctionOnSet(g, A)
      BY <2>1, SumAdd
  <2>4. h[x] \in Int
      BY <2>1
  <2>5. SumFunctionOnSet(h, A \cup {x}) = h[x] + SumFunctionOnSet(h, A)
      BY <2>1, <2>4, SumAdd
  <2>6. SumFunctionOnSet(f, A) \in Int /\ SumFunctionOnSet(g, A) \in Int
        /\ SumFunctionOnSet(h, A) = SumFunctionOnSet(f, A) + SumFunctionOnSet(g, A)
      BY <1>2
  <2> QED
      BY <2>1, <2>2, <2>3, <2>5, <2>6
<1> HIDE DEF P
<1>3. T \in P
    BY <1>1, <1>2, FiniteSetInduction
<1> QED
    BY <1>3 DEF P

\* The sum over two sets without a common element.
LEMMA SumUnion ==
    ASSUME NEW T, NEW U, IsFiniteSet(T), IsFiniteSet(U), T \cap U = {},
           NEW f, \A x \in T \cup U : f[x] \in Int
    PROVE  SumFunctionOnSet(f, T \cup U) = SumFunctionOnSet(f, T) + SumFunctionOnSet(f, U)
<1> DEFINE P == {A \in SUBSET U :
                    /\ SumFunctionOnSet(f, T) \in Int
                    /\ SumFunctionOnSet(f, A) \in Int
                    /\ SumFunctionOnSet(f, T \cup A) = SumFunctionOnSet(f, T) + SumFunctionOnSet(f, A)}
<1>0. SumFunctionOnSet(f, T) \in Int
    BY SumInt
<1>1. {} \in P
  <2>1. T \cup {} = T
      OBVIOUS
  <2> QED
      BY <1>0, <2>1, SumEmpty
<1>2. ASSUME NEW A \in SUBSET U, NEW x \in U \ A, A \in P PROVE A \cup {x} \in P
  <2>1. /\ IsFiniteSet(A) /\ IsFiniteSet(T \cup A) /\ x \notin A /\ x \notin T \cup A
        /\ (\A z \in A : f[z] \in Int) /\ (\A z \in T \cup A : f[z] \in Int) /\ f[x] \in Int
        /\ T \cup (A \cup {x}) = (T \cup A) \cup {x}
      BY FS_Subset, FS_Union
  <2>2. SumFunctionOnSet(f, A \cup {x}) = f[x] + SumFunctionOnSet(f, A)
      BY <2>1, SumAdd
  <2>3. SumFunctionOnSet(f, (T \cup A) \cup {x}) = f[x] + SumFunctionOnSet(f, T \cup A)
      BY <2>1, SumAdd
  <2>4. /\ SumFunctionOnSet(f, T) \in Int /\ SumFunctionOnSet(f, A) \in Int
        /\ SumFunctionOnSet(f, T \cup A) = SumFunctionOnSet(f, T) + SumFunctionOnSet(f, A)
      BY <1>2
  <2>5. SumFunctionOnSet(f, T \cup (A \cup {x})) = f[x] + SumFunctionOnSet(f, T \cup A)
      BY <2>1, <2>3
  <2> QED
      BY <2>1, <2>2, <2>4, <2>5
<1> HIDE DEF P
<1>3. U \in P
    BY <1>1, <1>2, FiniteSetInduction
<1> QED
    BY <1>3 DEF P

\* A sum times a factor.
LEMMA SumScale ==
    ASSUME NEW T, IsFiniteSet(T), NEW c \in Int, NEW f, NEW g,
           \A x \in T : f[x] \in Int /\ g[x] = c * f[x]
    PROVE  SumFunctionOnSet(g, T) = c * SumFunctionOnSet(f, T)
<1> DEFINE P == {A \in SUBSET T : SumFunctionOnSet(g, A) = c * SumFunctionOnSet(f, A)}
<1>1. {} \in P
    BY SumEmpty
<1>2. ASSUME NEW A \in SUBSET T, NEW x \in T \ A, A \in P PROVE A \cup {x} \in P
  <2>1. IsFiniteSet(A) /\ (\A z \in A : f[z] \in Int) /\ (\A z \in A : g[z] \in Int)
        /\ f[x] \in Int /\ g[x] \in Int /\ x \notin A /\ g[x] = c * f[x]
      BY FS_Subset
  <2>2. PICK a \in Int : a = SumFunctionOnSet(f, A)
      BY <2>1, SumInt
  <2>3. PICK b \in Int : b = f[x]
      BY <2>1
  <2>4. SumFunctionOnSet(f, A \cup {x}) = b + a
      BY <2>1, <2>2, <2>3, SumAdd
  <2>5. SumFunctionOnSet(g, A \cup {x}) = c * b + c * a
      BY <1>2, <2>1, <2>2, <2>3, SumAdd
  <2>6. c * (b + a) = c * b + c * a
      OBVIOUS
  <2> QED
      BY <2>4, <2>5, <2>6
<1> HIDE DEF P
<1>3. T \in P
    BY <1>1, <1>2, FiniteSetInduction
<1> QED
    BY <1>3 DEF P

\* A sum of terms below m is below as many times m.
LEMMA SumBelow ==
    ASSUME NEW T, IsFiniteSet(T), NEW m \in Int, NEW f,
           \A x \in T : f[x] \in Int /\ f[x] < m
    PROVE  /\ SumFunctionOnSet(f, T) \in Int /\ Cardinality(T) \in Nat
           /\ SumFunctionOnSet(f, T) + Cardinality(T) <= m * Cardinality(T)
<1> DEFINE P == {A \in SUBSET T :
                   SumFunctionOnSet(f, A) + Cardinality(A) <= m * Cardinality(A)}
<1>1. {} \in P
    BY SumEmpty, FS_EmptySet
<1>2. ASSUME NEW A \in SUBSET T, NEW x \in T \ A, A \in P PROVE A \cup {x} \in P
  <2>1. IsFiniteSet(A) /\ (\A z \in A : f[z] \in Int) /\ f[x] \in Int /\ x \notin A /\ f[x] < m
      BY FS_Subset
  <2>2. PICK a \in Int : a = SumFunctionOnSet(f, A)
      BY <2>1, SumInt
  <2>3. SumFunctionOnSet(f, A \cup {x}) = f[x] + a
      BY <2>1, <2>2, SumAdd
  <2>4. PICK n \in Nat : n = Cardinality(A)
      BY <2>1, FS_CardinalityType
  <2>5. Cardinality(A \cup {x}) = n + 1
      BY <2>1, <2>4, FS_AddElement
  <2>6. a + n <= m * n
      BY <1>2, <2>2, <2>4
  <2>7. m * (n + 1) = m * n + m /\ m * n \in Int
      OBVIOUS
  <2>8. (f[x] + a) + (n + 1) <= m * (n + 1)
      BY <2>1, <2>6, <2>7
  <2> QED
      BY <2>3, <2>5, <2>8
<1> HIDE DEF P
<1>3. T \in P
    BY <1>1, <1>2, FiniteSetInduction
<1> QED
    BY <1>3, SumInt, FS_CardinalityType DEF P

\* A sum of zeros and ones counts the ones.
LEMMA SumIndicator ==
    ASSUME NEW T, IsFiniteSet(T), NEW f, \A x \in T : f[x] \in {0, 1}
    PROVE  SumFunctionOnSet(f, T) = Cardinality({x \in T : f[x] = 1})
<1> DEFINE Ones(A) == {x \in A : f[x] = 1}
           P == {A \in SUBSET T : SumFunctionOnSet(f, A) = Cardinality(Ones(A))}
<1>1. {} \in P
  <2>1. Ones({}) = {}
      OBVIOUS
  <2>. QED
      BY <2>1, SumEmpty, FS_EmptySet
<1>2. ASSUME NEW A \in SUBSET T, NEW x \in T \ A, A \in P PROVE A \cup {x} \in P
  <2>1. IsFiniteSet(A) /\ (\A z \in A : f[z] \in Int) /\ f[x] \in {0, 1} /\ x \notin A
      BY FS_Subset
  <2>2. PICK a \in Int : a = SumFunctionOnSet(f, A)
      BY <2>1, SumInt
  <2>3. SumFunctionOnSet(f, A \cup {x}) = f[x] + a
      BY <2>1, <2>2, SumAdd
  <2>4. PICK B : B = Ones(A)
      OBVIOUS
  <2>5. IsFiniteSet(B) /\ x \notin B /\ Cardinality(B) = a
      BY <1>2, <2>1, <2>2, <2>4, FS_Subset
  <2>6. Ones(A \cup {x}) = IF f[x] = 1 THEN B \cup {x} ELSE B
      BY <2>1, <2>4
  <2>7. Cardinality(B \cup {x}) = a + 1
      BY <2>5, FS_AddElement
  <2>. HIDE DEF Ones
  <2>8. Cardinality(Ones(A \cup {x})) = f[x] + a
      BY <2>1, <2>5, <2>6, <2>7
  <2> QED
      BY <2>3, <2>8
<1> HIDE DEF P
<1>3. T \in P
    BY <1>1, <1>2, FiniteSetInduction
<1> QED
    BY <1>3 DEF P

\* In a total order as many elements have fewer than k before them as k says.
LEMMA RankCount ==
    ASSUME NEW T, IsFiniteSet(T), NEW before \in [T -> SUBSET T],
           \A x \in T : x \notin before[x],
           \A x, y \in T : x # y => x \in before[y] \/ y \in before[x],
           \A x, y \in T : x \in before[y] => before[x] \subseteq before[y],
           NEW k \in 0..Cardinality(T)
    PROVE  Cardinality({x \in T : Cardinality(before[x]) < k}) = k
<1>1. PICK n \in Nat : n = Cardinality(T)
    BY FS_CardinalityType
<1>2. \A x \in T : IsFiniteSet(before[x]) /\ Cardinality(before[x]) \in 0..(n - 1)
  <2> SUFFICES ASSUME NEW x \in T
               PROVE  IsFiniteSet(before[x]) /\ Cardinality(before[x]) \in 0..(n - 1)
      OBVIOUS
  <2>1. IsFiniteSet(T \ {x}) /\ Cardinality(T \ {x}) = n - 1
      BY <1>1, FS_RemoveElement
  <2>2. before[x] \in SUBSET (T \ {x})
      OBVIOUS
  <2>3. IsFiniteSet(before[x]) /\ Cardinality(before[x]) <= n - 1
      BY <2>1, <2>2, FS_Subset
  <2>4. Cardinality(before[x]) \in Nat
      BY <2>3, FS_CardinalityType
  <2>. QED
      BY <1>1, <2>3, <2>4
<1>3. PICK rank : rank = [x \in T |-> Cardinality(before[x])]
    OBVIOUS
<1>4. rank \in [T -> 0..(n - 1)]
    BY <1>2, <1>3
<1>5. \A x, y \in T : x \in before[y] => rank[x] < rank[y]
  <2> SUFFICES ASSUME NEW x \in T, NEW y \in T, x \in before[y] PROVE rank[x] < rank[y]
      OBVIOUS
  <2>1. before[x] \in SUBSET (before[y] \ {x})
      OBVIOUS
  <2>2. IsFiniteSet(before[y]) /\ Cardinality(before[y]) \in Nat
      BY <1>2
  <2>3. /\ IsFiniteSet(before[y] \ {x})
        /\ Cardinality(before[y] \ {x}) = Cardinality(before[y]) - 1
      BY <2>2, FS_RemoveElement
  <2>4. Cardinality(before[x]) <= Cardinality(before[y]) - 1 /\ Cardinality(before[x]) \in Nat
      BY <1>2, <2>1, <2>3, FS_Subset
  <2>. QED
      BY <1>3, <2>2, <2>4
<1>6. \A x, y \in T : rank[x] = rank[y] => x = y
  <2> SUFFICES ASSUME NEW x \in T, NEW y \in T, rank[x] = rank[y], x # y PROVE FALSE
      OBVIOUS
  <2>1. rank[x] \in Int /\ rank[x] < rank[x]
      BY <1>4, <1>5
  <2>. QED
      BY <2>1
<1>7. rank \in Injection(T, 0..(n - 1))
    BY <1>4, <1>6 DEF Injection, IsInjective
<1>8. IsFiniteSet(0..(n - 1)) /\ Cardinality(0..(n - 1)) = n
    BY FS_Interval
<1>9. rank \in Surjection(T, 0..(n - 1))
    BY <1>1, <1>7, <1>8, FS_Injection
<1>10. \A j \in 0..(n - 1) : \E x \in T : rank[x] = j
    BY <1>9 DEF Surjection
<1>11. PICK A : A = {x \in T : rank[x] < k}
    OBVIOUS
<1>12. PICK f : f = [x \in A |-> rank[x]]
    OBVIOUS
<1>13. f \in Bijection(A, 0..(k - 1))
  <2>1. f \in [A -> 0..(k - 1)]
      BY <1>1, <1>4, <1>11, <1>12
  <2>2. \A x, y \in A : f[x] = f[y] => x = y
      BY <1>6, <1>11, <1>12
  <2>3. ASSUME NEW j \in 0..(k - 1) PROVE \E x \in A : f[x] = j
    <3>1. j \in 0..(n - 1)
        BY <1>1
    <3>2. PICK x \in T : rank[x] = j
        BY <1>10, <3>1
    <3>3. x \in A
        BY <1>11, <3>2
    <3>. QED
        BY <1>12, <3>2, <3>3
  <2>. QED
      BY <2>1, <2>2, <2>3 DEF Bijection, Injection, Surjection, IsInjective
<1>14. IsFiniteSet(A)
    BY <1>11, FS_Subset
<1>15. Cardinality(A) = Cardinality(0..(k - 1))
    BY <1>13, <1>14, FS_Bijection DEF ExistsBijection
<1>16. Cardinality(0..(k - 1)) = k
    BY FS_Interval
<1>17. A = {x \in T : Cardinality(before[x]) < k}
    BY <1>3, <1>11
<1>. QED
    BY <1>15, <1>16, <1>17

\* Elements where the value is zero add nothing.
LEMMA SumPart ==
    ASSUME NEW T, IsFiniteSet(T), NEW A \in SUBSET T, NEW f, NEW g,
           \A x \in T : g[x] = (IF x \in A THEN f[x] ELSE 0), \A x \in A : f[x] \in Int
    PROVE  SumFunctionOnSet(f, A) = SumFunctionOnSet(g, T)
<1> DEFINE P == {B \in SUBSET T : SumFunctionOnSet(f, A \cap B) = SumFunctionOnSet(g, B)}
<1>1. {} \in P
  <2>1. A \cap {} = {}
      OBVIOUS
  <2>. QED
      BY <2>1, SumEmpty
<1>2. ASSUME NEW B \in SUBSET T, NEW x \in T \ B, B \in P PROVE B \cup {x} \in P
  <2>1. /\ IsFiniteSet(B) /\ (\A z \in B : g[z] \in Int) /\ g[x] \in Int /\ x \notin B
        /\ IsFiniteSet(A \cap B) /\ \A z \in A \cap B : f[z] \in Int
      BY FS_Subset
  <2>2. PICK b \in Int : b = SumFunctionOnSet(g, B)
      BY <2>1, SumInt
  <2>3. SumFunctionOnSet(g, B \cup {x}) = g[x] + b
      BY <2>1, <2>2, SumAdd
  <2>4. SumFunctionOnSet(f, A \cap B) = b
      BY <1>2, <2>2
  <2>5. CASE x \in A
    <3>1. A \cap (B \cup {x}) = (A \cap B) \cup {x} /\ x \notin A \cap B /\ f[x] \in Int /\ g[x] = f[x]
        BY <2>1, <2>5
    <3>2. SumFunctionOnSet(f, (A \cap B) \cup {x}) = f[x] + SumFunctionOnSet(f, A \cap B)
        BY <2>1, <3>1, SumAdd
    <3>3. SumFunctionOnSet(f, A \cap (B \cup {x})) = SumFunctionOnSet(g, B \cup {x})
        BY <2>3, <2>4, <3>1, <3>2
    <3>. QED
        BY <3>3
  <2>6. CASE x \notin A
    <3>1. A \cap (B \cup {x}) = A \cap B /\ g[x] = 0
        BY <2>6
    <3>3. SumFunctionOnSet(f, A \cap (B \cup {x})) = SumFunctionOnSet(g, B \cup {x})
      <4>1. SumFunctionOnSet(f, A \cap (B \cup {x})) = SumFunctionOnSet(f, A \cap B)
          BY <3>1
      <4>2. SumFunctionOnSet(g, B \cup {x}) = b
          BY <2>2, <2>3, <3>1
      <4>. QED
          BY <2>4, <4>1, <4>2
    <3>. QED
        BY <3>3
  <2>. QED
      BY <2>5, <2>6
<1> HIDE DEF P
<1>3. T \in P
    BY <1>1, <1>2, FiniteSetInduction
<1>4. A \cap T = A
    OBVIOUS
<1>. QED
    BY <1>3, <1>4 DEF P

LEMMA IntervalUp ==
    ASSUME NEW n \in Nat
    PROVE  /\ IsFiniteSet(1..n) /\ n + 1 \notin 1..n
           /\ 1..(n + 1) = (1..n) \cup {n + 1}
<1>1. IsFiniteSet(1..n)
    BY FS_Interval
<1>. QED
    BY <1>1

\* What a sequence of numbers adds up to.
Total(v) == SumFunctionOnSet(v, 1..Len(v))

LEMMA TotalAppend ==
    ASSUME NEW v \in Seq(Nat), NEW x \in Nat
    PROVE  Total(v) \in Nat /\ Total(Append(v, x)) = Total(v) + x
<1>1. PICK n \in Nat : n = Len(v)
    BY LenProperties
<1>2. PICK u : u = Append(v, x)
    OBVIOUS
<1>3. Len(u) = n + 1 /\ u[n + 1] = x /\ \A i \in 1..n : u[i] = v[i] /\ v[i] \in Nat
    BY <1>1, <1>2, AppendProperties, ElementOfSeq
<1>4. IsFiniteSet(1..n) /\ 1..(n + 1) = (1..n) \cup {n + 1} /\ n + 1 \notin 1..n
    BY IntervalUp
<1>5. SumFunctionOnSet(u, (1..n) \cup {n + 1}) = x + SumFunctionOnSet(u, 1..n)
  <2>1. (\A i \in 1..n : u[i] \in Int) /\ u[n + 1] \in Int
      BY <1>3
  <2>. QED
      BY <1>3, <1>4, <2>1, SumAdd
<1>6. SumFunctionOnSet(v, 1..n) = SumFunctionOnSet(u, 1..n)
  <2>1. \A i \in 1..n : v[i] \in Int /\ u[i] = v[i]
      BY <1>3
  <2>. QED
      BY <1>4, <2>1, SumEqual
<1>7. PICK t \in Nat : t = SumFunctionOnSet(v, 1..n)
    BY <1>3, <1>4, SumNat
<1>8. Total(v) = t
    BY <1>1, <1>7 DEF Total
<1>9. Total(u) = x + t
    BY <1>3, <1>4, <1>5, <1>6, <1>7 DEF Total
<1>. QED
    BY <1>2, <1>7, <1>8, <1>9

LEMMA TotalEmpty == Total(<<>>) = 0
<1>1. Len(<<>>) = 0 /\ 1..0 = {}
    BY EmptySeq
<1>. QED
    BY <1>1, SumEmpty DEF Total

\* Dropping leading zeros changes nothing: v is w after k zeros.
LEMMA TotalDrop ==
    ASSUME NEW v \in Seq(Nat), NEW k \in Nat, NEW n \in Nat, Len(v) = k + n,
           \A i \in 1..k : v[i] = 0,
           NEW w \in Seq(Nat), Len(w) = n, \A i \in 1..n : w[i] = v[k + i]
    PROVE  Total(w) = Total(v)
<1> DEFINE P == {m \in Nat : m <= n => SumFunctionOnSet(w, 1..m) = SumFunctionOnSet(v, 1..(k + m))}
<1>1. 0 \in P
  <2>1. IsFiniteSet(1..k) /\ IsFiniteSet({}) /\ {} \in SUBSET (1..k) /\ 1..0 = {} /\ k + 0 = k
      BY FS_Interval, FS_EmptySet
  <2>2. \A i \in 1..k : v[i] = (IF i \in {} THEN w[i] ELSE 0)
      OBVIOUS
  <2>3. SumFunctionOnSet(w, {}) = SumFunctionOnSet(v, 1..k)
    <3>1. \A x \in {} : w[x] \in Int
        OBVIOUS
    <3>. QED
        BY <2>1, <2>2, <3>1, SumPart, SMTT(30)
  <2>. QED
      BY <2>1, <2>3
<1>2. ASSUME NEW m \in P PROVE m + 1 \in P
  <2> SUFFICES ASSUME m + 1 <= n
               PROVE  SumFunctionOnSet(w, 1..(m + 1)) = SumFunctionOnSet(v, 1..(k + (m + 1)))
      BY <1>2
  <2>1. PICK q \in Nat : q = m
      BY <1>2
  <2>2. \A i \in 1..(k + n) : v[i] \in Nat
      BY ElementOfSeq
  <2>3. \A i \in 1..n : w[i] \in Nat
      BY ElementOfSeq
  <2>4. /\ 1..(q + 1) = (1..q) \cup {q + 1} /\ q + 1 \notin 1..q /\ q + 1 \in 1..n
        /\ \A i \in 1..q : i \in 1..n
      BY <2>1
  <2>5. /\ 1..(k + (q + 1)) = (1..(k + q)) \cup {k + (q + 1)} /\ k + (q + 1) \notin 1..(k + q)
        /\ k + (q + 1) \in 1..(k + n) /\ IsFiniteSet(1..(k + q))
        /\ \A i \in 1..(k + q) : i \in 1..(k + n)
    <3>1. PICK r \in Nat : r = k + q
        OBVIOUS
    <3>2. k + (q + 1) = r + 1
        BY <3>1
    <3>3. /\ 1..(r + 1) = (1..r) \cup {r + 1} /\ r + 1 \notin 1..r /\ IsFiniteSet(1..r)
        BY IntervalUp
    <3>4. r + 1 \in 1..(k + n) /\ \A i \in 1..r : i \in 1..(k + n)
        BY <2>1, <3>1
    <3>. QED
        BY <3>1, <3>2, <3>3, <3>4
  <2>6. SumFunctionOnSet(w, (1..q) \cup {q + 1}) = w[q + 1] + SumFunctionOnSet(w, 1..q)
    <3>1. IsFiniteSet(1..q) /\ (\A i \in 1..q : w[i] \in Int) /\ w[q + 1] \in Int
        BY <2>1, <2>3, <2>4, IntervalUp
    <3>. QED
        BY <2>4, <3>1, SumAdd
  <2>7. SumFunctionOnSet(v, (1..(k + q)) \cup {k + (q + 1)})
          = v[k + (q + 1)] + SumFunctionOnSet(v, 1..(k + q))
    <3>1. (\A i \in 1..(k + q) : v[i] \in Int) /\ v[k + (q + 1)] \in Int
        BY <2>2, <2>5
    <3>. QED
        BY <2>5, <3>1, SumAdd
  <2>8. SumFunctionOnSet(w, 1..q) = SumFunctionOnSet(v, 1..(k + q))
      BY <1>2, <2>1
  <2>9. w[q + 1] = v[k + (q + 1)]
      BY <2>4
  <2>. QED
      BY <2>1, <2>4, <2>5, <2>6, <2>7, <2>8, <2>9
<1>3. P = Nat
  <2>1. P \in SUBSET Nat
      OBVIOUS
  <2> HIDE DEF P
  <2>. QED
      BY <1>1, <1>2, <2>1, NatSetInduction
<1>4. SumFunctionOnSet(w, 1..n) = SumFunctionOnSet(v, 1..(k + n))
    BY <1>3
<1>. QED
    BY <1>4 DEF Total

\* The first number of a sequence and the rest.
LEMMA TotalTail ==
    ASSUME NEW v \in Seq(Nat), v # <<>>
    PROVE  Total(Tail(v)) \in Nat /\ Total(v) = v[1] + Total(Tail(v))
<1> DEFINE P == {s \in Seq(Nat) : s # <<>> => Total(s) = s[1] + Total(Tail(s))}
<1>1. <<>> \in P
    BY EmptySeq
<1>2. ASSUME NEW s \in P, NEW e \in Nat PROVE Append(s, e) \in P
  <2>1. s \in Seq(Nat) /\ (s # <<>> => Total(s) = s[1] + Total(Tail(s)))
      BY <1>2
  <2>2. PICK a : a = Append(s, e)
      OBVIOUS
  <2>3. /\ a \in Seq(Nat) /\ Total(a) = Total(s) + e /\ Total(s) \in Nat
        /\ Tail(a) = IF s = <<>> THEN <<>> ELSE Append(Tail(s), e)
        /\ \A i \in 1..Len(s) : a[i] = s[i]
        /\ a[Len(s) + 1] = e
    <3>1. Total(a) = Total(s) + e /\ Total(s) \in Nat
        BY <2>1, <2>2, TotalAppend
    <3>2. Tail(a) = IF s = <<>> THEN <<>> ELSE Append(Tail(s), e)
        BY <2>1, <2>2, HeadTailAppend
    <3>3. /\ a \in Seq(Nat) /\ a[Len(s) + 1] = e
          /\ \A i \in 1..Len(s) : a[i] = s[i]
        BY <2>1, <2>2, AppendProperties
    <3>. QED
        BY <3>1, <3>2, <3>3
  <2>4. CASE s = <<>>
    <3>1. Len(s) = 0
        BY <2>1, <2>4, EmptySeq
    <3>2. Total(s) = 0
        BY <2>4, TotalEmpty
    <3>3. Tail(a) = s /\ a[1] = e
        BY <2>3, <2>4, <3>1
    <3>4. Total(a) = a[1] + Total(Tail(a))
      <4>1. Total(Tail(a)) = 0 /\ Total(a) = 0 + e
          BY <2>3, <3>2, <3>3
      <4>. QED
          BY <3>3, <4>1
    <3>. QED
        BY <2>2, <2>3, <3>4
  <2>5. CASE s # <<>>
    <3>1. Tail(s) \in Seq(Nat) /\ 1 \in 1..Len(s) /\ s[1] \in Nat
      <4>1. Len(s) \in Nat /\ Len(s) # 0
          BY <2>1, <2>5, LenProperties, EmptySeq
      <4>2. 1 \in 1..Len(s)
          BY <4>1
      <4>. QED
          BY <2>1, <2>5, <4>2, HeadTailProperties, ElementOfSeq
    <3>2. Total(Append(Tail(s), e)) = Total(Tail(s)) + e /\ Total(Tail(s)) \in Nat
        BY <3>1, TotalAppend
    <3>3. a[1] = s[1]
        BY <2>3, <3>1
    <3>4. Total(a) = a[1] + Total(Tail(a))
      <4>1. PICK x \in Nat : x = Total(Tail(s))
          BY <3>2
      <4>2. Total(Tail(a)) = x + e
          BY <2>3, <2>5, <3>2, <4>1
      <4>3. Total(s) = s[1] + x
          BY <2>1, <2>5, <4>1
      <4>. QED
          BY <2>3, <3>1, <3>3, <4>2, <4>3
    <3>. QED
        BY <2>2, <2>3, <3>4
  <2>. QED
      BY <2>4, <2>5
<1>3. P = Seq(Nat)
  <2>1. P \in SUBSET Seq(Nat)
      OBVIOUS
  <2> HIDE DEF P
  <2>. QED
      BY <1>1, <1>2, <2>1, SeqSetInduction
<1>4. Tail(v) \in Seq(Nat)
    BY HeadTailProperties
<1>5. Total(Tail(v)) \in Nat
    BY <1>4, TotalAppend
<1>. QED
    BY <1>3, <1>5
=============================================================================
