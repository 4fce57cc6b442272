--------------------------- MODULE PoolServerProofs ---------------------------
(***************************************************************************)
(* The pool server credits a header once per run, holds the income of      *)
(* every block it gave to the node until that block is buried, and never   *)
(* sheds a block, for any node, any number of handlers and any bounds.     *)
(***************************************************************************)
EXTENDS PoolServer, DataLemmas

Template == [parent : Chains, body : Body]
Entry    == [blk : Ours, counted : BOOLEAN]
IsLedger(w) == DOMAIN w \subseteq Ours /\ w \in [DOMAIN w -> Nat]

Shares == {NoShare} \cup [pc : {"hashed", "send"}, tpl : Template, nonce : Nonce]
Intros == [pc : {"intro"}, tip : Nat, pending : SUBSET Ours, immature : SUBSET Ours]
Hashes == [pc : {"hashes"}, tip : Nat, pending : SUBSET Ours, immature : SUBSET Ours,
           fresh : Template, todo : SUBSET Nat, got : SUBSET Chains]
Values == [pc : {"balance"}, bal : Nat] \cup [pc : {"fees"}, bal : Nat, priced : Seq(Entry)]

NodeTypes ==
    /\ chain \in Chains
    /\ sent \subseteq Ours
    /\ IsFiniteSet(sent)
    /\ rivalled \subseteq sent

PoolTypes ==
    /\ tpl \in Template
    /\ seen \subseteq (1..MaxHeight + 1) \X Nonce
    /\ IsLedger(window)
    /\ IsLedger(loaded)
    /\ submitted \in Seq(Ours)
    /\ immature \in Seq(Entry)

FileTypes ==
    /\ IsLedger(file.window)
    /\ file.submitted \in Seq(Ours)
    /\ file.immature \in Seq(Entry)

ThreadTypes ==
    /\ hd \in [Handler -> Shares]
    /\ tc \in {TplIdle} \cup Intros \cup Hashes
    /\ st \in {StIdle} \cup Values
    /\ budget \in [share : [Nonce -> Nat], restart : Nat, valuation : Nat]

Types == NodeTypes /\ PoolTypes /\ FileTypes /\ ThreadTypes

(* The template, and the one the template thread prepares, are on a chain  *)
(* the node had, so the height of the template never drops.                *)
Tips ==
    /\ Len(tpl.parent) <= Len(chain)
    /\ tc.pc # "idle" => Len(tpl.parent) <= tc.tip /\ tc.tip <= Len(chain)
    /\ tc.pc = "hashes" =>
          /\ Len(tc.fresh.parent) = tc.tip
          /\ tc.todo \subseteq 1..tc.tip
          /\ \A g \in tc.got : Len(g) <= tc.tip

(* A header that was credited in this run cannot be credited again: its    *)
(* height is over or its key is in seen.                                   *)
Taken(b) == Len(b) < Height(tpl) \/ <<Len(b), b[Len(b)][2]>> \in seen
Once ==
    \A b \in DOMAIN window :
        \/ window[b] <= Credits(loaded, b)
        \/ window[b] = Credits(loaded, b) + 1 /\ Taken(b)

(* The chain has no block of this pool that the node was not given, and    *)
(* the history of rivals is up to date.                                    *)
Honest == Holds(chain, sent) /\ Rivals(chain, sent) \subseteq rivalled

(* A block is held back in memory and in the file, or need not be.         *)
Kept(b)  == b \in Blocks(immature) /\ b \in Blocks(file.immature)
Freed(b) == Deep(b) \/ b \in rivalled

(* A block on its way to the node may have lost its entry to a rival that  *)
(* is deep enough already: then it becomes one that had a rival.           *)
SendHeld(h) ==
    LET b == Header(hd[h].tpl, hd[h].nonce)
    IN  Kept(b) \/ Freed(b) \/ (b \notin sent /\ Len(b) <= Len(chain))

Held ==
    /\ \A b \in sent : Kept(b) \/ Freed(b)
    /\ \A h \in Handler : hd[h].pc = "send" => SendHeld(h)
    /\ tc.pc = "hashes" =>
          \A g \in tc.got : \A b \in sent : Len(b) = Len(g) /\ b # g => b \in rivalled

(* A valuation read the balance of the blocks M; the fees of those that    *)
(* still matter are counted or about to be.                                *)
Known(entries, priced, b) ==
    \E e \in Range(entries) :
        /\ e.blk = b
        /\ e.counted \/ \E p \in Range(priced) : p.blk = b

FeesKnown(b) == Known(immature, st.priced, b)

ValuedBy(M) ==
    /\ st.bal = (Subsidy + Fees) * Cardinality(M)
    /\ \A b \in M : OnChain(b) \/ b \in rivalled
    /\ st.pc = "fees" => \A b \in M : Freed(b) \/ FeesKnown(b)

Valued == st.pc # "idle" => \E M \in SUBSET sent : ValuedBy(M)

IInv == Types /\ Tips /\ Once /\ Honest /\ Held /\ Valued
-----------------------------------------------------------------------------
(* Chains and blocks as sequences.                                         *)

AnyBlock == Mined \cup (Body \X Nonce)

\* A chain is a sequence of at most MaxHeight blocks.
LEMMA ChainType ==
    ASSUME NEW c \in Chains
    PROVE  /\ c \in Seq(Mined)
           /\ c \in Seq(AnyBlock)
           /\ Len(c) \in 0..MaxHeight
           /\ c \in [1..Len(c) -> Mined]
<1>1. PICK n \in 0..MaxHeight : c \in [1..n -> Mined]
    BY DEF Chains
<1>2. n \in Nat
    BY BoundAssumption
<1>3. c \in Seq(Mined) /\ Len(c) = n
    BY <1>1, <1>2
<1>. QED
    BY <1>1, <1>3, SeqOfSubset DEF AnyBlock

\* What lies below a height of a chain is a chain.
LEMMA PrefixType ==
    ASSUME NEW c \in Chains, NEW n \in 0..Len(c)
    PROVE  /\ SubSeq(c, 1, n) \in Chains
           /\ Len(SubSeq(c, 1, n)) = n
           /\ \A i \in 1..n : SubSeq(c, 1, n)[i] = c[i]
<1>1. c \in Seq(Mined) /\ Len(c) \in 0..MaxHeight /\ c \in [1..Len(c) -> Mined]
    BY ChainType
<1>2. MaxHeight \in Nat
    BY BoundAssumption
<1>3. /\ SubSeq(c, 1, n) \in [1..n -> Mined]
      /\ Len(SubSeq(c, 1, n)) = n
      /\ \A i \in 1..n : SubSeq(c, 1, n)[i] = c[i]
  <2>1. 1 \in 1..(Len(c) + 1) /\ n \in 0..Len(c) /\ n \in Nat /\ Len(c) \in Nat
    BY <1>1, <1>2
  <2>2. SubSeq(c, 1, n) \in Seq(Mined) /\ Len(SubSeq(c, 1, n)) = n
    BY <1>1, <2>1, SubSeqProperties
  <2>3. \A i \in 1..n : SubSeq(c, 1, n)[i] = c[i]
    BY <1>1, <2>1, SubSeqProperties
  <2>. QED
    BY <2>2, <2>3, LenProperties
<1>4. n \in 0..MaxHeight
    BY <1>1, <1>2
<1>. QED
    BY <1>3, <1>4 DEF Chains

\* A block of this pool ends in a header of this pool.
LEMMA OursType ==
    ASSUME NEW b \in Ours
    PROVE  /\ b \in Seq(AnyBlock)
           /\ Len(b) \in 1..(MaxHeight + 1)
           /\ b[Len(b)] \in Body \X Nonce
<1>1. PICK body \in Body, c \in Chains, n \in Nonce : b = Append(c, <<body, n>>)
    BY DEF Ours
<1>2. c \in Seq(AnyBlock) /\ Len(c) \in 0..MaxHeight /\ MaxHeight \in Nat
    BY ChainType, BoundAssumption
<1>3. <<body, n>> \in AnyBlock /\ <<body, n>> \in Body \X Nonce
    BY DEF AnyBlock
<1>4. /\ Append(c, <<body, n>>) \in Seq(AnyBlock)
      /\ Len(Append(c, <<body, n>>)) = Len(c) + 1
      /\ Append(c, <<body, n>>)[Len(c) + 1] = <<body, n>>
    BY <1>2, <1>3, AppendProperties
<1>5. Len(b) = Len(c) + 1 /\ b[Len(c) + 1] = <<body, n>> /\ b \in Seq(AnyBlock)
    BY <1>1, <1>4
<1>. QED
    BY <1>2, <1>3, <1>5

\* The header of a template, its height and its key in seen.
LEMMA HeaderType ==
    ASSUME NEW t \in Template, NEW n \in Nonce
    PROVE  /\ Header(t, n) \in Ours
           /\ Len(Header(t, n)) = Height(t)
           /\ Key(t, n) = <<Len(Header(t, n)), Header(t, n)[Len(Header(t, n))][2]>>
           /\ Height(t) \in 1..(MaxHeight + 1)
           /\ Key(t, n) \in (1..MaxHeight + 1) \X Nonce
<1>1. t.parent \in Chains /\ t.body \in Body
    BY DEF Template
<1>2. t.parent \in Seq(AnyBlock) /\ Len(t.parent) \in 0..MaxHeight /\ MaxHeight \in Nat
    BY <1>1, ChainType, BoundAssumption
<1>3. <<t.body, n>> \in AnyBlock
    BY <1>1 DEF AnyBlock
<1>4. /\ Len(Append(t.parent, <<t.body, n>>)) = Len(t.parent) + 1
      /\ Append(t.parent, <<t.body, n>>)[Len(t.parent) + 1] = <<t.body, n>>
    BY <1>2, <1>3, AppendProperties
<1>5. Len(Header(t, n)) = Height(t) /\ Header(t, n)[Height(t)] = <<t.body, n>>
    BY <1>4 DEF Header, Height
<1>6. Header(t, n) \in Ours
    BY <1>1 DEF Header, Ours
<1>7. Height(t) \in 1..(MaxHeight + 1)
    BY <1>2 DEF Height
<1>8. Key(t, n) = <<Height(t), n>>
    BY DEF Key
<1>. QED
    BY <1>5, <1>6, <1>7, <1>8

\* A block is on a chain when the chain has it at its height.
LEMMA PrefixMeans ==
    ASSUME NEW b \in Ours \cup Chains, NEW c \in Chains
    PROVE  IsPrefix(b, c) <=> Len(b) <= Len(c) /\ SubSeq(c, 1, Len(b)) = b
<1>1. b \in Seq(AnyBlock) /\ c \in Seq(AnyBlock)
    BY OursType, ChainType
<1>2. SubSeq(b, 1, Len(b)) = b
    BY <1>1, SubSeqFull
<1>. QED
    BY <1>2 DEF IsPrefix

\* The node has no block of this pool that it was not given.
LEMMA Unsent ==
    ASSUME NEW c \in Chains, NEW bs, Holds(c, bs), NEW b \in Ours, b \notin bs
    PROVE  ~IsPrefix(b, c)
<1>. SUFFICES ASSUME IsPrefix(b, c) PROVE FALSE
    OBVIOUS
<1>1. b \in Seq(AnyBlock) /\ Len(b) \in 1..(MaxHeight + 1) /\ b[Len(b)] \in Body \X Nonce
    BY OursType
<1>2. c \in Seq(AnyBlock) /\ Len(c) \in Nat /\ Len(b) \in Nat
    BY <1>1, ChainType, BoundAssumption
<1>3. Len(b) <= Len(c) /\ SubSeq(c, 1, Len(b)) = b
    BY PrefixMeans
<1>4. Len(b) \in 0..Len(c) /\ Len(b) \in 1..Len(b) /\ Len(b) \in 1..Len(c)
    BY <1>1, <1>2, <1>3
<1>5. SubSeq(c, 1, Len(b))[Len(b)] = c[Len(b)]
    BY <1>4, PrefixType
<1>6. c[Len(b)] \in Body \X Nonce
    BY <1>1, <1>3, <1>5
<1>7. c[Len(b)] \notin Other
    BY <1>6, OtherAssumption
<1>8. SubSeq(c, 1, Len(b)) \in bs
    BY <1>4, <1>7 DEF Holds
<1>. QED
    BY <1>3, <1>8
-----------------------------------------------------------------------------
(* The hold-back entries.                                                  *)

\* The first number of a set of numbers is one of them.
LEMMA MinIsMember ==
    ASSUME NEW S \in SUBSET Nat, S # {}
    PROVE  Min(S) \in S
BY LeastNumber DEF Min

\* Blocks is the image of the entries.
LEMMA BlocksRange ==
    ASSUME NEW s
    PROVE  \A b : b \in Blocks(s) <=> \E e \in Range(s) : e.blk = b
BY DEF Blocks, Range

\* A new entry adds its block.
LEMMA BlocksAppend ==
    ASSUME NEW s \in Seq(Entry), NEW e \in Entry
    PROVE  Blocks(Append(s, e)) = Blocks(s) \cup {e.blk}
<1>1. Range(Append(s, e)) = Range(s) \cup {e}
    BY RangeOfAppend
<1>. QED
    BY <1>1, BlocksRange

\* Releasing the entries of a set of blocks leaves those of the others.
LEMMA BlocksRelease ==
    ASSUME NEW s \in Seq(Entry), NEW bs
    PROVE  Blocks(Filter(s, {e \in Range(s) : e.blk \notin bs})) = Blocks(s) \ bs
<1>1. Range(Filter(s, {e \in Range(s) : e.blk \notin bs}))
        = {e \in Range(s) : e.blk \notin bs}
    BY FilterRange
<1>. QED
    BY <1>1, BlocksRange

\* What folding may do to the entries: count more of them.
Counts(old, new) ==
    /\ new \in Seq(Entry)
    /\ Len(new) = Len(old)
    /\ \A i \in 1..Len(old) : new[i].blk = old[i].blk /\ (old[i].counted => new[i].counted)

\* The block has an entry with its fees.
HasFees(entries, b) == \E i \in 1..Len(entries) : entries[i].blk = b /\ entries[i].counted

LEMMA CountsBlocks ==
    ASSUME NEW s \in Seq(Entry), NEW t, Counts(s, t)
    PROVE  Blocks(t) = Blocks(s)
<1>1. t \in Seq(Entry) /\ Len(t) = Len(s) /\ Len(s) \in Nat
    BY LenProperties DEF Counts
<1>2. DOMAIN t = 1..Len(s) /\ DOMAIN s = 1..Len(s)
    BY <1>1, LenProperties
<1>3. \A i \in 1..Len(s) : t[i].blk = s[i].blk
    BY DEF Counts
<1>. QED
    BY <1>2, <1>3 DEF Blocks

LEMMA CountsTransitive ==
    ASSUME NEW s \in Seq(Entry), NEW t, NEW u, Counts(s, t), Counts(t, u)
    PROVE  Counts(s, u)
BY DEF Counts

\* Fees that are known stay known.
LEMMA CountsKeepFees ==
    ASSUME NEW s \in Seq(Entry), NEW t, Counts(s, t), NEW b, HasFees(s, b)
    PROVE  HasFees(t, b)
BY DEF Counts, HasFees

\* One step of the fold: entries stay, and the block, if held back, has its fees.
LEMMA FoldStep ==
    ASSUME NEW s \in Seq(Entry), NEW e \in Entry
    PROVE  /\ Counts(s, fold_block_fees(s, e))
           /\ e.blk \in Blocks(s) => HasFees(fold_block_fees(s, e), e.blk)
<1> DEFINE open == {i \in DOMAIN s : s[i].blk = e.blk /\ ~s[i].counted}
<1>1. /\ Len(s) \in Nat
      /\ DOMAIN s = 1..Len(s)
      /\ \A i \in 1..Len(s) : s[i] \in Entry
    BY LenProperties, ElementOfSeq
<1>2. CASE open = {}
  <2>1. fold_block_fees(s, e) = s
      BY <1>2 DEF fold_block_fees
  <2>2. e.blk \in Blocks(s) => HasFees(s, e.blk)
      BY <1>1, <1>2 DEF Blocks, HasFees
  <2>. QED
      BY <2>1, <2>2 DEF Counts
<1>3. CASE open # {}
  <2>1. open \subseteq Nat
      BY <1>1
  <2>2. PICK m \in open : m = Min(open)
    <3>. HIDE DEF open
    <3>. QED
      BY <1>3, <2>1, MinIsMember
  <2>3. m \in 1..Len(s) /\ s[m].blk = e.blk
      BY <1>1
  <2>4. PICK x \in Entry : x = [s[m] EXCEPT !.counted = TRUE]
    <3>1. s[m] \in Entry
        BY <1>1, <2>3
    <3>. QED
        BY <3>1 DEF Entry
  <2>5. x.blk = s[m].blk /\ x.counted
      BY <1>1, <2>3, <2>4 DEF Entry
  <2>6. fold_block_fees(s, e) = [s EXCEPT ![m] = x]
      BY <1>3, <2>2, <2>4 DEF fold_block_fees
  <2>7. PICK t : t = [s EXCEPT ![m] = x]
      OBVIOUS
  <2>8. /\ t \in Seq(Entry)
        /\ Len(t) = Len(s)
        /\ \A j \in 1..Len(s) : t[j] = IF j = m THEN x ELSE s[j]
      BY <2>3, <2>7, ExceptSeq
  <2>9. Counts(s, t)
      BY <1>1, <2>5, <2>8 DEF Counts
  <2>10. HasFees(t, e.blk)
      BY <2>3, <2>5, <2>8 DEF HasFees
  <2>. QED
      BY <2>6, <2>7, <2>9, <2>10
<1>. QED
    BY <1>2, <1>3

\* FoldedFees is the last value of the recursion its definition describes.
LEMMA FoldedUnfold ==
    ASSUME NEW entries \in Seq(Entry), NEW fees \in Seq(Entry)
    PROVE  \E f \in [0..Len(fees) -> Seq(Entry)] :
              /\ f[0] = entries
              /\ \A n \in 1..Len(fees) : f[n] = fold_block_fees(f[n - 1], fees[n])
              /\ FoldedFees(entries, fees) = f[Len(fees)]
<1> DEFINE N == Len(fees)
           D == Seq(Entry)
           Step(n, t) == fold_block_fees(t, fees[n])
           Eq(f) == f = [n \in 0..N |-> IF n = 0 THEN entries ELSE Step(n, f[n - 1])]
<1>1. N \in Nat /\ \A n \in 1..N : fees[n] \in Entry
    BY LenProperties, ElementOfSeq
<1>2. \A n \in 1..N : \A t \in D : Step(n, t) \in D
    BY <1>1, FoldStep DEF Counts
<1>3. PICK step \in [1..N -> [D -> D]] : \A n \in 1..N : \A t \in D : step[n][t] = Step(n, t)
  <2> HIDE DEF Step, D, N
  <2>1. [n \in 1..N |-> [t \in D |-> Step(n, t)]] \in [1..N -> [D -> D]]
      BY <1>2
  <2>. QED
      BY <2>1
<1>4. PICK g \in [0..N -> D] : Solves(g, N, entries, step)
  <2> HIDE DEF Step, N
  <2>. QED
      BY <1>1, Recursion
<1>5. g[0] = entries /\ \A n \in 1..N : g[n] = Step(n, g[n - 1])
  <2> HIDE DEF Step, D, N
  <2>1. ASSUME NEW n \in 1..N PROVE g[n] = Step(n, g[n - 1])
    <3>1. n - 1 \in 0..N
        BY <1>1
    <3>2. g[n] = step[n][g[n - 1]] /\ g[n - 1] \in D
        BY <1>4, <3>1 DEF Solves
    <3>. QED
        BY <1>3, <3>2
  <2>. QED
      BY <1>4, <2>1 DEF Solves
<1>6. Eq(g)
  <2> HIDE DEF Step, D, N
  <2>. QED
      BY <1>1, <1>5
<1> DEFINE c == CHOOSE h : Eq(h)
<1>7. Eq(c)
  <2> HIDE DEF Eq
  <2>. QED
      BY <1>6
<1>8. DOMAIN c = 0..N /\ c[0] = entries /\ \A n \in 1..N : c[n] = Step(n, c[n - 1])
  <2> HIDE DEF Step, c, N
  <2>. QED
      BY <1>1, <1>7
<1>9. c = [n \in 0..N |-> c[n]]
  <2> HIDE DEF Step
  <2>. QED
      BY <1>7
<1>10. FoldedFees(entries, fees) = c[N]
    BY DEF FoldedFees
<1>11. PICK r : r = c
    OBVIOUS
<1>12. /\ DOMAIN r = 0..N /\ r[0] = entries
       /\ \A n \in 1..N : r[n] = Step(n, r[n - 1])
       /\ r = [n \in 0..N |-> r[n]]
       /\ FoldedFees(entries, fees) = r[N]
  <2> HIDE DEF c, Step, N
  <2>. QED
      BY <1>8, <1>9, <1>10, <1>11
<1> HIDE DEF c, Eq
<1> DEFINE P == {n \in Nat : n <= N => r[n] \in D}
<1>13. 0 \in P
    BY <1>12
<1>14. ASSUME NEW n \in P PROVE n + 1 \in P
  <2> SUFFICES ASSUME n + 1 <= N PROVE r[n + 1] \in D
      OBVIOUS
  <2> HIDE DEF Step, D, N
  <2>1. r[n] \in D /\ n + 1 \in 1..N /\ (n + 1) - 1 = n
      BY <1>1
  <2>2. r[n + 1] = Step(n + 1, r[n])
      BY <1>12, <2>1
  <2>. QED
      BY <1>2, <2>1, <2>2
<1>15. P = Nat
  <2>. HIDE DEF P
  <2>1. P \subseteq Nat
      BY DEF P
  <2>. QED
      BY <1>13, <1>14, <2>1, NatSetInduction
<1>16. \A n \in 0..N : r[n] \in D
  <2> HIDE DEF D, N
  <2>. QED
      BY <1>1, <1>15, SMTT(30)
<1>17. r \in [0..N -> D]
  <2> HIDE DEF D, N, Step
  <2>. QED
      BY <1>12, <1>16
<1>. QED
    BY <1>12, <1>17

\* Folding in the fees of a cycle counts entries only, and every block that is
\* held back and has an answer ends with its fees.
LEMMA FoldedSpec ==
    ASSUME NEW entries \in Seq(Entry), NEW fees \in Seq(Entry)
    PROVE  /\ Counts(entries, FoldedFees(entries, fees))
           /\ \A b \in Blocks(entries) :
                 HasFees(entries, b) \/ (\E k \in DOMAIN fees : fees[k].blk = b) =>
                    HasFees(FoldedFees(entries, fees), b)
<1>1. PICK N \in Nat : N = Len(fees)
    BY LenProperties
<1>2. \A k \in 1..N : fees[k] \in Entry
    BY <1>1, ElementOfSeq
<1>3. PICK f \in [0..N -> Seq(Entry)] :
          /\ f[0] = entries
          /\ \A n \in 1..N : f[n] = fold_block_fees(f[n - 1], fees[n])
          /\ FoldedFees(entries, fees) = f[N]
    BY <1>1, FoldedUnfold
<1> DEFINE Good(n) ==
              /\ Counts(entries, f[n])
              /\ \A b \in Blocks(entries) :
                    HasFees(entries, b) \/ (\E k \in 1..n : fees[k].blk = b) =>
                       HasFees(f[n], b)
           P == {n \in Nat : n <= N => Good(n)}
<1>4. 0 \in P
  <2>1. Counts(entries, entries)
      BY DEF Counts
  <2>. QED
      BY <1>3, <2>1
<1>5. ASSUME NEW n \in P PROVE n + 1 \in P
  <2> SUFFICES ASSUME n + 1 <= N PROVE Good(n + 1)
      OBVIOUS
  <2>1. Good(n) /\ n \in Nat /\ n + 1 \in 1..N /\ (n + 1) - 1 = n /\ n \in 0..N
      BY <1>1
  <2>2. PICK s \in Seq(Entry) : s = f[n]
      BY <1>3, <2>1
  <2>3. PICK e \in Entry : e = fees[n + 1]
      BY <1>2, <2>1
  <2>4. PICK t : t = f[n + 1]
      OBVIOUS
  <2>5. t = fold_block_fees(s, e)
      BY <1>3, <2>1, <2>2, <2>3, <2>4
  <2>6. Counts(s, t) /\ (e.blk \in Blocks(s) => HasFees(t, e.blk))
      BY <2>5, FoldStep
  <2>7. Counts(entries, s)
      BY <2>1, <2>2
  <2>8. Counts(entries, t)
      BY <2>6, <2>7, CountsTransitive
  <2>9. Blocks(s) = Blocks(entries)
      BY <2>7, CountsBlocks
  <2>10. ASSUME NEW b \in Blocks(entries),
                HasFees(entries, b) \/ (\E k \in 1..(n + 1) : fees[k].blk = b)
         PROVE  HasFees(t, b)
    <3>1. CASE e.blk = b
        BY <2>6, <2>9, <3>1
    <3>2. CASE HasFees(entries, b) \/ (\E k \in 1..n : fees[k].blk = b)
      <4>1. HasFees(s, b)
          BY <2>1, <2>2, <3>2
      <4>. QED
          BY <2>6, <4>1, CountsKeepFees
    <3>. QED
        BY <2>1, <2>3, <2>10, <3>1, <3>2, SMTT(30)
  <2>. QED
      BY <2>4, <2>8, <2>10
<1>6. P = Nat
  <2>. HIDE DEF P
  <2>1. P \subseteq Nat
      BY DEF P
  <2>. QED
      BY <1>4, <1>5, <2>1, NatSetInduction
<1>7. Good(N)
  <2>. HIDE DEF Good
  <2>1. N \in P => (N <= N => Good(N))
      OBVIOUS
  <2>2. N \in P
    <3>. HIDE DEF P
    <3>. QED
        BY <1>6
  <2>. QED
      BY <2>1, <2>2
<1>. QED
    BY <1>1, <1>3, <1>7, LenProperties
-----------------------------------------------------------------------------
(* Types.                                                                  *)

\* What a thread holds in each of its phases.
LEMMA Shapes ==
    ASSUME ThreadTypes
    PROVE  /\ \A h \in Handler :
                 /\ hd[h].pc \in {"idle", "hashed", "send"}
                 /\ hd[h].pc # "idle" =>
                       /\ hd[h] \in [pc : {"hashed", "send"}, tpl : Template, nonce : Nonce]
                       /\ hd[h].tpl \in Template
                       /\ hd[h].nonce \in Nonce
           /\ tc.pc \in {"idle", "intro", "hashes"}
           /\ tc.pc = "intro" => tc \in Intros
           /\ tc.pc = "hashes" => tc \in Hashes
           /\ st.pc \in {"idle", "balance", "fees"}
           /\ st.pc # "idle" => st \in Values /\ st.bal \in Nat
           /\ st.pc = "fees" => st.priced \in Seq(Entry)
<1>1. ASSUME NEW h \in Handler
      PROVE  /\ hd[h].pc \in {"idle", "hashed", "send"}
             /\ hd[h].pc # "idle" =>
                   /\ hd[h] \in [pc : {"hashed", "send"}, tpl : Template, nonce : Nonce]
                   /\ hd[h].tpl \in Template
                   /\ hd[h].nonce \in Nonce
  <2>1. hd[h] \in Shares
      BY DEF ThreadTypes
  <2>. QED
      BY <2>1 DEF Shares, NoShare
<1>2. tc \in {TplIdle} \cup Intros \cup Hashes /\ st \in {StIdle} \cup Values
    BY DEF ThreadTypes
<1>3. /\ tc.pc \in {"idle", "intro", "hashes"}
      /\ tc.pc = "intro" => tc \in Intros
      /\ tc.pc = "hashes" => tc \in Hashes
    BY <1>2 DEF TplIdle, Intros, Hashes
<1>4. /\ st.pc \in {"idle", "balance", "fees"}
      /\ st.pc # "idle" => st \in Values /\ st.bal \in Nat
      /\ st.pc = "fees" => st.priced \in Seq(Entry)
    BY <1>2 DEF StIdle, Values
<1>. QED
    BY <1>1, <1>3, <1>4

LEMMA CreditType ==
    ASSUME NEW w, IsLedger(w), NEW b \in Ours
    PROVE  /\ IsLedger(Credit(w, b))
           /\ DOMAIN Credit(w, b) = DOMAIN w \cup {b}
           /\ Credits(w, b) \in Nat
           /\ Credit(w, b)[b] = Credits(w, b) + 1
           /\ \A x \in DOMAIN w : x # b => Credit(w, b)[x] = w[x]
BY DEF IsLedger, Credit, Credits

LEMMA BlocksOurs ==
    ASSUME NEW s \in Seq(Entry)
    PROVE  /\ Blocks(s) \subseteq Ours
           /\ \A i \in DOMAIN s : s[i] \in Entry /\ s[i].blk \in Ours
<1>1. \A i \in DOMAIN s : s[i] \in Entry
    BY LenProperties, ElementOfSeq
<1>. QED
    BY <1>1 DEF Blocks, Entry

LEMMA RangeType ==
    ASSUME NEW S, NEW s \in Seq(S)
    PROVE  Range(s) \subseteq S
BY LenProperties, ElementOfSeq DEF Range

\* The height that is asked next.
LEMMA NextHash ==
    ASSUME Types, Tips, tc.pc = "hashes", tc.todo # {}
    PROVE  /\ Min(tc.todo) \in tc.todo
           /\ Min(tc.todo) \in 1..tc.tip
           /\ Min(tc.todo) \in 0..Len(chain)
<1>1. tc \in Hashes
    BY Shapes DEF Types
<1>2. tc.todo \in SUBSET Nat /\ tc.tip \in Nat
    BY <1>1 DEF Hashes
<1>3. Min(tc.todo) \in tc.todo
    BY <1>2, MinIsMember
<1>4. tc.todo \subseteq 1..tc.tip /\ tc.tip <= Len(chain)
    BY DEF Tips
<1>5. Len(chain) \in Nat
    BY ChainType, BoundAssumption DEF Types, NodeTypes
<1>. QED
    BY <1>2, <1>3, <1>4, <1>5

LEMMA NodeTypesStep ==
    ASSUME Types, [Next]_vars
    PROVE  NodeTypes'
<1>1. NodeTypes
    BY DEF Types
<1>2. CASE NodeMoves
  <2>1. Rivals(chain', sent) \subseteq sent
      BY DEF Rivals
  <2>. QED
      BY <1>1, <1>2, <2>1 DEF NodeMoves, NodeTypes
<1>3. ASSUME NEW h \in Handler, SubmitBlock(h) PROVE NodeTypes'
  <2>1. hd[h].tpl \in Template /\ hd[h].nonce \in Nonce
      BY <1>3, Shapes DEF Types, SubmitBlock
  <2>2. Header(hd[h].tpl, hd[h].nonce) \in Ours
      BY <2>1, HeaderType
  <2>3. IsFiniteSet(sent')
      BY <1>1, <1>3, FS_AddElement DEF SubmitBlock, NodeTypes
  <2>4. Rivals(chain, sent') \subseteq sent'
      BY DEF Rivals
  <2>. QED
      BY <1>1, <1>3, <2>2, <2>3, <2>4 DEF SubmitBlock, NodeTypes
<1>4. CASE UNCHANGED nodeVars
    BY <1>1, <1>4 DEF nodeVars, NodeTypes
<1>5. ASSUME NEW h \in Handler, Refuse(h) \/ Commit(h) PROVE UNCHANGED nodeVars
    BY <1>5 DEF Refuse, Commit
<1>6. ASSUME NEW n \in Nonce, Snapshot(n) PROVE UNCHANGED nodeVars
    BY <1>6 DEF Snapshot
<1>7. TemplateCycle => UNCHANGED nodeVars
    BY DEF TemplateCycle, TplLatest, TplIntro, TplHash, TplApply
<1>8. Valuation \/ Restart \/ UNCHANGED vars => UNCHANGED nodeVars
    BY DEF Valuation, StBalance, StBlockFees, StUnknown, StValue, Restart, vars
<1>. QED
    BY <1>2, <1>3, <1>4, <1>5, <1>6, <1>7, <1>8 DEF Next, Submission

\* What a commit writes.
LEMMA CommitTypes ==
    ASSUME Types, NEW h \in Handler, Commit(h)
    PROVE  PoolTypes' /\ FileTypes'
<1> DEFINE t == hd[h].tpl
           n == hd[h].nonce
           b == Header(t, n)
           e == [blk |-> b, counted |-> FALSE]
<1>1. PoolTypes /\ FileTypes
    BY DEF Types
<1>2. t \in Template /\ n \in Nonce
    BY Shapes DEF Types, Commit
<1>3. b \in Ours /\ Key(t, n) \in (1..MaxHeight + 1) \X Nonce
    BY <1>2, HeaderType
<1>4. e \in Entry
    BY <1>3 DEF Entry
<1>5. IsLedger(Credit(window, b))
    BY <1>1, <1>3, CreditType DEF PoolTypes
<1>6. Append(submitted, b) \in Seq(Ours) /\ Append(immature, e) \in Seq(Entry)
    BY <1>1, <1>3, <1>4, AppendProperties DEF PoolTypes
<1>7. /\ seen' = seen \cup {Key(t, n)}
      /\ window' = Credit(window, b)
      /\ UNCHANGED <<tpl, loaded>>
      /\ \/ submitted' = Append(submitted, b) /\ immature' = Append(immature, e)
         \/ UNCHANGED <<submitted, immature>>
      /\ Save \/ UNCHANGED file
    BY DEF Commit
<1> HIDE DEF t, n, b, e
<1>8. PoolTypes'
  <2>1. submitted' \in Seq(Ours) /\ immature' \in Seq(Entry)
      BY <1>1, <1>6, <1>7 DEF PoolTypes
  <2>2. tpl' \in Template /\ seen' \subseteq (1..MaxHeight + 1) \X Nonce
      BY <1>1, <1>3, <1>7 DEF PoolTypes
  <2>3. IsLedger(window') /\ IsLedger(loaded')
      BY <1>1, <1>5, <1>7 DEF PoolTypes
  <2>. QED
      BY <2>1, <2>2, <2>3 DEF PoolTypes, IsLedger
<1>. QED
    BY <1>1, <1>7, <1>8 DEF FileTypes, PoolTypes, Save, IsLedger

LEMMA PoolTypesStep ==
    ASSUME Types, [Next]_vars
    PROVE  PoolTypes' /\ FileTypes'
<1>1. PoolTypes /\ FileTypes /\ NodeTypes
    BY DEF Types
<1>2. ASSUME NEW h \in Handler, Commit(h) PROVE PoolTypes' /\ FileTypes'
    BY <1>2, CommitTypes
<1>3. CASE TplApply
  <2>1. tc \in Hashes
      BY <1>3, Shapes DEF Types, TplApply
  <2>2. tc.fresh \in Template
      BY <2>1 DEF Hashes
  <2>3. seen' \subseteq seen /\ tpl' \in {tpl, tc.fresh} /\ UNCHANGED <<window, loaded>>
      BY <1>3 DEF TplApply, prune_seen
  <2>4. submitted' \in Seq(Ours) /\ immature' \in Seq(Entry)
      BY <1>1, <1>3, FilterType DEF TplApply, PoolTypes
  <2>5. PoolTypes'
    <3>1. tpl' \in Template /\ seen' \subseteq (1..MaxHeight + 1) \X Nonce
        BY <1>1, <2>2, <2>3 DEF PoolTypes
    <3>2. IsLedger(window') /\ IsLedger(loaded')
        BY <1>1, <2>3 DEF PoolTypes
    <3>. QED
        BY <2>4, <3>1, <3>2 DEF PoolTypes, IsLedger
  <2>6. Save \/ UNCHANGED file
      BY <1>3 DEF TplApply
  <2>. QED
      BY <1>1, <2>5, <2>6 DEF FileTypes, PoolTypes, Save, IsLedger
<1>4. CASE StValue
  <2>1. st.priced \in Seq(Entry)
      BY <1>4, Shapes DEF Types, StValue
  <2>2. Priced \in Seq(Entry)
    <3>1. immature \in Seq(Entry)
        BY <1>1 DEF PoolTypes
    <3>. QED
        BY <2>1, <3>1, FoldedSpec DEF Priced, Counts
  <2>3. PoolTypes'
      BY <1>1, <1>4, <2>2 DEF StValue, PoolTypes, IsLedger
  <2>4. Save \/ UNCHANGED file
      BY <1>4 DEF StValue
  <2>. QED
      BY <1>1, <2>3, <2>4 DEF FileTypes, PoolTypes, Save, IsLedger
<1>5. CASE Restart
  <2>1. tpl' \in Template
      BY <1>1, <1>5 DEF Restart, Template, NodeTypes
  <2>2. PoolTypes'
      BY <1>1, <1>5, <2>1 DEF Restart, FileTypes, PoolTypes, IsLedger
  <2>. QED
      BY <1>1, <1>5, <2>2 DEF Restart, FileTypes, IsLedger
<1>6. CASE UNCHANGED <<poolVars, file>>
    BY <1>1, <1>6 DEF poolVars, PoolTypes, FileTypes, IsLedger
<1>7. ASSUME NEW h \in Handler, Refuse(h) \/ SubmitBlock(h) PROVE UNCHANGED <<poolVars, file>>
    BY <1>7 DEF Refuse, SubmitBlock
<1>8. ASSUME NEW n \in Nonce, Snapshot(n) PROVE UNCHANGED <<poolVars, file>>
    BY <1>8 DEF Snapshot
<1>9. TplLatest \/ TplIntro \/ TplHash => UNCHANGED <<poolVars, file>>
    BY DEF TplLatest, TplIntro, TplHash
<1>10. NodeMoves \/ StBalance \/ StBlockFees \/ StUnknown \/ UNCHANGED vars
          => UNCHANGED <<poolVars, file>>
    BY DEF NodeMoves, StBalance, StBlockFees, StUnknown, vars
<1>. QED
    BY <1>2, <1>3, <1>4, <1>5, <1>6, <1>7, <1>8, <1>9, <1>10
       DEF Next, Submission, TemplateCycle, Valuation

LEMMA ThreadTypesStep ==
    ASSUME Types, Tips, [Next]_vars
    PROVE  ThreadTypes'
<1>1. NodeTypes /\ PoolTypes /\ ThreadTypes
    BY DEF Types
<1>2. hd \in [Handler -> Shares] /\ NoShare \in Shares
    BY <1>1 DEF ThreadTypes, Shares
<1>3. Len(chain) \in Nat
    BY <1>1, ChainType, BoundAssumption DEF NodeTypes
<1>4. ASSUME NEW n \in Nonce, Snapshot(n) PROVE ThreadTypes'
  <2>1. [pc |-> "hashed", tpl |-> tpl, nonce |-> n] \in Shares
      BY <1>1 DEF PoolTypes, Shares
  <2>2. PICK g \in Handler :
          hd' = [hd EXCEPT ![g] = [pc |-> "hashed", tpl |-> tpl, nonce |-> n]]
      BY <1>4 DEF Snapshot, Idle
  <2>3. hd' \in [Handler -> Shares]
      BY <1>2, <2>1, <2>2
  <2>4. budget' \in [share : [Nonce -> Nat], restart : Nat, valuation : Nat]
      BY <1>1, <1>4 DEF Snapshot, ThreadTypes
  <2>. QED
      BY <1>1, <1>4, <2>3, <2>4 DEF Snapshot, ThreadTypes
<1>5. ASSUME NEW h \in Handler, Submission(h) PROVE ThreadTypes'
  <2>1. hd[h].pc # "idle"
      BY <1>5 DEF Submission, Refuse, Commit, SubmitBlock
  <2>2. hd[h] \in [pc : {"hashed", "send"}, tpl : Template, nonce : Nonce]
      BY <1>1, <2>1, Shapes
  <2>3. [hd[h] EXCEPT !.pc = "send"] \in Shares
      BY <2>2 DEF Shares
  <2>4. \/ hd' = [hd EXCEPT ![h] = NoShare]
        \/ hd' = [hd EXCEPT ![h] = [hd[h] EXCEPT !.pc = "send"]]
      BY <1>2, <1>5 DEF Submission, Refuse, Commit, SubmitBlock
  <2>5. hd' \in [Handler -> Shares]
      BY <1>2, <2>3, <2>4
  <2>6. UNCHANGED <<tc, st, budget>>
      BY <1>5 DEF Submission, Refuse, Commit, SubmitBlock
  <2>. QED
      BY <1>1, <2>5, <2>6 DEF ThreadTypes
<1>6. CASE TplLatest
  <2>1. Range(submitted) \subseteq Ours /\ Blocks(immature) \subseteq Ours
      BY <1>1, RangeType, BlocksOurs DEF PoolTypes
  <2>2. tc' \in Intros
      BY <1>3, <1>6, <2>1 DEF TplLatest, Intros
  <2>. QED
      BY <1>1, <1>6, <2>2 DEF TplLatest, ThreadTypes
<1>7. CASE TplIntro
  <2>1. tc \in Intros
      BY <1>1, <1>7, Shapes DEF TplIntro
  <2>2. tc.tip \in Nat /\ tc.pending \subseteq Ours /\ tc.immature \subseteq Ours
      BY <2>1 DEF Intros
  <2>3. tc.tip \in 0..Len(chain)
      BY <1>3, <1>7, <2>2 DEF TplIntro, Tips
  <2>4. SubSeq(chain, 1, tc.tip) \in Chains
      BY <1>1, <2>3, PrefixType DEF NodeTypes
  <2>5. template_body(SubSeq(chain, 1, tc.tip)) \subseteq Body
      BY <1>1 DEF template_body, PoolTypes, Template
  <2>6. \A b \in tc.pending \cup tc.immature : Len(b) \in Nat
      BY <2>2, OursType, BoundAssumption
  <2>7. {n \in {Len(b) : b \in tc.pending \cup tc.immature} : n <= tc.tip} \subseteq Nat
      BY <2>6
  <2>8. tc' \in Hashes
      BY <1>7, <2>2, <2>4, <2>5, <2>7 DEF TplIntro, Hashes, Template
  <2>. QED
      BY <1>1, <1>7, <2>8 DEF TplIntro, ThreadTypes
<1>8. CASE TplHash
  <2>1. tc \in Hashes
      BY <1>1, <1>8, Shapes DEF TplHash
  <2>2. SubSeq(chain, 1, Min(tc.todo)) \in Chains
      BY <1>1, <1>8, NextHash, PrefixType DEF TplHash, NodeTypes
  <2>3. PICK answer \in {{}, {SubSeq(chain, 1, Min(tc.todo))}} :
            tc' = [tc EXCEPT !.todo = @ \ {Min(tc.todo)}, !.got = @ \cup answer]
      BY <1>8 DEF TplHash
  <2>4. answer \subseteq Chains
      BY <2>2, <2>3
  <2>5. tc' \in Hashes
      BY <2>1, <2>3, <2>4 DEF Hashes
  <2>. QED
      BY <1>1, <1>8, <2>5 DEF TplHash, ThreadTypes
<1>9. CASE TplApply
    BY <1>1, <1>9 DEF TplApply, ThreadTypes
<1>10. CASE StBalance
  <2>1. Cardinality({b \in sent : OnChain(b)}) \in Nat
      BY <1>1, FS_Subset, FS_CardinalityType DEF NodeTypes
  <2>2. Balance \in Nat
      BY <2>1 DEF Balance, Subsidy, Fees
  <2>3. st' \in Values
      BY <1>10, <2>2 DEF StBalance, Values
  <2>4. budget' \in [share : [Nonce -> Nat], restart : Nat, valuation : Nat]
      BY <1>1, <1>10 DEF StBalance, ThreadTypes
  <2>. QED
      BY <1>1, <1>10, <2>3, <2>4 DEF StBalance, ThreadTypes
<1>11. CASE StBlockFees
  <2>1. st.bal \in Nat
      BY <1>1, <1>11, Shapes DEF StBlockFees
  <2>2. Filter(immature, {e \in Uncounted(immature) : OnChain(e.blk)}) \in Seq(Entry)
      BY <1>1, FilterType DEF PoolTypes
  <2>3. st' \in Values
      BY <1>11, <2>1, <2>2 DEF StBlockFees, Values
  <2>. QED
      BY <1>1, <1>11, <2>3 DEF StBlockFees, ThreadTypes
<1>12. CASE StUnknown \/ StValue
    BY <1>1, <1>12 DEF StUnknown, StValue, ThreadTypes
<1>13. CASE Restart
  <2>1. budget' \in [share : [Nonce -> Nat], restart : Nat, valuation : Nat]
      BY <1>1, <1>13 DEF Restart, ThreadTypes
  <2>2. hd' \in [Handler -> Shares]
      BY <1>2, <1>13 DEF Restart
  <2>. QED
      BY <1>13, <2>1, <2>2 DEF Restart, ThreadTypes
<1>14. CASE NodeMoves \/ UNCHANGED vars
    BY <1>1, <1>14 DEF NodeMoves, vars, ThreadTypes
<1>. QED
    BY <1>4, <1>5, <1>6, <1>7, <1>8, <1>9, <1>10, <1>11, <1>12, <1>13, <1>14
       DEF Next, TemplateCycle, Valuation
-----------------------------------------------------------------------------
(* The template does not go back.                                          *)

\* The chain does not get shorter.
LEMMA ChainGrows ==
    ASSUME Types, [Next]_vars
    PROVE  Len(chain) \in Nat /\ Len(chain') \in Nat /\ Len(chain) <= Len(chain')
<1>1. chain \in Chains /\ chain' \in Chains
    BY NodeTypesStep DEF Types, NodeTypes
<1>2. Len(chain) \in Nat /\ Len(chain') \in Nat
    BY <1>1, ChainType, BoundAssumption
<1>3. NodeMoves \/ UNCHANGED chain
    BY DEF Next, Snapshot, Submission, Refuse, Commit, SubmitBlock, TemplateCycle, TplLatest,
           TplIntro, TplHash, TplApply, Valuation, StBalance, StBlockFees, StUnknown, StValue,
           Restart, nodeVars, vars
<1>4. CASE NodeMoves
    BY <1>2, <1>4 DEF NodeMoves
<1>. QED
    BY <1>2, <1>3, <1>4

LEMMA TipsStep ==
    ASSUME Types, Tips, [Next]_vars
    PROVE  Tips'
<1>1. Len(chain) \in Nat /\ Len(chain') \in Nat /\ Len(chain) <= Len(chain')
    BY ChainGrows
<1>2. tpl \in Template /\ chain \in Chains
    BY DEF Types, PoolTypes, NodeTypes
<1>3. Len(tpl.parent) \in Nat /\ Len(tpl.parent) <= Len(chain)
    BY <1>2, ChainType, BoundAssumption DEF Template, Tips
<1>4. CASE UNCHANGED <<tpl, tc>>
  <2>1. tc.pc \in {"idle", "intro", "hashes"} /\ (tc.pc # "idle" => tc.tip \in Nat)
      BY Shapes DEF Types, Intros, Hashes
  <2>. QED
      BY <1>1, <1>3, <1>4, <2>1 DEF Tips
<1>5. CASE TplLatest
    BY <1>1, <1>3, <1>5 DEF TplLatest, Tips, nodeVars, poolVars
<1>6. CASE TplIntro
  <2>1. tc \in Intros
      BY <1>6, Shapes DEF Types, TplIntro
  <2>2. tc.tip \in 0..Len(chain) /\ tc.pending \subseteq Ours /\ tc.immature \subseteq Ours
      BY <1>1, <1>6, <2>1 DEF TplIntro, Intros, Tips
  <2>3. PICK parent \in Chains : parent = SubSeq(chain, 1, tc.tip)
      BY <1>2, <2>2, PrefixType
  <2>4. Len(parent) = tc.tip
      BY <1>2, <2>2, <2>3, PrefixType
  <2>5. PICK body : tc' = [pc |-> "hashes", tip |-> tc.tip,
                 pending |-> tc.pending, immature |-> tc.immature,
                 fresh |-> [parent |-> parent, body |-> body],
                 todo |-> {n \in {Len(b) : b \in tc.pending \cup tc.immature} : n <= tc.tip},
                 got |-> {}]
      BY <1>6, <2>3 DEF TplIntro
  <2>6. \A b \in tc.pending \cup tc.immature : Len(b) \in Nat /\ Len(b) >= 1
      BY <2>2, OursType, BoundAssumption
  <2>7. {n \in {Len(b) : b \in tc.pending \cup tc.immature} : n <= tc.tip} \subseteq 1..tc.tip
      BY <2>2, <2>6
  <2>8. UNCHANGED <<tpl, chain>> /\ Len(tpl.parent) <= tc.tip /\ tc.tip <= Len(chain)
      BY <1>6 DEF TplIntro, nodeVars, poolVars, Tips
  <2>. QED
      BY <1>3, <2>4, <2>5, <2>7, <2>8 DEF Tips
<1>7. CASE TplHash
  <2>1. tc \in Hashes
      BY <1>7, Shapes DEF Types, TplHash
  <2>2. PICK n : n = Min(tc.todo)
      OBVIOUS
  <2>3. n \in tc.todo /\ n \in 1..tc.tip /\ n \in 0..Len(chain)
      BY <1>7, <2>2, NextHash DEF TplHash
  <2>4. PICK g : g = SubSeq(chain, 1, n)
      OBVIOUS
  <2>5. Len(g) = n
      BY <1>2, <2>3, <2>4, PrefixType
  <2>6. PICK answer \in {{}, {g}} :
            tc' = [tc EXCEPT !.todo = @ \ {n}, !.got = @ \cup answer]
      BY <1>7, <2>2, <2>4 DEF TplHash
  <2>7. /\ tc'.pc = "hashes" /\ tc'.tip = tc.tip /\ tc'.fresh = tc.fresh
        /\ tc'.todo = tc.todo \ {n} /\ tc'.got = tc.got \cup answer
      BY <1>7, <2>1, <2>6 DEF Hashes, TplHash
  <2>8. tc.tip \in Nat
      BY <2>1 DEF Hashes
  <2>9. UNCHANGED <<tpl, chain>>
      BY <1>7 DEF TplHash, nodeVars, poolVars
  <2>10. /\ Len(tpl.parent) <= tc.tip /\ tc.tip <= Len(chain)
         /\ Len(tc.fresh.parent) = tc.tip
         /\ tc.todo \subseteq 1..tc.tip
         /\ \A x \in tc.got : Len(x) <= tc.tip
      BY <1>7 DEF Tips, TplHash
  <2>11. tc'.todo \subseteq 1..tc'.tip
      BY <2>7, <2>10
  <2>12. \A x \in tc'.got : Len(x) <= tc'.tip
    <3>1. \A x \in answer : Len(x) <= tc.tip
        BY <2>3, <2>5, <2>6, <2>8
    <3>. QED
        BY <2>7, <2>10, <3>1
  <2>. QED
      BY <1>3, <2>7, <2>9, <2>10, <2>11, <2>12 DEF Tips
<1>8. CASE TplApply
  <2>1. tc.pc = "hashes" /\ tpl' \in {tpl, tc.fresh} /\ tc' = TplIdle /\ UNCHANGED chain
      BY <1>8 DEF TplApply, nodeVars
  <2>2. Len(tc.fresh.parent) = tc.tip /\ tc.tip <= Len(chain)
      BY <2>1 DEF Tips
  <2>. QED
      BY <1>3, <2>1, <2>2 DEF Tips, TplIdle
<1>9. CASE Restart
  <2>1. tpl'.parent = chain /\ tc' = TplIdle /\ UNCHANGED chain
      BY <1>9 DEF Restart, nodeVars
  <2>. QED
      BY <1>1, <2>1 DEF Tips, TplIdle
<1>10. TplLatest \/ TplIntro \/ TplHash \/ TplApply \/ Restart \/ UNCHANGED <<tpl, tc>>
    BY DEF Next, NodeMoves, Snapshot, Submission, Refuse, Commit, SubmitBlock, TemplateCycle,
           Valuation, StBalance, StBlockFees, StUnknown, StValue, poolVars, vars
<1>. QED
    BY <1>4, <1>5, <1>6, <1>7, <1>8, <1>9, <1>10

LEMMA TypesStep ==
    ASSUME Types, Tips, [Next]_vars
    PROVE  Types' /\ Tips'
BY NodeTypesStep, PoolTypesStep, ThreadTypesStep, TipsStep DEF Types

\* The height of the template grows while the process runs.
LEMMA HeightGrows ==
    ASSUME Types, Tips, TplApply
    PROVE  /\ Height(tpl) \in Nat /\ Height(tpl') \in Nat
           /\ Height(tpl) <= Height(tpl')
           /\ \/ tpl' = tpl /\ seen' = seen
              \/ tpl' = tc.fresh /\ seen' = prune_seen(seen, Height(tpl'))
<1>1. tc \in Hashes /\ tpl \in Template
    BY Shapes DEF Types, TplApply, PoolTypes
<1>2. tc.fresh \in Template /\ tc.tip \in Nat
    BY <1>1 DEF Hashes
<1>3. Len(tpl.parent) \in Nat /\ Len(tc.fresh.parent) \in Nat
    BY <1>1, <1>2, ChainType, BoundAssumption DEF Template
<1>4. Len(tpl.parent) <= tc.tip /\ Len(tc.fresh.parent) = tc.tip
    BY DEF Tips, TplApply
<1>5. \/ tpl' = tpl /\ seen' = seen
      \/ tpl' = tc.fresh /\ seen' = prune_seen(seen, Height(tpl'))
    BY DEF TplApply
<1>. QED
    BY <1>3, <1>4, <1>5 DEF Height
-----------------------------------------------------------------------------
(* No header is credited twice in a run.                                   *)

\* A header that may not be credited again stays so.
LEMMA TakenStays ==
    ASSUME Types, Tips, TplApply, NEW b \in Ours, Taken(b)
    PROVE  Taken(b)'
<1>1. /\ Height(tpl) \in Nat /\ Height(tpl') \in Nat
      /\ Height(tpl) <= Height(tpl')
      /\ \/ tpl' = tpl /\ seen' = seen
         \/ tpl' = tc.fresh /\ seen' = prune_seen(seen, Height(tpl'))
    BY HeightGrows
<1>2. Len(b) \in Nat
    BY OursType, BoundAssumption
<1>3. CASE tpl' = tpl /\ seen' = seen
    BY <1>3 DEF Taken
<1>4. CASE seen' = prune_seen(seen, Height(tpl'))
  <2>1. CASE Len(b) < Height(tpl')
      BY <2>1 DEF Taken
  <2>2. CASE Len(b) >= Height(tpl')
    <3>1. <<Len(b), b[Len(b)][2]>> \in seen
        BY <1>1, <1>2, <2>2 DEF Taken
    <3>2. <<Len(b), b[Len(b)][2]>> \in seen'
        BY <1>4, <2>2, <3>1 DEF prune_seen
    <3>. QED
        BY <3>2 DEF Taken
  <2>. QED
      BY <1>1, <1>2, <2>1, <2>2
<1>. QED
    BY <1>1, <1>3, <1>4

LEMMA OnceCommit ==
    ASSUME Types, Once, NEW h \in Handler, Commit(h)
    PROVE  Once'
<1>1. PICK t \in Template, n \in Nonce, b \in Ours :
          t = hd[h].tpl /\ n = hd[h].nonce /\ b = Header(t, n)
    BY Shapes, HeaderType DEF Types, Commit
<1>2. /\ Len(b) = Height(t)
      /\ Key(t, n) = <<Len(b), b[Len(b)][2]>>
      /\ Height(t) \in Nat
    BY <1>1, HeaderType, BoundAssumption
<1>3. /\ Height(t) = Height(tpl) /\ Key(t, n) \notin seen
      /\ seen' = seen \cup {Key(t, n)}
      /\ window' = Credit(window, b)
      /\ UNCHANGED <<tpl, loaded>>
    BY <1>1 DEF Commit, Refused
<1>4. IsLedger(window) /\ IsLedger(loaded)
    BY DEF Types, PoolTypes
<1>5. /\ DOMAIN window' = DOMAIN window \cup {b}
      /\ Credits(window, b) \in Nat
      /\ window'[b] = Credits(window, b) + 1
      /\ \A x \in DOMAIN window : x # b => window'[x] = window[x]
    BY <1>3, <1>4, CreditType
<1>6. ~Taken(b)
    BY <1>2, <1>3 DEF Taken
<1>7. Taken(b)'
    BY <1>2, <1>3 DEF Taken
<1>8. Credits(loaded, b) \in Nat /\ Credits(loaded', b) = Credits(loaded, b)
    BY <1>3, <1>4, CreditType
<1>9. Credits(window, b) <= Credits(loaded, b)
    BY <1>6, <1>8 DEF Once, Credits
<1>10. ASSUME NEW x \in DOMAIN window'
       PROVE  \/ window'[x] <= Credits(loaded', x)
              \/ window'[x] = Credits(loaded', x) + 1 /\ Taken(x)'
  <2>1. CASE x = b
      BY <1>5, <1>7, <1>8, <1>9, <2>1
  <2>2. CASE x # b
    <3>1. x \in DOMAIN window /\ window'[x] = window[x] /\ Credits(loaded', x) = Credits(loaded, x)
        BY <1>3, <1>5, <2>2
    <3>2. Taken(x) => Taken(x)'
        BY <1>3 DEF Taken
    <3>. QED
        BY <3>1, <3>2 DEF Once
  <2>. QED
      BY <2>1, <2>2
<1>. QED
    BY <1>10 DEF Once

LEMMA OnceStep ==
    ASSUME Types, Tips, Once, [Next]_vars
    PROVE  Once'
<1>1. ASSUME NEW h \in Handler, Commit(h) PROVE Once'
    BY <1>1, OnceCommit
<1>2. CASE TplApply
  <2>1. UNCHANGED <<window, loaded>> /\ DOMAIN window \subseteq Ours
      BY <1>2 DEF TplApply, Types, PoolTypes, IsLedger
  <2>2. \A x \in DOMAIN window : Taken(x) => Taken(x)'
      BY <1>2, <2>1, TakenStays
  <2>. QED
      BY <2>1, <2>2 DEF Once
<1>3. CASE Restart
  <2>1. window' = loaded' /\ IsLedger(window')
      BY <1>3 DEF Restart, Types, FileTypes, IsLedger
  <2>2. \A x \in DOMAIN window' : window'[x] = Credits(loaded', x) /\ window'[x] \in Nat
      BY <2>1 DEF Credits, IsLedger
  <2>. QED
      BY <2>2 DEF Once
<1>4. CASE UNCHANGED <<window, loaded, seen, tpl>>
    BY <1>4 DEF Once, Taken, Credits
<1>5. \/ \E h \in Handler : Commit(h)
      \/ TplApply \/ Restart
      \/ UNCHANGED <<window, loaded, seen, tpl>>
    BY DEF Next, NodeMoves, Snapshot, Submission, Refuse, SubmitBlock, TemplateCycle, TplLatest,
           TplIntro, TplHash, Valuation, StBalance, StBlockFees, StUnknown, StValue,
           poolVars, vars
<1>. QED
    BY <1>1, <1>2, <1>3, <1>4, <1>5
-----------------------------------------------------------------------------
(* Blocks that were given to the node.                                     *)

LEMMA HonestStep ==
    ASSUME Types, Honest, [Next]_vars
    PROVE  Honest'
<1>1. CASE NodeMoves
    BY <1>1 DEF NodeMoves, Honest
<1>2. ASSUME NEW h \in Handler, SubmitBlock(h) PROVE Honest'
  <2>1. sent \subseteq sent' /\ chain' = chain /\ Rivals(chain, sent') \subseteq rivalled'
      BY <1>2 DEF SubmitBlock
  <2>2. Holds(chain, sent')
      BY <2>1 DEF Holds, Honest
  <2>. QED
      BY <2>1, <2>2 DEF Honest
<1>3. CASE UNCHANGED nodeVars
    BY <1>3 DEF nodeVars, Honest
<1>4. NodeMoves \/ (\E h \in Handler : SubmitBlock(h)) \/ UNCHANGED nodeVars
    BY DEF Next, Snapshot, Submission, Refuse, Commit, TemplateCycle, TplLatest,
           TplIntro, TplHash, TplApply, Valuation, StBalance, StBlockFees, StUnknown, StValue,
           Restart, vars
<1>. QED
    BY <1>1, <1>2, <1>3, <1>4

\* What the node was given, and that a block need not be held back, lasts.
LEMMA FreedStays ==
    ASSUME Types, [Next]_vars
    PROVE  /\ sent \subseteq sent'
           /\ rivalled \subseteq rivalled'
           /\ \A b \in Ours : Freed(b) => Freed(b)'
<1>1. sent \subseteq sent' /\ rivalled \subseteq rivalled'
    BY DEF Next, NodeMoves, Snapshot, Submission, Refuse, Commit, SubmitBlock, TemplateCycle,
           TplLatest, TplIntro, TplHash, TplApply, Valuation, StBalance, StBlockFees, StUnknown,
           StValue, Restart, nodeVars, vars
<1>2. Len(chain) \in Nat /\ Len(chain') \in Nat /\ Len(chain) <= Len(chain')
    BY ChainGrows
<1>3. \A b \in Ours : Deep(b) => Deep(b)'
    BY <1>2, OursType, MaturityAssumption, BoundAssumption DEF Deep
<1>. QED
    BY <1>1, <1>3 DEF Freed

\* A block that reaches the node after its height was given to another has a rival.
LEMMA LateBlock ==
    ASSUME Types, Honest, NEW b \in Ours, b \notin sent, Len(b) <= Len(chain),
           NEW h \in Handler, SubmitBlock(h), b \in sent'
    PROVE  b \in rivalled'
<1>1. ~IsPrefix(b, chain)
    BY Unsent DEF Types, NodeTypes, Honest
<1>2. b \in Rivals(chain, sent')
    BY <1>1 DEF Rivals
<1>. QED
    BY <1>2 DEF SubmitBlock

Released == Confirmed(tc.immature) \cup Orphaned(tc.immature)

\* An entry leaves only with its block, in the template cycle.
LEMMA KeptStep ==
    ASSUME Types, [Next]_vars, NEW b \in Ours, Kept(b)
    PROVE  Kept(b)' \/ (TplApply /\ b \in Released)
<1>1. immature \in Seq(Entry)
    BY DEF Types, PoolTypes
<1>2. ASSUME NEW h \in Handler, Commit(h) PROVE Kept(b)'
  <2>1. PICK e \in Entry : immature' = Append(immature, e) \/ immature' = immature
    <3>1. Header(hd[h].tpl, hd[h].nonce) \in Ours
        BY <1>2, Shapes, HeaderType DEF Types, Commit
    <3>2. [blk |-> Header(hd[h].tpl, hd[h].nonce), counted |-> FALSE] \in Entry
        BY <3>1 DEF Entry
    <3>. QED
        BY <1>2, <3>2 DEF Commit
  <2>2. b \in Blocks(immature')
      BY <1>1, <2>1, BlocksAppend DEF Kept
  <2>3. Save \/ UNCHANGED file
      BY <1>2 DEF Commit
  <2>. QED
      BY <2>2, <2>3 DEF Kept, Save
<1>3. CASE TplApply
  <2>1. immature' = Filter(immature, {e \in Range(immature) : e.blk \notin Released})
      BY <1>3 DEF TplApply, Released
  <2>2. Blocks(immature') = Blocks(immature) \ Released
      BY <1>1, <2>1, BlocksRelease
  <2>3. Save \/ UNCHANGED file
      BY <1>3 DEF TplApply
  <2>. QED
      BY <1>3, <2>2, <2>3 DEF Kept, Save
<1>4. CASE StValue
  <2>1. immature' = Priced /\ st.priced \in Seq(Entry)
      BY <1>4, Shapes DEF Types, StValue
  <2>2. Blocks(immature') = Blocks(immature)
      BY <1>1, <2>1, FoldedSpec, CountsBlocks DEF Priced
  <2>3. Save \/ UNCHANGED file
      BY <1>4 DEF StValue
  <2>. QED
      BY <2>2, <2>3 DEF Kept, Save
<1>5. CASE Restart
    BY <1>5 DEF Restart, Kept
<1>6. CASE UNCHANGED <<immature, file>>
    BY <1>6 DEF Kept
<1>7. \/ \E h \in Handler : Commit(h)
      \/ TplApply \/ StValue \/ Restart
      \/ UNCHANGED <<immature, file>>
    BY DEF Next, NodeMoves, Snapshot, Submission, Refuse, SubmitBlock, TemplateCycle, TplLatest,
           TplIntro, TplHash, Valuation, StBalance, StBlockFees, StUnknown, poolVars, vars
<1>. QED
    BY <1>2, <1>3, <1>4, <1>5, <1>6, <1>7

\* What the template cycle releases need not be held back.
LEMMA ReleasedFreed ==
    ASSUME Types, Tips, Held, TplApply, NEW b \in Ours, b \in Released
    PROVE  Freed(b) \/ (b \notin sent /\ Len(b) <= Len(chain))
<1>1. tc \in Hashes /\ tc.pc = "hashes" /\ chain \in Chains
    BY Shapes DEF Types, TplApply, NodeTypes
<1>2. tc.tip \in Nat /\ tc.tip <= Len(chain) /\ Len(chain) \in Nat /\ tc.got \subseteq Chains
    BY <1>1, ChainType, BoundAssumption DEF Tips, Hashes
<1>3. Len(b) \in Nat
    BY OursType, BoundAssumption
<1>4. CASE b \in Confirmed(tc.immature)
  <2>1. tc.tip - Len(b) >= Maturity
      BY <1>4 DEF Confirmed, Buried
  <2>. QED
      BY <1>2, <1>3, <2>1, MaturityAssumption DEF Freed, Deep
<1>5. CASE b \in Orphaned(tc.immature)
  <2>1. PICK g \in tc.got : Len(g) = Len(b) /\ g # b
      BY <1>5 DEF Orphaned
  <2>2. Len(g) <= tc.tip
      BY <1>1 DEF Tips
  <2>3. b \in sent => b \in rivalled
      BY <1>1, <2>1 DEF Held
  <2>. QED
      BY <1>2, <1>3, <2>1, <2>2, <2>3 DEF Freed
<1>. QED
    BY <1>4, <1>5 DEF Released

\* A handler that is about to send a block has just held it back, or was there before.
LEMMA SendingStep ==
    ASSUME Types, [Next]_vars, NEW h \in Handler, hd'[h].pc = "send"
    PROVE  \/ hd[h].pc = "send" /\ hd'[h] = hd[h]
           \/ /\ Commit(h) /\ IsBlock(hd[h].nonce)
              /\ hd'[h].tpl = hd[h].tpl /\ hd'[h].nonce = hd[h].nonce
<1>1. hd \in [Handler -> Shares]
    BY DEF Types, ThreadTypes
<1>2. ASSUME NEW n \in Nonce, Snapshot(n) PROVE hd'[h] = hd[h]
  <2>1. PICK g \in Handler :
          hd' = [hd EXCEPT ![g] = [pc |-> "hashed", tpl |-> tpl, nonce |-> n]]
      BY <1>2 DEF Snapshot, Idle
  <2>. QED
      BY <1>1, <2>1
<1>3. ASSUME NEW g \in Handler, Refuse(g) \/ SubmitBlock(g) PROVE hd'[h] = hd[h]
    BY <1>1, <1>3 DEF Refuse, SubmitBlock, NoShare
<1>4. ASSUME NEW g \in Handler, Commit(g)
      PROVE  \/ hd'[h] = hd[h]
             \/ /\ Commit(h) /\ IsBlock(hd[h].nonce)
                /\ hd'[h].tpl = hd[h].tpl /\ hd'[h].nonce = hd[h].nonce
  <2>1. CASE g # h
      BY <1>1, <1>4, <2>1 DEF Commit
  <2>2. CASE g = h /\ ~IsBlock(hd[h].nonce)
    <3>1. hd' = [hd EXCEPT ![h] = NoShare]
        BY <1>4, <2>2 DEF Commit
    <3>. QED
        BY <1>1, <3>1 DEF NoShare
  <2>3. CASE g = h /\ IsBlock(hd[h].nonce)
    <3>1. hd' = [hd EXCEPT ![h].pc = "send"]
        BY <1>4, <2>3 DEF Commit
    <3>2. hd[h] \in [pc : {"hashed", "send"}, tpl : Template, nonce : Nonce]
        BY <1>4, <2>3, Shapes DEF Types, Commit
    <3>3. hd'[h] = [hd[h] EXCEPT !.pc = "send"]
        BY <1>1, <3>1
    <3>4. hd'[h].tpl = hd[h].tpl /\ hd'[h].nonce = hd[h].nonce
        BY <3>2, <3>3
    <3>. QED
        BY <1>4, <2>3, <3>4
  <2>. QED
      BY <2>1, <2>2, <2>3
<1>5. ~Restart
    BY DEF Restart, NoShare
<1>6. NodeMoves \/ TemplateCycle \/ Valuation \/ UNCHANGED vars => hd' = hd
    BY DEF NodeMoves, TemplateCycle, TplLatest, TplIntro, TplHash, TplApply, Valuation,
           StBalance, StBlockFees, StUnknown, StValue, vars
<1>. QED
    BY <1>2, <1>3, <1>4, <1>5, <1>6 DEF Next, Submission

LEMMA HeldSent ==
    ASSUME Types, Tips, Honest, Held, [Next]_vars, NEW b \in sent'
    PROVE  (Kept(b) \/ Freed(b))'
<1>1. sent \subseteq Ours /\ sent' \subseteq Ours
    BY NodeTypesStep DEF Types, NodeTypes
<1>2. b \in Ours
    BY <1>1
<1>3. Freed(b) => Freed(b)'
    BY <1>2, FreedStays
<1>4. CASE b \in sent
  <2>1. Kept(b) \/ Freed(b)
      BY <1>4 DEF Held
  <2>2. ASSUME Kept(b), ~Kept(b)' PROVE Freed(b)
    <3>1. TplApply /\ b \in Released
        BY <1>2, <2>2, KeptStep
    <3>. QED
        BY <1>2, <1>4, <3>1, ReleasedFreed
  <2>. QED
      BY <1>3, <2>1, <2>2
<1>5. CASE b \notin sent
  <2>1. PICK h \in Handler : SubmitBlock(h)
      BY <1>5 DEF Next, NodeMoves, Snapshot, Submission, Refuse, Commit, TemplateCycle,
         TplLatest, TplIntro, TplHash, TplApply, Valuation, StBalance, StBlockFees, StUnknown,
         StValue, Restart, nodeVars, vars
  <2>2. b = Header(hd[h].tpl, hd[h].nonce) /\ hd[h].pc = "send"
      BY <1>5, <2>1 DEF SubmitBlock
  <2>3. SendHeld(h)
      BY <2>2 DEF Held
  <2>4. CASE Kept(b)
      BY <2>1, <2>4 DEF SubmitBlock, Kept, poolVars
  <2>5. CASE Len(b) <= Len(chain)
    <3>1. b \in rivalled'
        BY <1>2, <1>5, <2>1, <2>5, LateBlock
    <3>. QED
        BY <3>1 DEF Freed
  <2>. QED
      BY <1>3, <2>2, <2>3, <2>4, <2>5 DEF SendHeld
<1>. QED
    BY <1>4, <1>5

LEMMA HeldSending ==
    ASSUME Types, Tips, Honest, Held, [Next]_vars, NEW h \in Handler, hd'[h].pc = "send"
    PROVE  SendHeld(h)'
<1>1. hd[h].tpl \in Template /\ hd[h].nonce \in Nonce
    BY SendingStep, Shapes DEF Types, Commit
<1>2. PICK b \in Ours : b = Header(hd[h].tpl, hd[h].nonce)
    BY <1>1, HeaderType
<1>3. b = Header(hd'[h].tpl, hd'[h].nonce)
    BY <1>2, SendingStep
<1>4. Freed(b) => Freed(b)'
    BY FreedStays
<1>5. CASE Commit(h) /\ IsBlock(hd[h].nonce)
  <2>1. PICK e \in Entry : e = [blk |-> b, counted |-> FALSE]
      BY DEF Entry
  <2>2. immature' = Append(immature, e) /\ Save
      BY <1>2, <1>5, <2>1 DEF Commit
  <2>3. b \in Blocks(immature')
      BY <2>1, <2>2, BlocksAppend DEF Types, PoolTypes
  <2>4. Kept(b)'
      BY <2>2, <2>3 DEF Kept, Save
  <2>. QED
      BY <1>3, <2>4 DEF SendHeld
<1>6. CASE hd[h].pc = "send"
  <2>1. Kept(b) \/ Freed(b) \/ (b \notin sent /\ Len(b) <= Len(chain))
      BY <1>2, <1>6 DEF Held, SendHeld
  <2>2. CASE b \in sent'
    <3>1. (Kept(b) \/ Freed(b))'
        BY <2>2, HeldSent
    <3>. QED
        BY <1>3, <3>1 DEF SendHeld
  <2>3. CASE b \notin sent'
    <3>1. b \notin sent
        BY <2>3, FreedStays
    <3>2. Kept(b) => Kept(b)' \/ Freed(b) \/ Len(b) <= Len(chain)
        BY KeptStep, ReleasedFreed
    <3>3. Len(b) <= Len(chain) => Len(b) <= Len(chain')
        BY ChainGrows, OursType, BoundAssumption
    <3>. QED
        BY <1>3, <1>4, <2>1, <2>3, <3>2, <3>3 DEF SendHeld
  <2>. QED
      BY <2>2, <2>3
<1>. QED
    BY <1>5, <1>6, SendingStep

LEMMA HeldAnswers ==
    ASSUME Types, Tips, Honest, Held, [Next]_vars, tc'.pc = "hashes",
           NEW g \in tc'.got, NEW b \in sent', Len(b) = Len(g), b # g
    PROVE  b \in rivalled'
<1>1. sent \subseteq Ours /\ sent' \subseteq Ours /\ chain \in Chains
    BY NodeTypesStep DEF Types, NodeTypes
<1>2. b \in Ours /\ Len(b) \in Nat /\ Len(chain) \in Nat
    BY <1>1, OursType, ChainType, BoundAssumption
<1>3. rivalled \subseteq rivalled'
    BY FreedStays
<1>4. CASE tc.pc = "hashes" /\ g \in tc.got
  <2>1. CASE b \in sent
      BY <1>3, <1>4, <2>1 DEF Held
  <2>2. CASE b \notin sent
    <3>1. PICK h \in Handler : SubmitBlock(h)
        BY <2>2 DEF Next, NodeMoves, Snapshot, Submission, Refuse, Commit, TemplateCycle,
           TplLatest, TplIntro, TplHash, TplApply, Valuation, StBalance, StBlockFees, StUnknown,
           StValue, Restart, nodeVars, vars
    <3>2. tc \in Hashes /\ Len(g) <= tc.tip /\ tc.tip <= Len(chain)
        BY <1>4, Shapes DEF Types, Tips
    <3>3. Len(b) <= Len(chain)
        BY <1>2, <3>2 DEF Hashes
    <3>. QED
        BY <1>2, <2>2, <3>1, <3>3, LateBlock
  <2>. QED
      BY <2>1, <2>2
<1>5. CASE ~(tc.pc = "hashes" /\ g \in tc.got)
  <2>1. TplHash
    <3>1. tc' # tc
        BY <1>5
    <3>2. TemplateCycle \/ Restart
        BY <3>1 DEF Next, NodeMoves, Snapshot, Submission, Refuse, Commit, SubmitBlock,
           Valuation, StBalance, StBlockFees, StUnknown, StValue, vars
    <3>3. ~TplLatest
        BY DEF TplLatest
    <3>4. ~TplIntro
        BY DEF TplIntro
    <3>5. ~TplApply /\ ~Restart
        BY DEF TplApply, Restart, TplIdle
    <3>. QED
        BY <3>2, <3>3, <3>4, <3>5 DEF TemplateCycle
  <2>2. tc \in Hashes /\ UNCHANGED nodeVars
      BY <2>1, Shapes DEF Types, TplHash
  <2>3. PICK n : n = Min(tc.todo)
      OBVIOUS
  <2>4. n \in 0..Len(chain)
      BY <2>1, <2>3, NextHash DEF TplHash
  <2>5. PICK c : c = SubSeq(chain, 1, n)
      OBVIOUS
  <2>6. PICK answer \in {{}, {c}} :
            tc' = [tc EXCEPT !.todo = @ \ {n}, !.got = @ \cup answer]
      BY <2>1, <2>3, <2>5 DEF TplHash
  <2>7. tc'.got = tc.got \cup answer /\ tc.pc = "hashes"
      BY <2>1, <2>2, <2>6 DEF Hashes, TplHash
  <2>8. g = c
      BY <1>5, <2>6, <2>7
  <2>9. Len(b) = n /\ Len(b) <= Len(chain)
      BY <1>1, <1>2, <2>4, <2>5, <2>8, PrefixType
  <2>10. ~IsPrefix(b, chain)
      BY <1>1, <1>2, <2>5, <2>8, <2>9, PrefixMeans
  <2>11. b \in Rivals(chain, sent)
      BY <2>2, <2>9, <2>10 DEF Rivals, nodeVars
  <2>. QED
      BY <1>3, <2>11 DEF Honest
<1>. QED
    BY <1>4, <1>5

LEMMA HeldStep ==
    ASSUME Types, Tips, Honest, Held, [Next]_vars
    PROVE  Held'
<1>1. \A b \in sent' : (Kept(b) \/ Freed(b))'
    BY HeldSent
<1>2. \A h \in Handler : hd'[h].pc = "send" => SendHeld(h)'
    BY HeldSending
<1>3. tc'.pc = "hashes" =>
          \A g \in tc'.got : \A b \in sent' : Len(b) = Len(g) /\ b # g => b \in rivalled'
    BY HeldAnswers
<1>. QED
    BY <1>1, <1>2, <1>3 DEF Held
-----------------------------------------------------------------------------
(* The valuation.                                                          *)

LEMMA FeesKnownStep ==
    ASSUME Types, Tips, Held, [Next]_vars, UNCHANGED st, st.pc # "idle", NEW b \in sent,
           FeesKnown(b)
    PROVE  (Freed(b) \/ FeesKnown(b))'
<1>1. b \in Ours /\ immature \in Seq(Entry)
    BY DEF Types, NodeTypes, PoolTypes
<1>2. PICK e \in Range(immature) :
          e.blk = b /\ (e.counted \/ \E p \in Range(st.priced) : p.blk = b)
    BY DEF FeesKnown, Known
<1>3. e \in Range(immature') => FeesKnown(b)'
    BY <1>2 DEF FeesKnown, Known
<1>4. ASSUME NEW h \in Handler, Commit(h) PROVE e \in Range(immature')
  <2>1. PICK x : immature' = Append(immature, x) \/ immature' = immature
      BY <1>4 DEF Commit
  <2>2. Range(Append(immature, x)) = Range(immature) \cup {x}
      BY <1>1, RangeOfAppend
  <2>. QED
      BY <1>2, <2>1, <2>2
<1>5. CASE TplApply
  <2>1. immature' = Filter(immature, {y \in Range(immature) : y.blk \notin Released})
      BY <1>5 DEF TplApply, Released
  <2>2. Range(immature') = Range(immature) \cap {y \in Range(immature) : y.blk \notin Released}
      BY <1>1, <2>1, FilterRange
  <2>3. CASE b \in Released
    <3>1. Freed(b)
        BY <1>1, <1>5, <2>3, ReleasedFreed
    <3>. QED
        BY <1>1, <3>1, FreedStays
  <2>4. CASE b \notin Released
      BY <1>2, <1>3, <2>2, <2>4
  <2>. QED
      BY <2>3, <2>4
<1>6. ~StValue /\ ~Restart
    BY DEF StValue, Restart, StIdle
<1>7. \/ \E h \in Handler : Commit(h)
      \/ TplApply
      \/ UNCHANGED immature
    BY <1>6 DEF Next, NodeMoves, Snapshot, Submission, Refuse, SubmitBlock, TemplateCycle,
           TplLatest, TplIntro, TplHash, Valuation, StBalance, StBlockFees, StUnknown,
           poolVars, vars
<1>. QED
    BY <1>2, <1>3, <1>4, <1>5, <1>7

\* The blocks a balance was read of are still on the chain or had a rival.
LEMMA ValuedStays ==
    ASSUME Types, Tips, Honest, Held, [Next]_vars, UNCHANGED st, st.pc # "idle",
           NEW M \in SUBSET sent, ValuedBy(M)
    PROVE  ValuedBy(M)'
<1>1. Honest'
    BY HonestStep
<1>2. sent \subseteq sent' /\ rivalled \subseteq rivalled' /\ sent \subseteq Ours
      /\ chain' \in Chains
    BY FreedStays, NodeTypesStep DEF Types, NodeTypes
<1>3. Len(chain) \in Nat /\ Len(chain') \in Nat /\ Len(chain) <= Len(chain')
    BY ChainGrows
<1>4. ASSUME NEW b \in M PROVE (OnChain(b) \/ b \in rivalled)'
  <2>1. CASE b \in rivalled
      BY <1>2, <2>1
  <2>2. CASE OnChain(b)
    <3>1. Len(b) \in Nat /\ Len(b) <= Len(chain)
        BY <1>2, <2>2, OursType, BoundAssumption DEF OnChain, IsPrefix
    <3>2. Len(b) <= Len(chain') /\ b \in sent'
        BY <1>2, <1>3, <3>1
    <3>3. ~IsPrefix(b, chain') => b \in Rivals(chain', sent')
        BY <3>2 DEF Rivals
    <3>4. Rivals(chain', sent') \subseteq rivalled'
        BY <1>1 DEF Honest
    <3>. QED
        BY <3>3, <3>4 DEF OnChain
  <2>. QED
      BY <2>1, <2>2 DEF ValuedBy
<1>5. ASSUME NEW b \in M, st.pc = "fees" PROVE (Freed(b) \/ FeesKnown(b))'
  <2>1. CASE Freed(b)
      BY <1>2, <2>1, FreedStays
  <2>2. CASE FeesKnown(b)
      BY <2>2, FeesKnownStep
  <2>. QED
      BY <1>5, <2>1, <2>2 DEF ValuedBy
<1>. QED
    BY <1>4, <1>5 DEF ValuedBy

LEMMA ValuedStep ==
    ASSUME Types, Tips, Honest, Held, Valued, [Next]_vars
    PROVE  Valued'
<1>1. CASE StBalance
  <2>1. PICK M \in SUBSET sent : M = {b \in sent : OnChain(b)}
      OBVIOUS
  <2>2. UNCHANGED nodeVars /\ st' = [pc |-> "balance", bal |-> Balance]
      BY <1>1 DEF StBalance
  <2>3. ValuedBy(M)'
      BY <2>1, <2>2 DEF ValuedBy, Balance, OnChain, nodeVars
  <2>. QED
      BY <2>2, <2>3 DEF Valued, nodeVars
<1>2. CASE StBlockFees
  <2>1. PICK M \in SUBSET sent : ValuedBy(M)
      BY <1>2 DEF StBlockFees, Valued
  <2>2. PICK K : K = {e \in Uncounted(immature) : OnChain(e.blk)}
      OBVIOUS
  <2>3. UNCHANGED <<nodeVars, immature>>
        /\ st' = [pc |-> "fees", bal |-> st.bal, priced |-> Filter(immature, K)]
      BY <1>2, <2>2 DEF StBlockFees, poolVars
  <2>4. Range(st'.priced) = Range(immature) \cap K
      BY <2>3, FilterRange DEF Types, PoolTypes
  <2>5. ASSUME NEW b \in M, ~Freed(b)' PROVE FeesKnown(b)'
    <3>1. ~Freed(b)
        BY <2>3, <2>5 DEF Freed, Deep, nodeVars
    <3>2. b \in Blocks(immature) /\ OnChain(b)
        BY <2>1, <3>1 DEF Held, Kept, ValuedBy, Freed
    <3>3. PICK e \in Range(immature) : e.blk = b
        BY <3>2, BlocksRange
    <3>4. e.counted \/ e \in K
        BY <2>2, <3>2, <3>3 DEF Uncounted
    <3>5. e.counted \/ \E p \in Range(st'.priced) : p.blk = b
        BY <2>4, <3>3, <3>4
    <3>. QED
        BY <2>3, <3>3, <3>5 DEF FeesKnown, Known
  <2>6. /\ st'.bal = (Subsidy + Fees) * Cardinality(M)
        /\ \A b \in M : (OnChain(b) \/ b \in rivalled)'
      BY <2>1, <2>3 DEF ValuedBy, OnChain, nodeVars
  <2>7. ValuedBy(M)'
      BY <2>5, <2>6 DEF ValuedBy
  <2>. QED
      BY <2>3, <2>7 DEF Valued, nodeVars
<1>3. CASE StUnknown \/ StValue \/ Restart
    BY <1>3 DEF StUnknown, StValue, Restart, StIdle, Valued
<1>4. CASE UNCHANGED st
  <2>1. CASE st.pc = "idle"
      BY <1>4, <2>1 DEF Valued
  <2>2. CASE st.pc # "idle"
    <3>1. PICK M \in SUBSET sent : ValuedBy(M)
        BY <2>2 DEF Valued
    <3>2. ValuedBy(M)'
        BY <1>4, <2>2, <3>1, ValuedStays
    <3>. QED
        BY <3>1, <3>2, FreedStays DEF Valued
  <2>. QED
      BY <2>1, <2>2
<1>5. StBalance \/ StBlockFees \/ StUnknown \/ StValue \/ Restart \/ UNCHANGED st
    BY DEF Next, NodeMoves, Snapshot, Submission, Refuse, Commit, SubmitBlock, TemplateCycle,
           TplLatest, TplIntro, TplHash, TplApply, Valuation, vars
<1>. QED
    BY <1>1, <1>2, <1>3, <1>4, <1>5

LEMMA IInvInit == Init => IInv
<1>. SUFFICES ASSUME Init PROVE IInv
    OBVIOUS
<1>1. chain = <<>> /\ sent = {} /\ rivalled = {} /\ IsFiniteSet(sent)
    BY FS_EmptySet DEF Init
<1>2. <<>> \in Chains /\ Len(<<>>) = 0
  <2>1. 0 \in 0..MaxHeight
      BY BoundAssumption
  <2>2. <<>> \in [1..0 -> Mined]
      OBVIOUS
  <2>. QED
      BY <2>1, <2>2 DEF Chains
<1>3. tpl \in Template /\ tpl.parent = <<>>
    BY <1>2 DEF Init, Template
<1>4. IsLedger(EmptyWindow)
    BY DEF IsLedger, EmptyWindow
<1>5. <<>> \in Seq(Ours) /\ <<>> \in Seq(Entry)
    BY EmptySeq
<1>6. hd \in [Handler -> Shares] /\ \A h \in Handler : hd[h].pc = "idle"
    BY DEF Init, Shares, NoShare
<1>7. budget \in [share : [Nonce -> Nat], restart : Nat, valuation : Nat]
    BY BoundAssumption DEF Init
<1>8. Types
  <2>1. NodeTypes
      BY <1>1, <1>2 DEF NodeTypes
  <2>2. PoolTypes
      BY <1>3, <1>4, <1>5 DEF Init, PoolTypes
  <2>3. FileTypes
      BY <1>4, <1>5 DEF Init, FileTypes
  <2>4. ThreadTypes
      BY <1>6, <1>7 DEF Init, ThreadTypes
  <2>. QED
      BY <2>1, <2>2, <2>3, <2>4 DEF Types
<1>9. Tips
    BY <1>1, <1>2, <1>3 DEF Init, Tips, TplIdle
<1>10. Once
    BY DEF Init, Once, EmptyWindow
<1>11. Honest
    BY <1>1, <1>2 DEF Honest, Holds, Rivals
<1>12. Held
    BY <1>1, <1>6 DEF Init, Held, TplIdle
<1>13. Valued
    BY DEF Init, Valued, StIdle
<1>. QED
    BY <1>8, <1>9, <1>10, <1>11, <1>12, <1>13 DEF IInv

LEMMA IInvStep == IInv /\ [Next]_vars => IInv'
BY TypesStep, OnceStep, HonestStep, HeldStep, ValuedStep DEF IInv

\* The inductive invariant of the pool server.
THEOREM PoolInvariant == Spec => []IInv
<1>. QED
    BY IInvInit, IInvStep, PTL DEF Spec
-----------------------------------------------------------------------------
(* What follows.                                                           *)

\* TypeOK: the state of the pool keeps its types, and the replay keys are of
\* heights the template can have.
THEOREM TypeCorrect == Spec => []TypeOK
<1>1. IInv => TypeOK
  <2>. SUFFICES ASSUME IInv PROVE TypeOK
      OBVIOUS
  <2>1. NodeTypes /\ PoolTypes /\ ThreadTypes
      BY DEF IInv, Types
  <2>2. Range(immature) \subseteq Entry /\ Range(submitted) \subseteq Ours
      BY <2>1, RangeType DEF PoolTypes
  <2>3. \A e \in Range(immature) : e.blk \in Ours /\ e.counted \in BOOLEAN
      BY <2>2 DEF Entry
  <2>4. /\ \A h \in Handler : hd[h].pc \in {"idle", "hashed", "send"}
        /\ tc.pc \in {"idle", "intro", "hashes"}
        /\ st.pc \in {"idle", "balance", "fees"}
      BY <2>1, Shapes
  <2>. QED
      BY <2>1, <2>2, <2>3, <2>4 DEF TypeOK, NodeTypes, PoolTypes, Template
<1>. QED
    BY <1>1, PoolInvariant, PTL

\* CreditedOncePerRun: no header is credited twice while the process runs.
THEOREM CreditsAreSingle == Spec => []CreditedOncePerRun
<1>1. IInv => CreditedOncePerRun
  <2>. SUFFICES ASSUME IInv, NEW b \in DOMAIN window
               PROVE  window[b] - Credits(loaded, b) <= 1
      BY DEF CreditedOncePerRun
  <2>1. window[b] \in Nat /\ Credits(loaded, b) \in Nat
      BY DEF IInv, Types, PoolTypes, IsLedger, Credits
  <2>2. window[b] <= Credits(loaded, b) \/ window[b] = Credits(loaded, b) + 1
      BY DEF IInv, Once
  <2>. QED
      BY <2>1, <2>2
<1>. QED
    BY <1>1, PoolInvariant, PTL

\* SentIsHeld: a block the node was given is held back until it is deep.
THEOREM BlocksAreHeld == Spec => []SentIsHeld
<1>1. IInv => SentIsHeld
    BY DEF IInv, Held, Kept, Freed, SentIsHeld
<1>. QED
    BY <1>1, PoolInvariant, PTL

\* What is held back covers every block with fees in the entries.
LEMMA HeldCovers ==
    ASSUME NEW entries \in Seq(Entry), NEW X, IsFiniteSet(X),
           \A b \in X : HasFees(entries, b)
    PROVE  /\ HeldUnits(entries) \in Nat
           /\ HeldUnits(entries) >= (Subsidy + Fees) * Cardinality(X)
<1>1. PICK N \in Nat : N = Len(entries) /\ DOMAIN entries = 1..N
    BY LenProperties
<1>2. PICK C : C = {i \in DOMAIN entries : entries[i].counted}
    OBVIOUS
<1>3. IsFiniteSet(1..N) /\ Cardinality(1..N) = N
    BY FS_Interval
<1>4. IsFiniteSet(C) /\ Cardinality(C) <= N
    BY <1>1, <1>2, <1>3, FS_Subset
<1>5. PICK Y : Y = {entries[i].blk : i \in C}
    OBVIOUS
<1>6. IsFiniteSet(Y) /\ Cardinality(Y) <= Cardinality(C)
  <2>1. PICK f : f = [i \in C |-> entries[i].blk]
      OBVIOUS
  <2>2. f \in Surjection(C, Y)
      BY <1>5, <2>1 DEF Surjection
  <2>. QED
      BY <1>4, <2>2, FS_Surjection
<1>7. X \subseteq Y
    BY <1>1, <1>2, <1>5 DEF HasFees
<1>8. Cardinality(X) <= Cardinality(Y)
    BY <1>6, <1>7, FS_Subset
<1>9. Cardinality(X) \in Nat /\ Cardinality(Y) \in Nat /\ Cardinality(C) \in Nat
    BY <1>4, <1>6, FS_CardinalityType
<1>10. HeldUnits(entries) = 1 * N + 1 * Cardinality(C)
    BY <1>1, <1>2 DEF HeldUnits, Subsidy, Fees
<1>. QED
    BY <1>4, <1>6, <1>8, <1>9, <1>10 DEF Subsidy, Fees

\* HeldUntilBuried: a settlement never distributes the income of a block that is
\* not buried, except of one that had a rival.
THEOREM IncomeIsHeld == Spec => []HeldUntilBuried
<1>1. IInv => HeldUntilBuried
  <2>. SUFFICES ASSUME IInv, st.pc = "fees"
               PROVE  Value <= IncomeOf(Safe \cup rivalled)
      BY DEF HeldUntilBuried
  <2>1. NodeTypes /\ immature \in Seq(Entry) /\ st.priced \in Seq(Entry)
      BY Shapes DEF IInv, Types, PoolTypes
  <2>2. PICK M \in SUBSET sent : ValuedBy(M)
      BY DEF IInv, Valued
  <2>3. PICK R : R = Safe \cup rivalled
      OBVIOUS
  <2>4. R \subseteq sent
      BY <2>1, <2>3 DEF NodeTypes, Safe
  <2>5. PICK X : X = M \ R
      OBVIOUS
  <2>6. IsFiniteSet(M) /\ IsFiniteSet(R) /\ IsFiniteSet(X)
      BY <2>1, <2>2, <2>4, <2>5, FS_Subset DEF NodeTypes
  <2>7. ASSUME NEW b \in X PROVE HasFees(Priced, b)
    <3>1. b \in M /\ b \in sent /\ b \notin Safe /\ b \notin rivalled
        BY <2>3, <2>5, <2>7
    <3>2. ~Freed(b)
        BY <2>2, <3>1 DEF ValuedBy, Safe, Freed
    <3>3. FeesKnown(b)
        BY <2>2, <3>1, <3>2 DEF ValuedBy
    <3>4. PICK e \in Range(immature) :
              e.blk = b /\ (e.counted \/ \E p \in Range(st.priced) : p.blk = b)
        BY <3>3 DEF FeesKnown, Known
    <3>5. b \in Blocks(immature)
        BY <3>4, BlocksRange
    <3>6. HasFees(immature, b) \/ \E k \in DOMAIN st.priced : st.priced[k].blk = b
        BY <2>1, <3>4, LenProperties DEF HasFees, Range
    <3>. QED
        BY <2>1, <3>5, <3>6, FoldedSpec DEF Priced
  <2>8. Priced \in Seq(Entry)
      BY <2>1, FoldedSpec DEF Priced, Counts
  <2>9. HeldUnits(Priced) \in Nat /\ HeldUnits(Priced) >= (Subsidy + Fees) * Cardinality(X)
      BY <2>6, <2>7, <2>8, HeldCovers
  <2>10. Cardinality(M) <= Cardinality(X) + Cardinality(R)
    <3>1. M \subseteq X \cup R
        BY <2>5
    <3>2. IsFiniteSet(X \cup R) /\ Cardinality(M) <= Cardinality(X \cup R)
        BY <2>6, <3>1, FS_Union, FS_Subset
    <3>3. IsFiniteSet(X \cap R) /\ Cardinality(X \cap R) \in Nat
        BY <2>6, FS_Intersection, FS_CardinalityType
    <3>4. Cardinality(X \cup R) = Cardinality(X) + Cardinality(R) - Cardinality(X \cap R)
        BY <2>6, FS_Union
    <3>. QED
        BY <2>6, <3>2, <3>3, <3>4, FS_CardinalityType
  <2>11. st.bal = 2 * Cardinality(M)
      BY <2>2 DEF ValuedBy, Subsidy, Fees
  <2>12. Cardinality(M) \in Nat /\ Cardinality(X) \in Nat /\ Cardinality(R) \in Nat
      BY <2>6, FS_CardinalityType
  <2>13. IncomeOf(R) = 2 * Cardinality(R)
      BY DEF IncomeOf, Subsidy, Fees
  <2>14. HeldUnits(Priced) >= 2 * Cardinality(X)
      BY <2>9 DEF Subsidy, Fees
  <2>15. PICK hu \in Nat : hu = HeldUnits(Priced)
      BY <2>9
  <2>16. Value = IF hu > st.bal THEN 0 ELSE st.bal - hu
      BY <2>15 DEF Value, distributable_units
  <2>17. Value <= IncomeOf(R)
      BY <2>10, <2>11, <2>12, <2>13, <2>14, <2>15, <2>16
  <2>. QED
      BY <2>3, <2>17
<1>. QED
    BY <1>1, PoolInvariant, PTL

\* BlockNeverShed: a block is given up only when its height is over or its
\* solution was taken already.
THEOREM BlocksAreNotShed == Spec => BlockNeverShed
<1> DEFINE Shed(h) == hd[h].pc = "hashed" /\ hd'[h].pc = "idle" /\ IsBlock(hd[h].nonce)
           Over(h) == \/ Height(hd[h].tpl) /= Height(tpl)
                      \/ Key(hd[h].tpl, hd[h].nonce) \in seen
                      \/ budget'.restart /= budget.restart
<1>1. ASSUME IInv, [Next]_vars, NEW h \in Handler, Shed(h) PROVE Over(h)
  <2>1. hd \in [Handler -> Shares]
      BY <1>1 DEF IInv, Types, ThreadTypes
  <2>2. hd'[h] # hd[h]
      BY <1>1
  <2>3. CASE Restart
    <3>1. budget.restart \in Nat /\ budget'.restart = budget.restart - 1
        BY <1>1, <2>3 DEF Restart, IInv, Types, ThreadTypes
    <3>. QED
        BY <3>1
  <2>4. ASSUME NEW n \in Nonce, Snapshot(n) PROVE FALSE
    <3>1. PICK g \in Handler :
            hd' = [hd EXCEPT ![g] = [pc |-> "hashed", tpl |-> tpl, nonce |-> n]]
        BY <2>4 DEF Snapshot, Idle
    <3>2. hd'[h] = [pc |-> "hashed", tpl |-> tpl, nonce |-> n]
        BY <2>1, <2>2, <3>1
    <3>. QED
        BY <1>1, <3>2
  <2>5. ASSUME NEW g \in Handler, Submission(g) PROVE g = h
    <3>1. \A x \in Handler : x # g => hd'[x] = hd[x]
        BY <2>1, <2>5 DEF Submission, Refuse, Commit, SubmitBlock
    <3>. QED
        BY <2>2, <3>1
  <2>6. CASE Submission(h)
    <3>1. ~SubmitBlock(h)
        BY <1>1 DEF SubmitBlock
    <3>2. ~Commit(h)
      <4>. SUFFICES ASSUME Commit(h) PROVE FALSE
          OBVIOUS
      <4>1. hd' = [hd EXCEPT ![h].pc = "send"]
          BY <1>1 DEF Commit
      <4>2. hd[h] \in [pc : {"hashed", "send"}, tpl : Template, nonce : Nonce]
          BY <1>1, Shapes DEF IInv, Types
      <4>3. hd'[h].pc = "send"
          BY <2>1, <4>1, <4>2
      <4>. QED
          BY <1>1, <4>3
    <3>3. Refused(hd[h].tpl, hd[h].nonce)
        BY <1>1, <2>6, <3>1, <3>2 DEF Submission, Refuse, Throttled
    <3>. QED
        BY <1>1, <3>3 DEF Refused, share_limiter_rejects
  <2>7. NodeMoves \/ TemplateCycle \/ Valuation \/ UNCHANGED vars => hd' = hd
      BY DEF NodeMoves, TemplateCycle, TplLatest, TplIntro, TplHash, TplApply, Valuation,
             StBalance, StBlockFees, StUnknown, StValue, vars
  <2>. QED
      BY <1>1, <2>2, <2>3, <2>4, <2>5, <2>6, <2>7 DEF Next
<1>2. IInv /\ [Next]_vars => [\A h \in Handler : Shed(h) => Over(h)]_vars
    BY <1>1
<1>. QED
    BY <1>2, PoolInvariant, PTL DEF Spec, BlockNeverShed
=============================================================================
