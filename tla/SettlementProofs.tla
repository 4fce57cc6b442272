-------------------------- MODULE SettlementProofs --------------------------
(***************************************************************************)
(* Theorems about module Settlement: the types of its state, that credit   *)
(* is only given for what is buried, that no acknowledged unit is dropped, *)
(* and that the pool cannot pay out more than its wallet holds; and about  *)
(* module StateFile, the file its ledgers are written to: what a flush has *)
(* promised is never lost.                                                 *)
(***************************************************************************)
EXTENDS StateFile, Settlement, DataLemmas

-----------------------------------------------------------------------------
(* The invariants.                                                         *)

Tx == [to : Miner, units : Nat]
NetState == [node : {"none", "queued", "held"}, peers : BOOLEAN, block : {"no", "mined", "buried"}]
Step == {"idle", "poll", "resolved", "plan", "sign", "record", "post", "verify", "owe"}
LocalsType == [todo : SUBSET Ids, still : SUBSET Ids, buried : SUBSET Ids,
               plan : [Miner -> Nat], cur : Nat]

\* The types of all variables; a transaction that is being worked on exists,
\* and the wallet is not overdrawn: a block only spends what is there.
Types ==
    /\ txs \in Seq(Tx) /\ net \in Seq(NetState) /\ Len(net) = Len(txs)
    /\ mem \in Ledgers /\ disk \in Ledgers
    /\ bal \in Nat /\ pc \in Step
    /\ cycle \in LocalsType
    /\ pc \in {"record", "post", "verify", "owe"} => cycle.cur \in Ids

Buried == {t \in Ids : net[t].block = "buried"}

\* What a ledger credits is buried and no longer in flight: the next credit
\* is for other transactions.
Credits ==
    /\ \A m \in Miner : /\ mem.paid[m] <= Rows(Buried \ mem.recs, m)
                        /\ disk.paid[m] <= Rows(Buried \ disk.recs, m)
    /\ cycle.buried \subseteq Buried
    /\ pc = "poll" => cycle.todo \cup cycle.buried \subseteq mem.recs

\* What the transactions of x with numbers in A pay, and what they pay m
UnitsOf(x) == [t \in DOMAIN x |-> x[t].units]
Amount(x, A) == SumFunctionOnSet(UnitsOf(x), A)
PaidTo(x, A, m) == Amount(x, {t \in A : x[t].to = m})

\* Between a change of the ledgers and its flush, and only then, the file may
\* differ; the resolution and the return of a payout keep every claim.
ClaimOf(led, x, m) == led.paid[m] + PaidTo(x, led.recs, m) + led.owed[m]

Synced ==
    /\ pc \notin {"resolved", "record", "owe"} => disk = mem
    /\ pc \in {"resolved", "owe"} => \A m \in Miner : ClaimOf(disk, txs, m) >= ClaimOf(mem, txs, m)
    /\ pc \in {"record", "post", "verify"} => cycle.cur \in mem.recs

\* Money that can leave the wallet: what is recorded and in no final block.
AtStake == {t \in mem.recs \cup disk.recs : net[t].block = "no"}

Risky(n) == n.block = "mined" \/ (n.block = "no" /\ (n.node # "none" \/ n.peers))

\* A transaction some node can still mine, or a reorganisation can return, is
\* on record in memory and on disk, or written off; one that was not posted is
\* nowhere.
Recorded ==
    /\ \A t \in Ids : Risky(net[t]) => t \in (mem.recs \cap disk.recs) \cup written
    /\ written \subseteq Ids /\ written \cap mem.recs = {}
    /\ pc \in {"record", "post"} =>
         net[cycle.cur] = [node |-> "none", peers |-> FALSE, block |-> "no"]

\* A cycle pays only when the poll has found every earlier payout buried.
Polled ==
    /\ pc = "poll" => cycle.todo \cup cycle.still \cup cycle.buried = mem.recs
    /\ pc = "resolved" => mem.recs \subseteq cycle.still
    /\ pc = "plan" => mem.recs = {}
    /\ pc \in {"idle", "poll", "resolved", "plan"} => cycle.plan = Zero

\* What was written off, in the file as well, and left the wallet all the same
Spent == {t \in written \ disk.recs : net[t].block # "no"}

\* What is at stake and what is planned is covered by the wallet.
Covered == Units(AtStake) + Sum(cycle.plan) <= bal + Units(Spent)

-----------------------------------------------------------------------------
(* Sums of units.                                                          *)

LEMMA UnitsIsAmount ==
    /\ \A A : Units(A) = Amount(txs, A)
    /\ \A A, m : Rows(A, m) = PaidTo(txs, A, m)
    BY DEF Units, Rows, Amount, PaidTo, Ids, UnitsOf

LEMMA TxFacts ==
    ASSUME NEW x \in Seq(Tx), NEW A \in SUBSET (DOMAIN x)
    PROVE  /\ IsFiniteSet(A)
           /\ \A t \in A : x[t] \in Tx /\ UnitsOf(x)[t] = x[t].units
           /\ \A t \in A : UnitsOf(x)[t] \in Nat
<1>1. DOMAIN x = 1..Len(x) /\ Len(x) \in Nat
    BY LenProperties
<1>2. IsFiniteSet(DOMAIN x)
    BY <1>1, FS_Interval
<1>3. \A t \in DOMAIN x : x[t] \in Tx
    BY <1>1, ElementOfSeq
<1> QED
    BY <1>2, <1>3, FS_Subset DEF Tx, UnitsOf

LEMMA AmountNat ==
    ASSUME NEW x \in Seq(Tx), NEW A \in SUBSET (DOMAIN x)
    PROVE  Amount(x, A) \in Nat
<1> DEFINE f == UnitsOf(x)
<1>1. IsFiniteSet(A) /\ \A t \in A : f[t] \in Nat
    BY TxFacts
<1> HIDE DEF f
<1>2. SumFunctionOnSet(f, A) \in Nat
    BY <1>1, SumNat
<1> QED
    BY <1>2 DEF Amount, f

\* Disjoint sets add up.
LEMMA AmountUnion ==
    ASSUME NEW x \in Seq(Tx), NEW A \in SUBSET (DOMAIN x), NEW B \in SUBSET (DOMAIN x),
           A \cap B = {}
    PROVE  Amount(x, A \cup B) = Amount(x, A) + Amount(x, B)
<1> DEFINE f == UnitsOf(x)
<1>1. IsFiniteSet(A) /\ IsFiniteSet(B) /\ \A t \in A \cup B : f[t] \in Int
  <2>1. IsFiniteSet(A) /\ \A t \in A : f[t] \in Nat
      BY TxFacts
  <2>2. IsFiniteSet(B) /\ \A t \in B : f[t] \in Nat
      BY TxFacts
  <2> HIDE DEF f
  <2> QED
      BY <2>1, <2>2
<1> HIDE DEF f
<1>2. SumFunctionOnSet(f, A \cup B) = SumFunctionOnSet(f, A) + SumFunctionOnSet(f, B)
    BY <1>1, SumUnion
<1> QED
    BY <1>2 DEF Amount, f

LEMMA AmountSubset ==
    ASSUME NEW x \in Seq(Tx), NEW A, NEW B \in SUBSET (DOMAIN x), A \subseteq B
    PROVE  Amount(x, A) <= Amount(x, B)
<1> DEFINE C == B \ A
<1>1. A \in SUBSET (DOMAIN x) /\ C \in SUBSET (DOMAIN x) /\ A \cap C = {}
    OBVIOUS
<1>2. B = A \cup C
    OBVIOUS
<1> HIDE DEF C
<1>3. Amount(x, A \cup C) = Amount(x, A) + Amount(x, C)
    BY <1>1, AmountUnion
<1>4. Amount(x, A) \in Nat /\ Amount(x, C) \in Nat
    BY <1>1, AmountNat
<1> QED
    BY <1>2, <1>3, <1>4

LEMMA AmountOne ==
    ASSUME NEW x \in Seq(Tx), NEW A \in SUBSET (DOMAIN x), NEW t \in DOMAIN x, t \notin A
    PROVE  Amount(x, A \cup {t}) = x[t].units + Amount(x, A)
<1> DEFINE f == UnitsOf(x)
<1>1. IsFiniteSet(A) /\ (\A u \in A : f[u] \in Int)
    BY TxFacts
<1>2. f[t] \in Int /\ f[t] = x[t].units
  <2>1. {t} \in SUBSET (DOMAIN x) /\ t \in {t}
      OBVIOUS
  <2> QED
      BY <2>1, TxFacts
<1> HIDE DEF f
<1>3. SumFunctionOnSet(f, A \cup {t}) = f[t] + SumFunctionOnSet(f, A)
    BY <1>1, <1>2, SumAdd
<1> QED
    BY <1>2, <1>3 DEF Amount, f

LEMMA AmountEmpty ==
    ASSUME NEW x PROVE Amount(x, {}) = 0
    BY SumEmpty DEF Amount

\* A transaction signed later changes no earlier sum.
LEMMA AmountAppend ==
    ASSUME NEW x \in Seq(Tx), NEW e \in Tx, NEW A \in SUBSET (DOMAIN x)
    PROVE  Amount(Append(x, e), A) = Amount(x, A)
<1> DEFINE y == Append(x, e)
           f == UnitsOf(x)
           g == UnitsOf(y)
<1>1. /\ y \in Seq(Tx) /\ DOMAIN x = 1..Len(x) /\ DOMAIN y = 1..(Len(x) + 1) /\ Len(x) \in Nat
      /\ \A t \in 1..Len(x) : y[t] = x[t]
    BY AppendProperties, LenProperties
<1>2. \A t \in A : g[t] = f[t]
    BY <1>1 DEF UnitsOf
<1>3. IsFiniteSet(A) /\ \A t \in A : f[t] \in Int
    BY TxFacts, SMTT(30)
<1> HIDE DEF f, g
<1>4. SumFunctionOnSet(f, A) = SumFunctionOnSet(g, A)
    BY <1>2, <1>3, SumEqual
<1> QED
    BY <1>4 DEF Amount, f, g
-----------------------------------------------------------------------------
(* The same of what one miner is paid.                                     *)

LEMMA PaidNat ==
    ASSUME NEW x \in Seq(Tx), NEW A \in SUBSET (DOMAIN x), NEW m
    PROVE  PaidTo(x, A, m) \in Nat
    BY AmountNat DEF PaidTo

LEMMA PaidUnion ==
    ASSUME NEW x \in Seq(Tx), NEW A \in SUBSET (DOMAIN x), NEW B \in SUBSET (DOMAIN x),
           A \cap B = {}, NEW m
    PROVE  PaidTo(x, A \cup B, m) = PaidTo(x, A, m) + PaidTo(x, B, m)
<1> DEFINE C(D) == {t \in D : x[t].to = m}
<1>1. C(A) \in SUBSET (DOMAIN x) /\ C(B) \in SUBSET (DOMAIN x) /\ C(A) \cap C(B) = {}
      /\ C(A \cup B) = C(A) \cup C(B)
    OBVIOUS
<1> HIDE DEF C
<1>2. Amount(x, C(A) \cup C(B)) = Amount(x, C(A)) + Amount(x, C(B))
    BY <1>1, AmountUnion
<1> QED
    BY <1>1, <1>2 DEF PaidTo, C

LEMMA PaidSubset ==
    ASSUME NEW x \in Seq(Tx), NEW A, NEW B \in SUBSET (DOMAIN x), A \subseteq B, NEW m
    PROVE  PaidTo(x, A, m) <= PaidTo(x, B, m)
<1>1. {t \in A : x[t].to = m} \subseteq {t \in B : x[t].to = m}
      /\ {t \in B : x[t].to = m} \in SUBSET (DOMAIN x)
    OBVIOUS
<1> QED
    BY <1>1, AmountSubset DEF PaidTo

LEMMA PaidOne ==
    ASSUME NEW x \in Seq(Tx), NEW t \in DOMAIN x, NEW m
    PROVE  PaidTo(x, {t}, m) = IF x[t].to = m THEN x[t].units ELSE 0
<1>0. x[t] \in Tx
  <2>1. {t} \in SUBSET (DOMAIN x)
      OBVIOUS
  <2> QED
      BY <2>1, TxFacts
<1>1. Amount(x, {} \cup {t}) = x[t].units + Amount(x, {})
    BY AmountOne
<1>2. Amount(x, {t}) = x[t].units
  <2>1. {} \cup {t} = {t}
      OBVIOUS
  <2>2. Amount(x, {t}) = x[t].units + 0 /\ x[t].units \in Nat
      BY <1>0, <1>1, <2>1, AmountEmpty DEF Tx
  <2> QED
      BY <2>2
<1>3. CASE x[t].to = m
  <2>1. {u \in {t} : x[u].to = m} = {t}
      BY <1>3
  <2> QED
      BY <1>2, <1>3, <2>1 DEF PaidTo
<1>4. CASE x[t].to # m
  <2>1. {u \in {t} : x[u].to = m} = {}
      BY <1>4
  <2> QED
      BY <1>4, <2>1, AmountEmpty DEF PaidTo
<1> QED
    BY <1>3, <1>4

LEMMA PaidAppend ==
    ASSUME NEW x \in Seq(Tx), NEW e \in Tx, NEW A \in SUBSET (DOMAIN x), NEW m
    PROVE  PaidTo(Append(x, e), A, m) = PaidTo(x, A, m)
<1> DEFINE y == Append(x, e)
           B == {t \in A : x[t].to = m}
<1>1. {t \in A : y[t].to = m} = B
    BY AppendProperties, LenProperties
<1>2. B \in SUBSET (DOMAIN x)
    OBVIOUS
<1>3. Amount(y, B) = Amount(x, B)
    BY <1>2, AmountAppend
<1> QED
    BY <1>1, <1>3 DEF PaidTo
-----------------------------------------------------------------------------
(* Sums over the miners.                                                   *)

LEMMA MinersFinite == IsFiniteSet(Miner)
    BY SettlementConstants

LEMMA SumOfPlan ==
    ASSUME NEW p \in [Miner -> Nat]
    PROVE  Sum(p) \in Nat
    BY MinersFinite, SumNat DEF Sum

LEMMA SumOfZero == Sum(Zero) = 0
<1>1. \A A \in SUBSET Miner : IsFiniteSet(A)
    BY MinersFinite, FS_Subset
<1> DEFINE P == {A \in SUBSET Miner : SumFunctionOnSet(Zero, A) = 0}
<1>2. {} \in P
    BY SumEmpty
<1>3. ASSUME NEW A \in SUBSET Miner, NEW x \in Miner \ A, A \in P PROVE A \cup {x} \in P
  <2>1. (\A z \in A : Zero[z] \in Int) /\ Zero[x] = 0
      BY DEF Zero
  <2>2. SumFunctionOnSet(Zero, A \cup {x}) = Zero[x] + SumFunctionOnSet(Zero, A)
      BY <1>1, <2>1, SumAdd
  <2> QED
      BY <1>3, <2>1, <2>2
<1> HIDE DEF P
<1>4. Miner \in P
    BY <1>2, <1>3, MinersFinite, FiniteSetInduction
<1> QED
    BY <1>4 DEF P, Sum

\* What is signed, or given up, leaves the plan.
LEMMA SumOfRest ==
    ASSUME NEW p \in [Miner -> Nat], NEW m \in Miner
    PROVE  Sum([p EXCEPT ![m] = 0]) = Sum(p) - p[m]
<1> DEFINE q == [p EXCEPT ![m] = 0]
           D == Miner \ {m}
<1>1. q \in [Miner -> Nat] /\ q[m] = 0 /\ \A x \in D : q[x] = p[x]
    OBVIOUS
<1>2. IsFiniteSet(D) /\ m \notin D /\ D \cup {m} = Miner
    BY MinersFinite, FS_Subset
<1>3. (\A x \in D : p[x] \in Int) /\ (\A x \in D : q[x] \in Int) /\ p[m] \in Int /\ q[m] \in Int
    BY <1>1
<1> HIDE DEF q, D
<1>4. SumFunctionOnSet(p, D) \in Int /\ SumFunctionOnSet(p, D \cup {m}) = p[m] + SumFunctionOnSet(p, D)
    BY <1>2, <1>3, SumAdd
<1>5. SumFunctionOnSet(q, D \cup {m}) = q[m] + SumFunctionOnSet(q, D)
    BY <1>2, <1>3, SumAdd
<1>6. SumFunctionOnSet(p, D) = SumFunctionOnSet(q, D)
    BY <1>1, <1>2, <1>3, SumEqual
<1>7. Sum(q) = q[m] + SumFunctionOnSet(q, D) /\ Sum(p) = p[m] + SumFunctionOnSet(p, D)
    BY <1>2, <1>4, <1>5 DEF Sum
<1> QED
    BY <1>1, <1>3, <1>4, <1>6, <1>7 DEF q
-----------------------------------------------------------------------------
(* Types.                                                                  *)

LEMMA IdsAre ==
    ASSUME Types
    PROVE  /\ Ids = 1..Len(txs) /\ Len(txs) \in Nat /\ DOMAIN net = Ids
           /\ net \in [Ids -> NetState]
           /\ \A t \in Ids : txs[t] \in Tx /\ net[t] \in NetState
    BY LenProperties, ElementOfSeq DEF Types, Ids

LEMMA InitTypes == Init => Types
  <1> SUFFICES ASSUME Init PROVE Types
      OBVIOUS
  <1>1. txs \in Seq(Tx) /\ net \in Seq(NetState) /\ Len(net) = Len(txs)
      BY EmptySeq DEF Init
  <1>2. mem \in Ledgers /\ disk \in Ledgers /\ cycle \in LocalsType
      BY DEF Init, Ledgers, LocalsType, Zero, Locals
  <1> QED
      BY <1>1, <1>2 DEF Init, Types, Step

LEMMA NetSeq ==
    ASSUME Types, NEW g \in [Ids -> NetState]
    PROVE  g \in Seq(NetState) /\ Len(g) = Len(txs) /\ DOMAIN g = Ids
<1>1. g \in [1..Len(txs) -> NetState] /\ Len(txs) \in Nat
    BY IdsAre
<1>2. g \in Seq(NetState)
    BY <1>1, SeqDef
<1>3. 1..Len(g) = 1..Len(txs) /\ Len(g) \in Nat
    BY <1>1, <1>2, LenProperties
<1> QED
    BY <1>1, <1>2, <1>3

\* The network moves money and transactions, never a ledger.
LEMMA NetworkTypes ==
    ASSUME Types, Network
    PROVE  /\ Types' /\ UNCHANGED <<txs, mem, disk, pc, cycle, written>>
           /\ net' = net \/ net' \in [Ids -> NetState]
<1>0. /\ Ids = 1..Len(txs) /\ DOMAIN net = Ids /\ bal \in Nat
      /\ \A t \in Ids : txs[t].units \in Nat /\ net[t] \in NetState
    BY IdsAre DEF Tx, Types
<1>1. UNCHANGED <<txs, mem, disk, pc, cycle, written>>
    BY DEF Network, Income, NodeRestart, NodeInsert, NodeDrop, PeersForget, Mine, Reorg, Bury, Pool
<1>2. net' = net \/ net' \in [Ids -> NetState]
  <2>0. net \in [Ids -> NetState]
      BY IdsAre
  <2>1. CASE Income
      BY <2>1 DEF Income
  <2>2. CASE NodeRestart
      BY <1>0, <2>2 DEF NodeRestart, NetState
  <2>3. CASE \E t \in Ids : NodeInsert(t) \/ NodeDrop(t) \/ PeersForget(t)
    <3>1. PICK t \in Ids : NodeInsert(t) \/ NodeDrop(t) \/ PeersForget(t)
        BY <2>3
    <3>2. CASE NodeInsert(t)
        BY <2>0, <3>2 DEF NodeInsert, NetState
    <3>3. CASE NodeDrop(t)
        BY <2>0, <3>3 DEF NodeDrop, NetState
    <3>4. CASE PeersForget(t)
        BY <2>0, <3>4 DEF PeersForget, NetState
    <3> QED
        BY <3>1, <3>2, <3>3, <3>4
  <2>4. CASE \E t \in Ids : Mine(t) \/ Reorg(t) \/ Bury(t)
      BY <2>0, <2>4 DEF Mine, Reorg, Bury, NetState
  <2>5. \/ Income \/ NodeRestart
        \/ \E t \in Ids : NodeInsert(t) \/ NodeDrop(t) \/ PeersForget(t)
        \/ \E t \in Ids : Mine(t) \/ Reorg(t) \/ Bury(t)
      BY DEF Network
  <2> QED
      BY <2>1, <2>2, <2>3, <2>4, <2>5
<1>3. net' \in Seq(NetState) /\ Len(net') = Len(txs')
    BY <1>1, <1>2, NetSeq DEF Types
<1>4. bal' \in Nat
  <2>1. CASE UNCHANGED bal
      BY <1>0, <2>1
  <2>2. CASE bal' = bal + 1
      BY <1>0, <2>2
  <2>3. ASSUME NEW t \in Ids, bal >= txs[t].units, bal' = bal - txs[t].units PROVE bal' \in Nat
      BY <1>0, <2>3
  <2>4. ASSUME NEW t \in Ids, bal' = bal + txs[t].units PROVE bal' \in Nat
      BY <1>0, <2>4
  <2>5. \/ UNCHANGED bal
        \/ bal' = bal + 1
        \/ \E t \in Ids : bal >= txs[t].units /\ bal' = bal - txs[t].units
        \/ \E t \in Ids : bal' = bal + txs[t].units
      BY DEF Network, Income, NodeRestart, NodeInsert, NodeDrop, PeersForget, Mine, Reorg, Bury
  <2> QED
      BY <2>1, <2>2, <2>3, <2>4, <2>5
<1>5. mem' \in Ledgers' /\ disk' \in Ledgers' /\ cycle' \in LocalsType' /\ Ids' = Ids
    BY <1>1 DEF Types, Ledgers, LocalsType, Ids
<1> QED
    BY <1>1, <1>2, <1>3, <1>4, <1>5 DEF Types

\* A step of the pool that signs nothing.
LEMMA LedgerTypes ==
    ASSUME Types, UNCHANGED <<txs, bal>>,
           net' = net \/ net' \in [Ids -> NetState],
           mem' \in Ledgers, disk' \in Ledgers, cycle' \in LocalsType, pc' \in Step,
           pc' \in {"record", "post", "verify", "owe"} => cycle'.cur \in Ids
    PROVE  Types'
<1>1. net' \in Seq(NetState) /\ Len(net') = Len(txs')
    BY NetSeq DEF Types
<1>2. Ledgers' = Ledgers /\ LocalsType' = LocalsType /\ Ids' = Ids
    BY DEF Ledgers, LocalsType, Ids
<1> QED
    BY <1>1, <1>2 DEF Types

LEMMA PostedType ==
    ASSUME Types, NEW t \in Ids
    PROVE  /\ [net EXCEPT ![t].node = "queued"] \in [Ids -> NetState]
           /\ [net EXCEPT ![t].node = "held", ![t].peers = TRUE] \in [Ids -> NetState]
<1>1. net \in [Ids -> NetState]
    BY IdsAre
<1> QED
    BY <1>1 DEF NetState

LEMMA LedgerOps ==
    ASSUME Types
    PROVE  /\ \A ids \in SUBSET Ids : Confirmed(mem, ids) \in Ledgers
           /\ \A t \in Ids : OwedBack(mem, t) \in Ledgers
<1>1. mem.recs \in SUBSET Ids /\ mem.owed \in [Miner -> Nat] /\ mem.paid \in [Miner -> Nat]
    BY DEF Types, Ledgers
<1>2. ASSUME NEW ids \in SUBSET Ids PROVE Confirmed(mem, ids) \in Ledgers
  <2>1. \A m \in Miner : Rows(ids, m) \in Nat
      BY UnitsIsAmount, PaidNat DEF Types, Ids
  <2>2. [m \in Miner |-> mem.paid[m] + Rows(ids, m)] \in [Miner -> Nat]
      BY <1>1, <2>1
  <2> QED
      BY <1>1, <2>2 DEF Ledgers, Confirmed
<1>3. ASSUME NEW t \in Ids PROVE OwedBack(mem, t) \in Ledgers
  <2>1. txs[t].to \in Miner /\ txs[t].units \in Nat
      BY IdsAre DEF Tx
  <2>2. [mem.owed EXCEPT ![txs[t].to] = @ + txs[t].units] \in [Miner -> Nat]
      BY <1>1, <2>1
  <2> QED
      BY <1>1, <2>2 DEF Ledgers, OwedBack
<1> QED
    BY <1>2, <1>3

LEMMA Locally ==
    ASSUME Types
    PROVE  /\ Locals \in LocalsType /\ Zero \in [Miner -> Nat]
           /\ cycle = [todo |-> cycle.todo, still |-> cycle.still, buried |-> cycle.buried,
                       plan |-> cycle.plan, cur |-> cycle.cur]
           /\ cycle.todo \in SUBSET Ids /\ cycle.still \in SUBSET Ids /\ cycle.buried \in SUBSET Ids
           /\ cycle.plan \in [Miner -> Nat] /\ cycle.cur \in Nat
           /\ mem.recs \in SUBSET Ids /\ disk.recs \in SUBSET Ids
           /\ mem.owed \in [Miner -> Nat] /\ disk.owed \in [Miner -> Nat]
           /\ mem.paid \in [Miner -> Nat] /\ disk.paid \in [Miner -> Nat]
    BY DEF Types, Ledgers, LocalsType, Locals, Zero

\* The polls of the payouts in flight.
Poll(t) == PollUnknown(t) \/ PollHeld(t) \/ PollBuried(t) \/ PollGone(t) \/ PollUnheard(t)

\* A poll moves one transaction from todo to still or to buried.
LEMMA PollSteps ==
    ASSUME Types, NEW t \in Ids, Poll(t)
    PROVE  /\ pc = "poll" /\ t \in cycle.todo
           /\ UNCHANGED <<txs, bal, earned, mem, disk, pc, written, crashes>>
           /\ net' = net \/ (Query(t) = "gone" /\ net' = [net EXCEPT ![t].node = "queued"])
           /\ cycle'.todo = cycle.todo \ {t} /\ cycle'.plan = cycle.plan
           /\ \/ cycle'.still = cycle.still \cup {t} /\ cycle'.buried = cycle.buried
              \/ /\ cycle'.still = cycle.still /\ cycle'.buried = cycle.buried \cup {t}
                 /\ Query(t) = "buried"
           /\ cycle' \in LocalsType
<1> USE Locally
<1>1. CASE PollUnknown(t)
    BY <1>1 DEF PollUnknown, Chain, LocalsType
<1>2. CASE PollHeld(t)
    BY <1>2 DEF PollHeld, Chain, LocalsType
<1>3. CASE PollBuried(t)
    BY <1>3 DEF PollBuried, Chain, LocalsType, Done, InFlight
<1>4. CASE PollGone(t)
    BY <1>4 DEF PollGone, Posted, LocalsType
<1>5. CASE PollUnheard(t)
    BY <1>5 DEF PollUnheard, Chain, LocalsType
<1> QED
    BY <1>1, <1>2, <1>3, <1>4, <1>5 DEF Poll

\* What MakePlan chooses is covered by the wallet.
LEMMA PlanSteps ==
    ASSUME Types, MakePlan
    PROVE  /\ pc = "plan" /\ UNCHANGED <<txs, net, bal, earned, mem, disk, written, crashes>>
           /\ cycle' \in LocalsType
           /\ Sum(cycle'.plan) <= bal
           /\ \/ pc' = "sign"
              \/ pc' = "idle" /\ cycle'.plan = Zero
<1>1. PICK p \in Plans(Distributable) :
          /\ cycle' = [cycle EXCEPT !.plan = p]
          /\ pc' = IF p = Zero THEN "idle" ELSE "sign"
    BY DEF MakePlan
<1>2. Distributable \in Nat /\ Distributable <= bal
    BY DEF Distributable, Types
<1>3. p \in [Miner -> 0..Distributable] /\ Sum(p) <= Distributable
    BY DEF Plans
<1>4. p \in [Miner -> Nat]
    BY <1>2, <1>3
<1>5. cycle' \in LocalsType /\ cycle'.plan = p
    BY <1>1, <1>4, Locally DEF LocalsType
<1>6. Sum(p) \in Nat /\ bal \in Nat
    BY <1>4, SumOfPlan DEF Types
<1> HIDE DEF Sum
<1>7. Sum(p) <= bal
    BY <1>2, <1>3, <1>6
<1> QED
    BY <1>1, <1>5, <1>7 DEF MakePlan, Chain

\* Signing records a new transaction for the units the plan gives its miner.
LEMMA RecordSteps ==
    ASSUME Types, NEW m \in Miner, Record(m)
    PROVE  LET u == cycle.plan[m]  n == Len(txs) + 1 IN
           /\ pc = "sign" /\ pc' = "record" /\ UNCHANGED <<bal, earned, disk, written, crashes>>
           /\ u \in Nat /\ n \notin Ids
           /\ txs' = Append(txs, [to |-> m, units |-> u]) /\ Ids' = Ids \cup {n}
           /\ \A t \in Ids : txs'[t] = txs[t]
           /\ txs'[n] = [to |-> m, units |-> u]
           /\ \A t \in Ids : net'[t] = net[t]
           /\ net'[n] = [node |-> "none", peers |-> FALSE, block |-> "no"]
           /\ mem'.recs = mem.recs \cup {n} /\ mem'.paid = mem.paid
           /\ mem'.owed = Deduct(mem.owed, m, u)
           /\ cycle'.plan = [cycle.plan EXCEPT ![m] = 0] /\ cycle'.cur = n
           /\ cycle'.buried = cycle.buried
           /\ Types'
<1> DEFINE u == cycle.plan[m]
           n == Len(txs) + 1
           e == [to |-> m, units |-> u]
           x == [node |-> "none", peers |-> FALSE, block |-> "no"]
<1> USE Locally
<1>1. /\ Ids = 1..Len(txs) /\ Len(txs) \in Nat /\ u \in Nat /\ e \in Tx /\ x \in NetState
      /\ txs \in Seq(Tx) /\ net \in Seq(NetState) /\ Len(net) = Len(txs)
    BY IdsAre DEF Types, Tx, NetState
<1>2. txs' = Append(txs, e) /\ net' = Append(net, x)
    BY DEF Record
<1> HIDE DEF e, x
<1>3. /\ txs' \in Seq(Tx) /\ Len(txs') = n /\ Ids' = Ids \cup {n} /\ n \notin Ids
      /\ txs'[n] = e /\ \A t \in Ids : txs'[t] = txs[t]
  <2>1. txs' \in Seq(Tx) /\ Len(txs') = n /\ txs'[n] = e /\ \A t \in Ids : txs'[t] = txs[t]
      BY <1>1, <1>2, AppendProperties
  <2>2. DOMAIN txs' = 1..n
      BY <2>1, LenProperties
  <2>3. Ids' = 1..n
      BY <2>2 DEF Ids
  <2> QED
      BY <1>1, <2>1, <2>3
<1>4. /\ net' \in Seq(NetState) /\ Len(net') = n
      /\ net'[n] = x /\ \A t \in Ids : net'[t] = net[t]
    BY <1>1, <1>2, AppendProperties
<1>5. n \in Nat /\ mem' = [mem EXCEPT !.recs = @ \cup {n}, !.owed = Deduct(@, m, u)]
      /\ cycle' = [cycle EXCEPT !.plan[m] = 0, !.cur = n]
    BY <1>1, <1>3 DEF Record
<1> HIDE DEF n
<1>6. /\ mem'.recs = mem.recs \cup {n} /\ mem'.paid = mem.paid
      /\ mem'.owed = Deduct(mem.owed, m, u)
      /\ mem' = [recs |-> mem'.recs, owed |-> mem'.owed, paid |-> mem'.paid]
    BY <1>5 DEF Types, Ledgers
<1>7. Deduct(mem.owed, m, u) \in [Miner -> Nat]
    BY <1>1 DEF Deduct
<1>8. mem' \in Ledgers'
    BY <1>3, <1>6, <1>7 DEF Ledgers
<1>9. disk' = disk /\ disk' \in Ledgers'
    BY <1>3 DEF Ledgers, Types, Record
<1>10. /\ cycle'.plan = [cycle.plan EXCEPT ![m] = 0] /\ cycle'.cur = n
       /\ cycle'.buried = cycle.buried /\ cycle'.todo = cycle.todo /\ cycle'.still = cycle.still
       /\ cycle' = [todo |-> cycle'.todo, still |-> cycle'.still, buried |-> cycle'.buried,
                       plan |-> cycle'.plan, cur |-> cycle'.cur]
    BY <1>5
<1>11. cycle' \in LocalsType'
    BY <1>3, <1>5, <1>10 DEF LocalsType
<1>12. /\ pc = "sign" /\ pc' = "record" /\ UNCHANGED <<bal, earned, disk, written, crashes>>
    BY DEF Record
<1>13. Types'
    BY <1>3, <1>4, <1>8, <1>9, <1>10, <1>11, <1>12 DEF Types, Step
<1> QED
    BY <1>1, <1>2, <1>3, <1>4, <1>6, <1>10, <1>12, <1>13 DEF e, x, n

\* The steps of the pool other than polls, plans and signatures, by what they
\* do to the ledgers.
LEMMA TypesStep ==
    ASSUME Types, [Next]_vars
    PROVE  Types'
<1> USE Locally
<1>1. CASE UNCHANGED vars
    BY <1>1 DEF vars, Types, Ledgers, LocalsType, Ids
<1>2. CASE Network
    BY <1>2, NetworkTypes
<1>3. CASE \E t \in Ids : Poll(t)
  <2>1. PICK t \in Ids : Poll(t)
      BY <1>3
  <2>2. net' = net \/ net' \in [Ids -> NetState]
    <3>1. net' = net \/ net' = [net EXCEPT ![t].node = "queued"]
        BY <2>1, PollSteps
    <3>2. [net EXCEPT ![t].node = "queued"] \in [Ids -> NetState]
        BY PostedType
    <3> QED
        BY <3>1, <3>2
  <2> QED
      BY <2>1, <2>2, PollSteps, LedgerTypes DEF Types, Step
<1>4. CASE MakePlan
    BY <1>4, PlanSteps, LedgerTypes DEF Types, Step
<1>5. CASE \E m \in Miner : Record(m)
    BY <1>5, RecordSteps
<1>6. CASE Start
    BY <1>6, LedgerTypes DEF Start, Chain, Types, Step, LocalsType, Locals
<1>7. CASE Resolve
    BY <1>7, LedgerTypes, LedgerOps DEF Resolve, Chain, Types, Step
<1>8. CASE FlushResolved
    BY <1>8, LedgerTypes DEF FlushResolved, Flushed, Chain, Types, Step
<1>9. CASE SkipPlan
    BY <1>9, LedgerTypes DEF SkipPlan, Chain, Types, Step
<1>10. CASE \E m \in Miner : SignFails(m)
  <2>1. PICK m \in Miner : SignFails(m)
      BY <1>10
  <2>2. cycle' \in LocalsType
      BY <2>1 DEF SignFails, LocalsType
  <2> QED
      BY <2>1, <2>2, LedgerTypes DEF SignFails, Chain, Types, Step
<1>11. CASE CycleEnds
    BY <1>11, LedgerTypes DEF CycleEnds, Chain, Types, Step
<1>12. CASE FlushRecord
    BY <1>12, LedgerTypes DEF FlushRecord, RecordFlushed, Chain, Types, Step
<1>13. CASE PostAccepted
    BY <1>13, LedgerTypes, PostedType DEF PostAccepted, Types, Step
<1>14. CASE PostRejected
    BY <1>14, LedgerTypes, LedgerOps DEF PostRejected, Chain, Types, Step
<1>15. CASE PostUnresolved
  <2>1. cycle' \in LocalsType
      BY <1>15 DEF PostUnresolved, LocalsType
  <2>2. net' = net \/ net' \in [Ids -> NetState]
    <3>1. net' = net \/ net' = [net EXCEPT ![cycle.cur].node = "queued"]
        BY <1>15 DEF PostUnresolved
    <3>2. cycle.cur \in Ids
        BY <1>15 DEF PostUnresolved, Types
    <3>3. [net EXCEPT ![cycle.cur].node = "queued"] \in [Ids -> NetState]
        BY <3>2, PostedType
    <3> QED
        BY <3>1, <3>3
  <2> QED
      BY <1>15, <2>1, <2>2, LedgerTypes DEF PostUnresolved, Unresolved, Types, Step
<1>16. CASE VerifyKept
  <2>1. cycle' \in LocalsType
      BY <1>16 DEF VerifyKept, LocalsType
  <2> QED
      BY <1>16, <2>1, LedgerTypes DEF VerifyKept, Chain, Types, Step
<1>17. CASE VerifyMissing
    BY <1>17, LedgerTypes, LedgerOps DEF VerifyMissing, Chain, Types, Step
<1>18. CASE FlushVerdict
  <2>1. cycle' \in LocalsType
      BY <1>18 DEF FlushVerdict, LocalsType
  <2> QED
      BY <1>18, <2>1, LedgerTypes DEF FlushVerdict, Flushed, Chain, Types, Step
<1>19. CASE Snapshot
    BY <1>19, LedgerTypes DEF Snapshot, Chain, Types
<1>20. CASE Crash
    BY <1>20, LedgerTypes DEF Crash, Chain, Types, Step
<1> QED
    BY <1>1, <1>2, <1>3, <1>4, <1>5, <1>6, <1>7, <1>8, <1>9, <1>10, <1>11, <1>12,
       <1>13, <1>14, <1>15, <1>16, <1>17, <1>18, <1>19, <1>20 DEF Next, Settle, Poll

LEMMA TypesAlways == Spec => []Types
<1>1. Init => Types
    BY InitTypes
<1>2. Types /\ [Next]_vars => Types'
    BY TypesStep
<1> QED
    BY <1>1, <1>2, PTL DEF Spec

\* The ledgers in memory and in the state file are whole in every state: they
\* name signed transactions, no debt goes below zero whatever deduct_owed takes
\* off it, and the wallet is never overdrawn.
THEOREM TypeCorrect == Spec => []TypeOK
<1>1. Types => TypeOK
    BY IdsAre DEF Types, TypeOK, Tx
<1> QED
    BY <1>1, TypesAlways, PTL
-----------------------------------------------------------------------------
(* What is credited is buried.                                             *)

CreditedIn(led, x, B) == \A m \in Miner : led.paid[m] <= PaidTo(x, B \ led.recs, m)

LEMMA CreditsAre ==
    Credits <=> /\ CreditedIn(mem, txs, Buried) /\ CreditedIn(disk, txs, Buried)
                /\ cycle.buried \subseteq Buried
                /\ pc = "poll" => cycle.todo \cup cycle.buried \subseteq mem.recs
    BY UnitsIsAmount DEF Credits, CreditedIn

LEMMA NetworkBlocks ==
    ASSUME Types, Network
    PROVE  Buried \subseteq Buried'
<1>0. net \in [Ids -> NetState] /\ Ids' = Ids
    BY IdsAre, NetworkTypes DEF Ids
<1> SUFFICES ASSUME NEW u \in Ids, net[u].block = "buried" PROVE net'[u].block = "buried"
    BY <1>0 DEF Buried
<1>1. CASE Income
    BY <1>1 DEF Income
<1>2. CASE NodeRestart
    BY <1>0, <1>2 DEF NodeRestart, NetState
<1>3. ASSUME NEW t \in Ids, NodeInsert(t) PROVE net'[u].block = "buried"
    BY <1>0, <1>3 DEF NodeInsert, NetState
<1>4. ASSUME NEW t \in Ids, NodeDrop(t) PROVE net'[u].block = "buried"
    BY <1>0, <1>4 DEF NodeDrop, NetState
<1>5. ASSUME NEW t \in Ids, PeersForget(t) PROVE net'[u].block = "buried"
    BY <1>0, <1>5 DEF PeersForget, NetState
<1>6. ASSUME NEW t \in Ids, Mine(t) PROVE net'[u].block = "buried"
    BY <1>0, <1>6 DEF Mine, NetState
<1>7. ASSUME NEW t \in Ids, Reorg(t) PROVE net'[u].block = "buried"
    BY <1>0, <1>7 DEF Reorg, NetState
<1>8. ASSUME NEW t \in Ids, Bury(t) PROVE net'[u].block = "buried"
    BY <1>0, <1>8 DEF Bury, NetState
<1> QED
    BY <1>1, <1>2, <1>3, <1>4, <1>5, <1>6, <1>7, <1>8 DEF Network

\* More blocks, and the same ledgers or each other's.
LEMMA CreditsKept ==
    ASSUME Types, Credits, txs' = txs, Buried \subseteq Buried',
           mem' \in {mem, disk}, disk' \in {mem, disk}
    PROVE  CreditedIn(mem, txs, Buried)' /\ CreditedIn(disk, txs, Buried)'
<1>1. Ids' = Ids /\ Buried' \in SUBSET Ids /\ DOMAIN txs = Ids /\ txs \in Seq(Tx)
    BY DEF Ids, Buried, Types
<1>2. ASSUME NEW led \in {mem, disk}, NEW m \in Miner
      PROVE  led.paid[m] <= PaidTo(txs, Buried' \ led.recs, m)
  <2> DEFINE A == Buried \ led.recs
             B == Buried' \ led.recs
  <2>1. A \subseteq B /\ A \in SUBSET (DOMAIN txs) /\ B \in SUBSET (DOMAIN txs)
      BY <1>1
  <2>2. led.paid[m] <= PaidTo(txs, A, m) /\ led.paid[m] \in Nat
      BY CreditsAre, Locally DEF CreditedIn
  <2> HIDE DEF A, B
  <2>3. PaidTo(txs, A, m) <= PaidTo(txs, B, m)
      BY <1>1, <2>1, PaidSubset
  <2>4. PaidTo(txs, A, m) \in Nat /\ PaidTo(txs, B, m) \in Nat
      BY <1>1, <2>1, PaidNat
  <2>5. led.paid[m] <= PaidTo(txs, B, m)
      BY <2>2, <2>3, <2>4
  <2> QED
      BY <2>5 DEF B
<1> QED
    BY <1>2 DEF CreditedIn

LEMMA SameBlocks ==
    ASSUME Types, txs' = txs,
           \/ net' = net
           \/ \E t \in Ids : net' = [net EXCEPT ![t].node = "queued"]
           \/ \E t \in Ids : net' = [net EXCEPT ![t].node = "held", ![t].peers = TRUE]
    PROVE  /\ Ids' = Ids /\ Buried' = Buried
           /\ \A t \in Ids : net'[t].block = net[t].block
<1>1. Ids' = Ids /\ net \in [Ids -> NetState]
    BY IdsAre DEF Ids
<1>2. ASSUME NEW t \in Ids PROVE net'[t].block = net[t].block
  <2>1. CASE net' = net
      BY <2>1
  <2>2. ASSUME NEW c \in Ids, net' = [net EXCEPT ![c].node = "queued"]
        PROVE  net'[t].block = net[t].block
      BY <1>1, <2>2 DEF NetState
  <2>3. ASSUME NEW c \in Ids, net' = [net EXCEPT ![c].node = "held", ![c].peers = TRUE]
        PROVE  net'[t].block = net[t].block
      BY <1>1, <2>3 DEF NetState
  <2> QED
      BY <2>1, <2>2, <2>3
<1> QED
    BY <1>1, <1>2 DEF Buried

\* Paying back, or taking off the ledger what was just credited.
LEMMA CreditsLedger ==
    ASSUME Types, Credits, txs' = txs, net' = net, disk' = disk,
           \/ \E t : mem' = OwedBack(mem, t)
           \/ mem' = Confirmed(mem, cycle.buried) /\ cycle.buried \subseteq mem.recs
    PROVE  CreditedIn(mem, txs, Buried)' /\ CreditedIn(disk, txs, Buried)'
<1>1. Ids' = Ids /\ Buried' = Buried /\ Buried \in SUBSET (DOMAIN txs) /\ txs \in Seq(Tx)
    BY SameBlocks DEF Types, Buried, Ids
<1>2. CreditedIn(disk, txs, Buried)'
    BY <1>1, CreditsAre DEF CreditedIn
<1> SUFFICES ASSUME NEW m \in Miner
             PROVE  mem'.paid[m] <= PaidTo(txs, Buried \ mem'.recs, m)
    BY <1>1, <1>2 DEF CreditedIn
<1> DEFINE A == Buried \ mem.recs
           B == Buried \ mem'.recs
<1>3. A \in SUBSET (DOMAIN txs) /\ B \in SUBSET (DOMAIN txs)
    BY <1>1
<1>4. PaidTo(txs, A, m) \in Nat /\ PaidTo(txs, B, m) \in Nat
    BY <1>1, <1>3, PaidNat
<1>5. mem.paid[m] <= PaidTo(txs, A, m) /\ mem.paid[m] \in Nat
    BY CreditsAre, Locally DEF CreditedIn
<1>6. CASE \E t : mem' = OwedBack(mem, t)
  <2>1. mem'.paid = mem.paid /\ A \subseteq B
      BY <1>6 DEF OwedBack
  <2> HIDE DEF A, B
  <2>2. PaidTo(txs, A, m) <= PaidTo(txs, B, m)
      BY <1>1, <1>3, <2>1, PaidSubset
  <2>3. mem'.paid[m] <= PaidTo(txs, B, m)
      BY <1>4, <1>5, <2>1, <2>2
  <2> QED
      BY <2>3 DEF B
<1>7. CASE mem' = Confirmed(mem, cycle.buried) /\ cycle.buried \subseteq mem.recs
  <2> DEFINE C == cycle.buried
  <2>1. C \subseteq Buried /\ C \in SUBSET (DOMAIN txs)
      BY <1>1, CreditsAre
  <2>2. mem'.paid[m] = mem.paid[m] + PaidTo(txs, C, m) /\ mem'.recs = mem.recs \ C
      BY <1>7, UnitsIsAmount DEF Confirmed
  <2>3. B = A \cup C /\ A \cap C = {}
      BY <1>7, <2>1, <2>2
  <2> HIDE DEF A, B, C
  <2>4. PaidTo(txs, A \cup C, m) = PaidTo(txs, A, m) + PaidTo(txs, C, m)
      BY <1>1, <1>3, <2>1, <2>3, PaidUnion
  <2>5. PaidTo(txs, C, m) \in Nat
      BY <1>1, <2>1, PaidNat
  <2>6. mem'.paid[m] <= PaidTo(txs, B, m)
      BY <1>4, <1>5, <2>2, <2>3, <2>4, <2>5
  <2> QED
      BY <2>6 DEF B
<1> QED
    BY <1>6, <1>7

\* A new signature is in no block.
LEMMA CreditsRecord ==
    ASSUME Types, Credits, NEW w \in Miner, Record(w)
    PROVE  /\ CreditedIn(mem, txs, Buried)' /\ CreditedIn(disk, txs, Buried)'
           /\ Buried' = Buried
<1> DEFINE n == Len(txs) + 1
           e == [to |-> w, units |-> cycle.plan[w]]
<1>1. /\ n \notin Ids /\ Ids' = Ids \cup {n} /\ txs' = Append(txs, e) /\ e \in Tx
      /\ (\A t \in Ids : net'[t] = net[t]) /\ net'[n].block = "no"
      /\ mem'.recs = mem.recs \cup {n} /\ mem'.paid = mem.paid /\ disk' = disk
  <2>1. e \in Tx
      BY Locally DEF Tx
  <2>2. net'[n] = [node |-> "none", peers |-> FALSE, block |-> "no"]
      BY RecordSteps
  <2>3. /\ n \notin Ids /\ Ids' = Ids \cup {n} /\ txs' = Append(txs, e)
        /\ \A t \in Ids : net'[t] = net[t]
      BY RecordSteps
  <2>4. mem'.recs = mem.recs \cup {n} /\ mem'.paid = mem.paid /\ disk' = disk
      BY RecordSteps
  <2> QED
      BY <2>1, <2>2, <2>3, <2>4
<1> HIDE DEF n, e
<1>2. Buried' = Buried /\ Buried \in SUBSET (DOMAIN txs) /\ txs \in Seq(Tx) /\ n \notin Buried
    BY <1>1 DEF Buried, Types, Ids
<1>3. ASSUME NEW led \in {mem, disk}, NEW m \in Miner
      PROVE  led.paid[m] <= PaidTo(txs', Buried \ led.recs, m)
  <2> DEFINE A == Buried \ led.recs
  <2>1. A \in SUBSET (DOMAIN txs)
      BY <1>2
  <2>2. led.paid[m] <= PaidTo(txs, A, m)
      BY CreditsAre DEF CreditedIn
  <2> HIDE DEF A
  <2>3. PaidTo(txs', A, m) = PaidTo(txs, A, m)
      BY <1>1, <1>2, <2>1, PaidAppend
  <2> QED
      BY <2>2, <2>3 DEF A
<1>4. Buried \ mem'.recs = Buried \ mem.recs
    BY <1>1, <1>2
<1> QED
    BY <1>1, <1>2, <1>3, <1>4 DEF CreditedIn

LEMMA CreditsStep ==
    ASSUME Types, Credits, [Next]_vars
    PROVE  Credits'
<1> USE Locally
<1>0. Credits' <=> /\ CreditedIn(mem, txs, Buried)' /\ CreditedIn(disk, txs, Buried)'
                   /\ cycle'.buried \subseteq Buried'
                   /\ pc' = "poll" => cycle'.todo \cup cycle'.buried \subseteq mem'.recs
    BY UnitsIsAmount DEF Credits, CreditedIn, Rows, Units, Ids, PaidTo, Amount, UnitsOf
<1>a. /\ cycle.buried \subseteq Buried
      /\ pc = "poll" => cycle.todo \cup cycle.buried \subseteq mem.recs
    BY DEF Credits
<1>1. CASE UNCHANGED vars
  <2>1. Buried' = Buried
      BY <1>1, SameBlocks DEF vars
  <2> QED
      BY <1>0, <1>a, <1>1, <2>1, CreditsKept DEF vars
<1>2. CASE Network
    BY <1>0, <1>a, <1>2, NetworkTypes, NetworkBlocks, CreditsKept
<1>3. CASE \E t \in Ids : Poll(t)
  <2>1. PICK t \in Ids : Poll(t)
      BY <1>3
  <2>2. Buried' = Buried
      BY <2>1, PollSteps, SameBlocks
  <2>3. Query(t) = "buried" => t \in Buried
      BY DEF Query, Buried
  <2>4. /\ cycle'.buried \subseteq Buried
        /\ cycle'.todo \cup cycle'.buried \subseteq mem.recs
      BY <1>a, <2>1, <2>3, PollSteps
  <2> QED
      BY <1>0, <2>1, <2>2, <2>4, PollSteps, CreditsKept
<1>4. CASE MakePlan
  <2>1. cycle'.buried = cycle.buried /\ pc' # "poll"
      BY <1>4 DEF MakePlan
  <2> QED
      BY <1>0, <1>a, <1>4, <2>1, PlanSteps, SameBlocks, CreditsKept
<1>5. CASE \E m \in Miner : Record(m)
    BY <1>0, <1>a, <1>5, RecordSteps, CreditsRecord
<1>6. CASE Resolve
    BY <1>0, <1>a, <1>6, SameBlocks, CreditsLedger DEF Resolve, Chain
<1>7. CASE PostRejected \/ VerifyMissing
    BY <1>0, <1>a, <1>7, SameBlocks, CreditsLedger DEF PostRejected, VerifyMissing, Chain
<1>8. CASE Start
  <2>1. cycle'.buried = {} /\ cycle'.todo = mem.recs
      BY <1>8 DEF Start, Locals
  <2> QED
      BY <1>0, <1>8, <2>1, SameBlocks, CreditsKept DEF Start, Chain
<1>9. CASE FlushResolved \/ CycleEnds \/ Crash
  <2>1. cycle'.buried = {} /\ pc' # "poll"
      BY <1>9 DEF FlushResolved, CycleEnds, Crash, Locals
  <2> QED
      BY <1>0, <1>9, <2>1, SameBlocks, CreditsKept DEF FlushResolved, CycleEnds, Crash, Flushed, Chain
<1>10. CASE FlushRecord
  <2>1. (cycle'.buried = {} \/ cycle' = cycle) /\ pc' # "poll"
      BY <1>10 DEF FlushRecord, Locals
  <2> QED
      BY <1>0, <1>a, <1>10, <2>1, SameBlocks, CreditsKept DEF FlushRecord, RecordFlushed, Chain
<1>11. CASE \E m \in Miner : SignFails(m)
  <2>1. cycle'.buried = cycle.buried /\ pc' # "poll"
      BY <1>11 DEF SignFails
  <2> QED
      BY <1>0, <1>a, <1>11, <2>1, SameBlocks, CreditsKept DEF SignFails, Chain
<1>12. CASE SkipPlan \/ Snapshot
  <2>1. cycle' = cycle /\ (pc' = pc \/ pc' = "idle") /\ (pc = "poll" => mem' = mem)
      BY <1>12 DEF SkipPlan, Snapshot
  <2> QED
      BY <1>0, <1>a, <1>12, <2>1, SameBlocks, CreditsKept DEF SkipPlan, Snapshot, Chain
<1>13. CASE PostAccepted \/ PostUnresolved
  <2>1. cycle'.buried = cycle.buried /\ pc' # "poll"
      BY <1>13 DEF PostAccepted, PostUnresolved
  <2>2. cycle.cur \in Ids
      BY <1>13 DEF PostAccepted, PostUnresolved, Types
  <2>3. Buried' = Buried
      BY <1>13, <2>2, SameBlocks DEF PostAccepted, PostUnresolved
  <2> QED
      BY <1>0, <1>a, <1>13, <2>1, <2>3, CreditsKept DEF PostAccepted, PostUnresolved, Unresolved
<1>14. CASE VerifyKept \/ FlushVerdict
  <2>1. cycle'.buried = cycle.buried /\ pc' # "poll"
      BY <1>14 DEF VerifyKept, FlushVerdict
  <2> QED
      BY <1>0, <1>a, <1>14, <2>1, SameBlocks, CreditsKept DEF VerifyKept, FlushVerdict, Flushed, Chain
<1> QED
    BY <1>1, <1>2, <1>3, <1>4, <1>5, <1>6, <1>7, <1>8, <1>9, <1>10, <1>11, <1>12,
       <1>13, <1>14 DEF Next, Settle, Poll

LEMMA InitCredits == Init => Credits
<1> SUFFICES ASSUME Init PROVE Credits
    OBVIOUS
<1>1. Types
    BY InitTypes
<1>2. \A A \in SUBSET Ids : \A m : Rows(A, m) \in Nat
    BY <1>1, UnitsIsAmount, PaidNat DEF Types, Ids
<1>3. \A led \in {mem, disk} : \A m \in Miner : led.paid[m] = 0
    BY DEF Init, Zero
<1>4. \A led \in {mem, disk} : Buried \ led.recs \in SUBSET Ids
    BY DEF Buried
<1>5. cycle.buried = {} /\ pc = "idle"
    BY DEF Init, Locals
<1> QED
    BY <1>2, <1>3, <1>4, <1>5 DEF Credits

\* Miners are told they were paid only what is buried, and never twice, whatever
\* fails or crashes (PaidLedger::credit): the invariant that makes it so is that
\* what is still in flight has not been credited.
THEOREM CreditIsBuried == Spec => []PaidIsBuried
<1>1. Init => Credits
    BY InitCredits
<1>2. Types /\ Credits /\ [Next]_vars => Credits'
    BY CreditsStep
<1>3. Spec => []Credits
    BY <1>1, <1>2, TypesAlways, PTL DEF Spec
<1>4. ASSUME Types, Credits PROVE PaidIsBuried
  <2> SUFFICES ASSUME NEW m \in Miner PROVE mem.paid[m] <= Rows(Buried, m)
      BY DEF PaidIsBuried, Buried
  <2> DEFINE A == Buried \ mem.recs
             B == Buried
  <2>1. txs \in Seq(Tx) /\ A \in SUBSET (DOMAIN txs) /\ B \in SUBSET (DOMAIN txs) /\ A \subseteq B
      BY <1>4 DEF Types, Buried, Ids
  <2>2. mem.paid[m] <= PaidTo(txs, A, m) /\ mem.paid[m] \in Nat
      BY <1>4, CreditsAre, Locally DEF CreditedIn
  <2> HIDE DEF A, B
  <2>3. PaidTo(txs, A, m) <= PaidTo(txs, B, m)
      BY <2>1, PaidSubset
  <2>4. PaidTo(txs, A, m) \in Nat /\ PaidTo(txs, B, m) \in Nat
      BY <2>1, PaidNat
  <2>5. mem.paid[m] <= PaidTo(txs, B, m)
      BY <2>2, <2>3, <2>4
  <2> QED
      BY <2>5, UnitsIsAmount DEF B
<1> QED
    BY <1>3, <1>4, TypesAlways, PTL
-----------------------------------------------------------------------------
(* No claim is dropped.                                                    *)

LEMMA ClaimNat ==
    ASSUME Types, NEW m \in Miner, NEW led \in {mem, disk}
    PROVE  /\ ClaimOf(led, txs, m) \in Nat
           /\ led.paid[m] \in Nat /\ PaidTo(txs, led.recs, m) \in Nat /\ led.owed[m] \in Nat
<1>1. txs \in Seq(Tx) /\ led.recs \in SUBSET (DOMAIN txs)
    BY DEF Types, Ledgers, Ids
<1>2. PaidTo(txs, led.recs, m) \in Nat
    BY <1>1, PaidNat
<1> QED
    BY <1>2, Locally DEF ClaimOf

\* Crediting what is in flight, or owing it back, moves it within the claim.
LEMMA ClaimConfirmed ==
    ASSUME Types, NEW ids \in SUBSET mem.recs, NEW m \in Miner
    PROVE  ClaimOf(Confirmed(mem, ids), txs, m) = ClaimOf(mem, txs, m)
<1> DEFINE R == mem.recs \ ids
<1>1. /\ txs \in Seq(Tx) /\ R \in SUBSET (DOMAIN txs) /\ ids \in SUBSET (DOMAIN txs)
      /\ R \cap ids = {} /\ mem.recs = R \cup ids
    BY DEF Types, Ledgers, Ids
<1>2. /\ Confirmed(mem, ids).recs = R /\ Confirmed(mem, ids).owed = mem.owed
      /\ Confirmed(mem, ids).paid[m] = mem.paid[m] + PaidTo(txs, ids, m)
    BY UnitsIsAmount DEF Confirmed
<1> HIDE DEF R
<1>3. PaidTo(txs, R \cup ids, m) = PaidTo(txs, R, m) + PaidTo(txs, ids, m)
    BY <1>1, PaidUnion
<1>4. PaidTo(txs, R, m) \in Nat /\ PaidTo(txs, ids, m) \in Nat
    BY <1>1, PaidNat
<1>5. mem.paid[m] \in Nat /\ mem.owed[m] \in Nat
    BY Locally
<1> QED
    BY <1>1, <1>2, <1>3, <1>4, <1>5 DEF ClaimOf

LEMMA ClaimOwedBack ==
    ASSUME Types, NEW t \in mem.recs, NEW m \in Miner
    PROVE  ClaimOf(OwedBack(mem, t), txs, m) = ClaimOf(mem, txs, m)
<1> DEFINE R == mem.recs \ {t}
<1>1. /\ txs \in Seq(Tx) /\ R \in SUBSET (DOMAIN txs) /\ {t} \in SUBSET (DOMAIN txs)
      /\ R \cap {t} = {} /\ mem.recs = R \cup {t} /\ t \in DOMAIN txs
    BY DEF Types, Ledgers, Ids
<1>2. txs[t] \in Tx
    BY <1>1, IdsAre DEF Ids
<1>3. /\ OwedBack(mem, t).recs = R /\ OwedBack(mem, t).paid = mem.paid
      /\ OwedBack(mem, t).owed[m] = IF txs[t].to = m THEN mem.owed[m] + txs[t].units ELSE mem.owed[m]
    BY <1>2, Locally DEF OwedBack, Tx
<1> HIDE DEF R
<1>4. PaidTo(txs, R \cup {t}, m) = PaidTo(txs, R, m) + PaidTo(txs, {t}, m)
    BY <1>1, PaidUnion
<1>5. PaidTo(txs, {t}, m) = IF txs[t].to = m THEN txs[t].units ELSE 0
    BY <1>1, PaidOne
<1>6. PaidTo(txs, R, m) \in Nat /\ txs[t].units \in Nat
    BY <1>1, <1>2, PaidNat DEF Tx
<1>7. mem.paid[m] \in Nat /\ mem.owed[m] \in Nat
    BY Locally
<1>8. ClaimOf(mem, txs, m) = mem.paid[m] + (PaidTo(txs, R, m) + PaidTo(txs, {t}, m)) + mem.owed[m]
    BY <1>1, <1>4 DEF ClaimOf
<1>9. ClaimOf(OwedBack(mem, t), txs, m) =
          mem.paid[m] + PaidTo(txs, R, m) + OwedBack(mem, t).owed[m]
    BY <1>3 DEF ClaimOf
<1> QED
    BY <1>3, <1>5, <1>6, <1>7, <1>8, <1>9

\* A signature takes no more off the debt than it puts in flight.
LEMMA ClaimRecord ==
    ASSUME Types, NEW w \in Miner, Record(w), NEW m \in Miner
    PROVE  ClaimOf(mem', txs', m) >= ClaimOf(mem, txs, m)
<1> DEFINE n == Len(txs) + 1
           u == cycle.plan[w]
           e == [to |-> w, units |-> u]
           R == mem.recs
<1>1. /\ u \in Nat /\ n \notin Ids /\ Ids' = Ids \cup {n} /\ txs' = Append(txs, e) /\ Types'
    BY RecordSteps
<1>2. txs'[n] = e
    BY RecordSteps
<1>3. mem'.recs = R \cup {n} /\ mem'.paid = mem.paid /\ mem'.owed = Deduct(mem.owed, w, u)
    BY RecordSteps
<1>4. e \in Tx /\ e.to = w /\ e.units = u
    BY <1>1 DEF Tx
<1> HIDE DEF n, u, e
<1>5. /\ txs \in Seq(Tx) /\ txs' \in Seq(Tx) /\ R \in SUBSET (DOMAIN txs)
      /\ R \in SUBSET (DOMAIN txs') /\ n \in DOMAIN txs' /\ {n} \in SUBSET (DOMAIN txs') /\ R \cap {n} = {}
  <2>1. txs \in Seq(Tx) /\ R \in SUBSET Ids
      BY DEF Types, Ledgers
  <2>2. txs' \in Seq(Tx)
      BY <1>1 DEF Types
  <2>3. DOMAIN txs = Ids /\ DOMAIN txs' = Ids'
      BY DEF Ids
  <2> HIDE DEF R
  <2> QED
      BY <1>1, <2>1, <2>2, <2>3
<1> HIDE DEF R
<1>6. PaidTo(txs', R, m) = PaidTo(txs, R, m)
    BY <1>1, <1>4, <1>5, PaidAppend
<1>7. PaidTo(txs', R \cup {n}, m) = PaidTo(txs', R, m) + PaidTo(txs', {n}, m)
    BY <1>5, PaidUnion
<1>8. PaidTo(txs', {n}, m) = IF w = m THEN u ELSE 0
    BY <1>2, <1>4, <1>5, PaidOne
<1>9. PaidTo(txs, R, m) \in Nat /\ mem.paid[m] \in Nat /\ mem.owed[m] \in Nat
    BY <1>5, PaidNat, Locally
<1>10. mem'.owed[m] = IF w # m THEN mem.owed[m] ELSE IF mem.owed[m] <= u THEN 0 ELSE mem.owed[m] - u
    BY <1>3, Locally DEF Deduct
<1>11. /\ ClaimOf(mem', txs', m) = mem.paid[m] + (PaidTo(txs, R, m) + PaidTo(txs', {n}, m)) + mem'.owed[m]
       /\ ClaimOf(mem, txs, m) = mem.paid[m] + PaidTo(txs, R, m) + mem.owed[m]
    BY <1>3, <1>6, <1>7 DEF ClaimOf, R
<1> QED
    BY <1>1, <1>8, <1>9, <1>10, <1>11, SMTT(30)

LEMMA SyncedStep ==
    ASSUME ~DiskFails, Types, Credits, Synced, [Next]_vars
    PROVE  Synced'
<1> USE Locally
<1>s. /\ pc \notin {"resolved", "record", "owe"} => disk = mem
      /\ pc \in {"resolved", "owe"} => \A m \in Miner : ClaimOf(disk, txs, m) >= ClaimOf(mem, txs, m)
      /\ pc \in {"record", "post", "verify"} => cycle.cur \in mem.recs
      /\ pc = "poll" => cycle.buried \subseteq mem.recs
    BY DEF Synced, Credits
<1>n. \A m \in Miner : ClaimOf(mem, txs, m) \in Nat
    BY ClaimNat
<1>1. CASE UNCHANGED vars
    BY <1>s, <1>1 DEF vars, Synced
<1>2. CASE Network
    BY <1>s, <1>2, NetworkTypes DEF Synced
<1>3. CASE \E t \in Ids : Poll(t)
    BY <1>s, <1>3, PollSteps DEF Synced
<1>4. CASE MakePlan
    BY <1>s, <1>4, PlanSteps DEF Synced
<1>5. CASE \E m \in Miner : Record(m)
  <2>1. pc' = "record" /\ cycle'.cur \in mem'.recs
      BY <1>5, RecordSteps
  <2> QED
      BY <2>1 DEF Synced
<1>6. CASE Resolve
  <2>1. /\ pc' = "resolved" /\ disk' = mem /\ txs' = txs
        /\ mem' = Confirmed(mem, cycle.buried) /\ cycle.buried \subseteq mem.recs
      BY <1>s, <1>6 DEF Resolve, Chain
  <2>2. \A m \in Miner : ClaimOf(disk', txs', m) >= ClaimOf(mem', txs', m)
      BY <1>n, <2>1, ClaimConfirmed
  <2> QED
      BY <2>1, <2>2 DEF Synced
<1>7. CASE PostRejected \/ VerifyMissing
  <2>1. /\ pc' = "owe" /\ disk' = mem /\ txs' = txs
        /\ mem' = OwedBack(mem, cycle.cur) /\ cycle.cur \in mem.recs
      BY <1>s, <1>7 DEF PostRejected, VerifyMissing, Chain
  <2>2. \A m \in Miner : ClaimOf(disk', txs', m) >= ClaimOf(mem', txs', m)
      BY <1>n, <2>1, ClaimOwedBack
  <2> QED
      BY <2>1, <2>2 DEF Synced
<1>8. CASE Start \/ SkipPlan \/ CycleEnds \/ VerifyKept \/ PostUnresolved \/ PostAccepted
    BY <1>s, <1>8 DEF Synced, Start, SkipPlan, CycleEnds, VerifyKept, PostUnresolved,
                      PostAccepted, Unresolved, Chain
<1>9. CASE FlushResolved \/ FlushRecord \/ FlushVerdict \/ Crash
    BY <1>s, <1>9 DEF Synced, FlushResolved, FlushRecord, FlushVerdict, Crash, Flushed,
                      RecordFlushed, Chain
<1>10. CASE \E m \in Miner : SignFails(m)
    BY <1>s, <1>10 DEF Synced, SignFails, Chain
<1>11. CASE Snapshot
  <2>1. disk' = mem /\ mem' = mem /\ txs' = txs /\ pc' = pc /\ cycle' = cycle
      BY <1>11 DEF Snapshot, Chain
  <2> QED
      BY <1>s, <1>n, <2>1 DEF Synced
<1> QED
    BY <1>1, <1>2, <1>3, <1>4, <1>5, <1>6, <1>7, <1>8, <1>9, <1>10, <1>11
       DEF Next, Settle, Poll

LEMMA ClaimsStep ==
    ASSUME ~DiskFails, Types, Credits, Synced, [Next]_vars, NEW m \in Miner
    PROVE  Claim(m)' >= Claim(m) \/ (pc = "record" /\ pc' = "idle")
<1> USE Locally
<1>s. /\ pc \notin {"resolved", "record", "owe"} => disk = mem
      /\ pc \in {"resolved", "owe"} => ClaimOf(disk, txs, m) >= ClaimOf(mem, txs, m)
      /\ pc \in {"record", "post", "verify"} => cycle.cur \in mem.recs
      /\ pc = "poll" => cycle.buried \subseteq mem.recs
    BY DEF Synced, Credits
<1>n. ClaimOf(mem, txs, m) \in Nat
    BY ClaimNat
<1>c. Claim(m) = ClaimOf(mem, txs, m) /\ Claim(m)' = ClaimOf(mem', txs', m)
    BY UnitsIsAmount DEF Claim, ClaimOf, Rows, Units, Ids, PaidTo, Amount, UnitsOf
<1>1. CASE UNCHANGED <<txs, mem>>
    BY <1>n, <1>c, <1>1
<1>2. CASE Resolve
    BY <1>s, <1>n, <1>c, <1>2, ClaimConfirmed DEF Resolve, Chain
<1>3. CASE PostRejected \/ VerifyMissing
    BY <1>s, <1>n, <1>c, <1>3, ClaimOwedBack DEF PostRejected, VerifyMissing, Chain
<1>4. CASE \E w \in Miner : Record(w)
    BY <1>c, <1>4, ClaimRecord
<1>5. CASE Crash
  <2>1. mem' = disk /\ txs' = txs /\ pc' = "idle"
      BY <1>5 DEF Crash, Chain
  <2> QED
      BY <1>s, <1>n, <1>c, <2>1
<1>6. CASE Network
    BY <1>1, <1>6, NetworkTypes
<1>7. CASE \E t \in Ids : Poll(t)
    BY <1>1, <1>7, PollSteps
<1>8. CASE Start \/ SkipPlan \/ CycleEnds \/ VerifyKept \/ PostUnresolved \/ PostAccepted
    BY <1>1, <1>8 DEF Start, SkipPlan, CycleEnds, VerifyKept, PostUnresolved,
                      PostAccepted, Unresolved, Chain
<1>9. CASE FlushResolved \/ FlushRecord \/ FlushVerdict \/ Snapshot \/ MakePlan
    BY <1>1, <1>9 DEF FlushResolved, FlushRecord, FlushVerdict, Snapshot, MakePlan, Chain
<1>10. CASE \E w \in Miner : SignFails(w)
    BY <1>1, <1>10 DEF SignFails, Chain
<1>11. CASE UNCHANGED vars
    BY <1>1, <1>11 DEF vars
<1> QED
    BY <1>2, <1>3, <1>4, <1>5, <1>6, <1>7, <1>8, <1>9, <1>10, <1>11 DEF Next, Settle, Poll

LEMMA SyncedAlways == ASSUME ~DiskFails PROVE Spec => [](Types /\ Credits /\ Synced)
<1>1. Init => Types /\ Credits /\ Synced
    BY InitTypes, InitCredits DEF Init, Synced
<1>2. Types /\ Credits /\ Synced /\ [Next]_vars => (Types /\ Credits /\ Synced)'
    BY TypesStep, CreditsStep, SyncedStep
<1> QED
    BY <1>1, <1>2, PTL DEF Spec

\* A unit once acknowledged, as paid, in flight or owed, is never dropped while
\* the disk takes what is written to it, by any step or crash, except a record
\* that a crash kept from being written and so from being posted (owe_rows,
\* deduct_owed, confirm_payout).
THEOREM ClaimsAreKept == ASSUME ~DiskFails PROVE Spec => ClaimsKept
<1>1. Types /\ Credits /\ Synced /\ [Next]_vars =>
          [\A m \in Miner : Claim(m)' >= Claim(m) \/ (pc = "record" /\ pc' = "idle")]_vars
    BY ClaimsStep
<1> QED
    BY <1>1, SyncedAlways, PTL DEF Spec, ClaimsKept
-----------------------------------------------------------------------------
(* The wallet covers what is in flight.                                    *)

\* What the network does to one transaction.
NetStep(n, o) ==
    /\ Risky(n) => Risky(o)
    /\ n = o \/ Risky(o) \/ (o.block = "buried" /\ n.block = "buried")

LEMMA NetworkNet ==
    ASSUME Types, Network, NEW u \in Ids
    PROVE  NetStep(net'[u], net[u])
<1>0. net \in [Ids -> NetState] /\ net[u] \in NetState
    BY IdsAre
<1>1. CASE Income
    BY <1>1 DEF Income, NetStep
<1>2. CASE NodeRestart
    BY <1>0, <1>2 DEF NodeRestart, NetState, NetStep, Risky
<1>3. ASSUME NEW t \in Ids, NodeInsert(t) PROVE NetStep(net'[u], net[u])
    BY <1>0, <1>3 DEF NodeInsert, NetState, NetStep, Risky
<1>4. ASSUME NEW t \in Ids, NodeDrop(t) PROVE NetStep(net'[u], net[u])
    BY <1>0, <1>4 DEF NodeDrop, NetState, NetStep, Risky
<1>5. ASSUME NEW t \in Ids, PeersForget(t) PROVE NetStep(net'[u], net[u])
    BY <1>0, <1>5 DEF PeersForget, NetState, NetStep, Risky
<1>6. ASSUME NEW t \in Ids, Mine(t) PROVE NetStep(net'[u], net[u])
    BY <1>0, <1>6 DEF Mine, NetState, NetStep, Risky
<1>7. ASSUME NEW t \in Ids, Reorg(t) PROVE NetStep(net'[u], net[u])
    BY <1>0, <1>7 DEF Reorg, NetState, NetStep, Risky
<1>8. ASSUME NEW t \in Ids, Bury(t) PROVE NetStep(net'[u], net[u])
    BY <1>0, <1>8 DEF Bury, NetState, NetStep, Risky
<1> QED
    BY <1>1, <1>2, <1>3, <1>4, <1>5, <1>6, <1>7, <1>8 DEF Network

LEMMA RecordedStep ==
    ASSUME ~DiskFails, Types, Types', Credits, Synced, Recorded, [Next]_vars
    PROVE  Recorded'
<1> USE Locally
<1>s. /\ pc \notin {"resolved", "record", "owe"} => disk = mem
      /\ pc \in {"record", "post", "verify"} => cycle.cur \in mem.recs
      /\ pc = "poll" => cycle.todo \cup cycle.buried \subseteq mem.recs
      /\ cycle.buried \subseteq Buried
    BY DEF Synced, Credits
<1>r. /\ \A t \in Ids : Risky(net[t]) => t \in (mem.recs \cap disk.recs) \cup written
      /\ written \subseteq Ids /\ written \cap mem.recs = {}
      /\ pc \in {"record", "post"} =>
           net[cycle.cur] = [node |-> "none", peers |-> FALSE, block |-> "no"]
    BY DEF Recorded
<1>i. net \in [Ids -> NetState] /\ (txs' = txs => Ids' = Ids)
    BY IdsAre DEF Ids
<1>1. CASE UNCHANGED vars
    BY <1>r, <1>i, <1>1 DEF vars, Recorded
<1>2. CASE Network
  <2>1. UNCHANGED <<txs, mem, disk, pc, cycle, written>>
      BY <1>2, NetworkTypes
  <2>2. \A t \in Ids : Risky(net'[t]) => t \in (mem.recs \cap disk.recs) \cup written
      BY <1>r, <1>2, NetworkNet DEF NetStep
  <2>3. pc \in {"record", "post"} => net'[cycle.cur] = net[cycle.cur]
    <3>1. ASSUME pc \in {"record", "post"} PROVE net'[cycle.cur] = net[cycle.cur]
      <4>1. cycle.cur \in Ids
          BY <3>1 DEF Types
      <4>2. ~Risky(net[cycle.cur]) /\ net[cycle.cur].block # "buried"
          BY <1>r, <3>1 DEF Risky
      <4> QED
          BY <1>2, <4>1, <4>2, NetworkNet DEF NetStep
    <3> QED
        BY <3>1
  <2> QED
      BY <1>r, <1>i, <2>1, <2>2, <2>3 DEF Recorded
<1>3. ASSUME NEW c \in Ids, c \in mem.recs, disk = mem, UNCHANGED <<txs, mem, disk, written>>,
             \/ net' = net
             \/ net' = [net EXCEPT ![c].node = "queued"]
             \/ net' = [net EXCEPT ![c].node = "held", ![c].peers = TRUE],
             pc' \notin {"record", "post"}
      PROVE  Recorded'
  <2>1. \A t \in Ids : t # c => net'[t] = net[t]
      BY <1>i, <1>3
  <2> QED
      BY <1>r, <1>i, <1>3, <2>1 DEF Recorded
<1>4. CASE \E t \in Ids : Poll(t)
  <2>1. PICK t \in Ids : Poll(t)
      BY <1>4
  <2>2. /\ t \in mem.recs /\ disk = mem /\ UNCHANGED <<txs, mem, disk, written>> /\ pc' \notin {"record", "post"}
        /\ net' = net \/ net' = [net EXCEPT ![t].node = "queued"]
      BY <1>s, <2>1, PollSteps
  <2> QED
      BY <1>3, <2>2
<1>5. CASE PostAccepted \/ PostUnresolved
  <2>1. /\ cycle.cur \in mem.recs /\ cycle.cur \in Ids /\ disk = mem
      BY <1>s, <1>5 DEF PostAccepted, PostUnresolved
  <2>2. /\ UNCHANGED <<txs, mem, disk, written>> /\ pc' \notin {"record", "post"}
        /\ \/ net' = net
           \/ net' = [net EXCEPT ![cycle.cur].node = "queued"]
           \/ net' = [net EXCEPT ![cycle.cur].node = "held", ![cycle.cur].peers = TRUE]
      BY <1>5 DEF PostAccepted, PostUnresolved, Unresolved
  <2> QED
      BY <1>3, <2>1, <2>2
<1>6. CASE \E m \in Miner : Record(m)
  <2>1. PICK m \in Miner : Record(m)
      BY <1>6
  <2> DEFINE n == Len(txs) + 1
  <2>2. net'[n] = [node |-> "none", peers |-> FALSE, block |-> "no"] /\ cycle'.cur = n
      BY <2>1, RecordSteps
  <2>3. Ids' = Ids \cup {n} /\ \A t \in Ids : net'[t] = net[t]
      BY <2>1, RecordSteps
  <2>4. mem'.recs = mem.recs \cup {n} /\ disk' = disk /\ written' = written /\ n \notin Ids
      BY <2>1, RecordSteps
  <2> HIDE DEF n
  <2>5. ~Risky(net'[n])
      BY <2>2 DEF Risky
  <2> QED
      BY <1>r, <2>2, <2>3, <2>4, <2>5 DEF Recorded
<1>7. CASE Resolve
  <2>1. \A t \in cycle.buried : ~Risky(net[t])
      BY <1>s DEF Buried, Risky
  <2>2. mem'.recs = mem.recs \ cycle.buried /\ disk' = disk /\ net' = net /\ txs' = txs /\ pc' = "resolved"
        /\ written' = written
      BY <1>7 DEF Resolve, Confirmed, Chain
  <2> QED
      BY <1>r, <1>i, <2>1, <2>2 DEF Recorded
<1>8. CASE PostRejected
  <2>1. ~Risky(net[cycle.cur])
      BY <1>r, <1>8 DEF PostRejected, Risky
  <2>2. /\ mem'.recs = mem.recs \ {cycle.cur} /\ disk' = disk /\ net' = net /\ txs' = txs
        /\ pc' = "owe" /\ written' = written
      BY <1>8 DEF PostRejected, OwedBack, Chain
  <2> QED
      BY <1>r, <1>i, <2>1, <2>2 DEF Recorded
<1>13. CASE VerifyMissing
  <2>1. /\ mem'.recs = mem.recs \ {cycle.cur} /\ disk' = disk /\ net' = net /\ txs' = txs
        /\ pc' = "owe" /\ written' = written \cup {cycle.cur} /\ cycle.cur \in Ids
      BY <1>13 DEF VerifyMissing, OwedBack, Chain, Types
  <2> QED
      BY <1>r, <1>i, <2>1 DEF Recorded
<1>14. CASE Crash
  <2>1. /\ mem' = disk /\ disk' = disk /\ net' = net /\ txs' = txs
        /\ pc' = "idle" /\ written' = written \ disk.recs
      BY <1>14 DEF Crash, Chain
  <2> QED
      BY <1>r, <1>i, <2>1 DEF Recorded
<1>9. ASSUME UNCHANGED <<txs, net, mem, written>>, disk' \in {mem, disk},
             pc' \in {"record", "post"} => pc \in {"record", "post"} /\ cycle' = cycle
      PROVE  Recorded'
    BY <1>r, <1>i, <1>9 DEF Recorded
<1>10. CASE Start \/ SkipPlan \/ CycleEnds \/ VerifyKept \/ MakePlan
    BY <1>9, <1>10 DEF Start, SkipPlan, CycleEnds, VerifyKept, MakePlan, Chain
<1>11. CASE FlushResolved \/ FlushRecord \/ FlushVerdict \/ Snapshot
    BY <1>9, <1>11 DEF FlushResolved, FlushRecord, FlushVerdict, Snapshot, Flushed,
                       RecordFlushed, Chain
<1>12. CASE \E m \in Miner : SignFails(m)
    BY <1>9, <1>12 DEF SignFails, Chain
<1> QED
    BY <1>1, <1>2, <1>4, <1>5, <1>6, <1>7, <1>8, <1>10, <1>11, <1>12, <1>13, <1>14
       DEF Next, Settle, Poll

LEMMA PolledStep ==
    ASSUME ~DiskFails, Types, Synced, Polled, [Next]_vars
    PROVE  Polled'
<1> USE Locally
<1>s. pc \notin {"resolved", "record", "owe"} => disk = mem
    BY DEF Synced
<1>p. /\ pc = "poll" => cycle.todo \cup cycle.still \cup cycle.buried = mem.recs
      /\ pc = "resolved" => mem.recs \subseteq cycle.still
      /\ pc = "plan" => mem.recs = {}
      /\ pc \in {"idle", "poll", "resolved", "plan"} => cycle.plan = Zero
    BY DEF Polled
<1>1. CASE UNCHANGED <<mem, pc, cycle>>
    BY <1>p, <1>1 DEF Polled
<1>2. CASE Start
  <2>1. /\ cycle'.todo = mem.recs /\ cycle'.still = {} /\ cycle'.buried = {} /\ cycle'.plan = Zero
        /\ mem' = mem /\ pc' = IF mem.recs = {} THEN "plan" ELSE "poll"
      BY <1>2 DEF Start, Locals
  <2> QED
      BY <2>1 DEF Polled
<1>3. CASE \E t \in Ids : Poll(t)
  <2>1. PICK t \in Ids : Poll(t)
      BY <1>3
  <2>2. /\ pc = "poll" /\ pc' = "poll" /\ t \in cycle.todo /\ mem' = mem
        /\ cycle'.todo = cycle.todo \ {t} /\ cycle'.plan = cycle.plan
        /\ \/ cycle'.still = cycle.still \cup {t} /\ cycle'.buried = cycle.buried
           \/ cycle'.still = cycle.still /\ cycle'.buried = cycle.buried \cup {t}
      BY <2>1, PollSteps
  <2>3. cycle'.todo \cup cycle'.still \cup cycle'.buried = cycle.todo \cup cycle.still \cup cycle.buried
      BY <2>2
  <2> QED
      BY <1>p, <2>2, <2>3 DEF Polled
<1>4. CASE Resolve
  <2>1. /\ pc = "poll" /\ cycle.todo = {} /\ pc' = "resolved" /\ cycle' = cycle
        /\ mem'.recs = mem.recs \ cycle.buried
      BY <1>4 DEF Resolve, Confirmed
  <2> QED
      BY <1>p, <2>1 DEF Polled
<1>5. CASE FlushResolved
  <2>1. /\ pc = "resolved" /\ mem' = mem /\ pc' = (IF cycle.still = {} THEN "plan" ELSE "idle")
        /\ cycle'.plan = Zero
      BY <1>5 DEF FlushResolved, Locals
  <2> QED
      BY <1>p, <2>1 DEF Polled
<1>6. CASE MakePlan
    BY <1>6, PlanSteps DEF Polled
<1>7. CASE SkipPlan
    BY <1>p, <1>7 DEF SkipPlan, Polled
<1>8. CASE CycleEnds \/ Crash
    BY <1>8 DEF CycleEnds, Crash, Polled, Locals
<1>9. CASE FlushRecord
    BY <1>9 DEF FlushRecord, RecordFlushed, Polled
<1>10. CASE PostAccepted \/ PostRejected \/ PostUnresolved \/ VerifyKept \/ VerifyMissing \/ FlushVerdict
    BY <1>10 DEF PostAccepted, PostRejected, PostUnresolved, VerifyKept, VerifyMissing,
                 FlushVerdict, Polled
<1>11. CASE \E m \in Miner : SignFails(m)
    BY <1>11 DEF SignFails, Polled
<1>12. CASE \E m \in Miner : Record(m)
    BY <1>12 DEF Record, Polled
<1>13. CASE Snapshot
    BY <1>1, <1>13 DEF Snapshot
<1>14. CASE Network
    BY <1>1, <1>14, NetworkTypes
<1>15. CASE UNCHANGED vars
    BY <1>1, <1>15 DEF vars
<1> QED
    BY <1>2, <1>3, <1>4, <1>5, <1>6, <1>7, <1>8, <1>9, <1>10, <1>11, <1>12, <1>13, <1>14, <1>15
       DEF Next, Settle, Poll

LEMMA CoveredIs ==
    /\ Covered <=> Amount(txs, AtStake) + Sum(cycle.plan) <= bal + Amount(txs, Spent)
    /\ Covered' <=> Amount(txs', AtStake') + Sum(cycle'.plan) <= bal' + Amount(txs', Spent')
    BY UnitsIsAmount DEF Covered, Units, Ids, Amount, UnitsOf, Sum

LEMMA StakeFacts ==
    ASSUME Types, Recorded
    PROVE  /\ txs \in Seq(Tx) /\ DOMAIN txs = Ids /\ AtStake \in SUBSET Ids /\ Spent \in SUBSET Ids
           /\ Amount(txs, AtStake) \in Nat /\ Sum(cycle.plan) \in Nat /\ bal \in Nat
           /\ Amount(txs, Spent) \in Nat
<1>1. txs \in Seq(Tx) /\ DOMAIN txs = Ids /\ AtStake \in SUBSET Ids /\ bal \in Nat
    BY Locally DEF Types, Ids, AtStake
<1>2. Spent \in SUBSET Ids
    BY DEF Recorded, Spent
<1> QED
    BY <1>1, <1>2, AmountNat, SumOfPlan, Locally

\* Less at stake and less planned, and no less in the wallet or gone from it.
LEMMA CoveredKept ==
    ASSUME Types, Types', Recorded, Recorded', Covered, txs' = txs, bal' \in Nat, bal <= bal',
           AtStake' \subseteq AtStake, Spent \subseteq Spent',
           Sum(cycle'.plan) <= Sum(cycle.plan)
    PROVE  Covered'
<1>1. /\ Amount(txs, AtStake) \in Nat /\ Sum(cycle.plan) \in Nat /\ bal \in Nat
      /\ AtStake \in SUBSET (DOMAIN txs) /\ txs \in Seq(Tx) /\ DOMAIN txs = Ids
      /\ Amount(txs, Spent) \in Nat
    BY StakeFacts
<1>2. cycle'.plan \in [Miner -> Nat]
    BY DEF Types, LocalsType
<1>3. Sum(cycle'.plan) \in Nat
    BY <1>2, SumOfPlan
<1>4. AtStake' \in SUBSET (DOMAIN txs)
    BY <1>1
<1>5. Spent' \in SUBSET (DOMAIN txs)
  <2>1. Spent' \subseteq Ids' /\ Ids' = Ids
      BY DEF Recorded, Spent, Ids
  <2> QED
      BY <1>1, <2>1
<1>6. Amount(txs, AtStake') <= Amount(txs, AtStake) /\ Amount(txs, AtStake') \in Nat
    BY <1>1, <1>4, AmountSubset, AmountNat
<1>7. Amount(txs, Spent) <= Amount(txs, Spent') /\ Amount(txs, Spent') \in Nat
    BY <1>1, <1>5, AmountSubset, AmountNat
<1>8. Amount(txs, AtStake) + Sum(cycle.plan) <= bal + Amount(txs, Spent)
    BY CoveredIs
<1>9. Amount(txs', AtStake') + Sum(cycle'.plan) <= bal' + Amount(txs', Spent')
    BY <1>1, <1>3, <1>6, <1>7, <1>8
<1> QED
    BY <1>9, CoveredIs

\* A block that spends takes from both sides, one that is replaced gives back;
\* when the payout was written off, the balance and what is gone exchange it.
LEMMA CoveredNetwork ==
    ASSUME Types, Types', Recorded, Recorded', Covered, Network
    PROVE  Covered'
<1>0. /\ UNCHANGED <<txs, mem, disk, pc, cycle, written>> /\ Ids' = Ids /\ net \in [Ids -> NetState]
      /\ mem.recs \in SUBSET Ids /\ disk.recs \in SUBSET Ids
    BY NetworkTypes, IdsAre, Locally DEF Ids
<1>1. /\ Amount(txs, AtStake) \in Nat /\ Sum(cycle.plan) \in Nat /\ bal \in Nat /\ bal' \in Nat
      /\ AtStake \in SUBSET (DOMAIN txs) /\ txs \in Seq(Tx) /\ DOMAIN txs = Ids
      /\ Spent \in SUBSET (DOMAIN txs) /\ Amount(txs, Spent) \in Nat
    BY StakeFacts DEF Types
<1>2. Amount(txs, AtStake) + Sum(cycle.plan) <= bal + Amount(txs, Spent)
    BY CoveredIs
<1>d. written \cap mem.recs = {} /\ written \subseteq Ids
    BY DEF Recorded
<1>3. ASSUME bal <= bal', \A t \in Ids : net'[t].block = net[t].block \/ net'[t].block # "no"
      PROVE  Covered'
  <2>1. AtStake' \subseteq AtStake /\ Spent \subseteq Spent'
      BY <1>0, <1>3, <1>d DEF AtStake, Spent
  <2>2. Sum(cycle'.plan) <= Sum(cycle.plan)
      BY <1>0, <1>1
  <2> QED
      BY <1>0, <1>1, <1>3, <2>1, <2>2, CoveredKept
<1>4. CASE Income
    BY <1>1, <1>3, <1>4 DEF Income
<1>5. CASE NodeRestart
    BY <1>0, <1>1, <1>3, <1>5 DEF NodeRestart, NetState
<1>6. ASSUME NEW t \in Ids, NodeInsert(t) PROVE Covered'
    BY <1>0, <1>1, <1>3, <1>6 DEF NodeInsert, NetState
<1>7. ASSUME NEW t \in Ids, NodeDrop(t) PROVE Covered'
    BY <1>0, <1>1, <1>3, <1>7 DEF NodeDrop, NetState
<1>8. ASSUME NEW t \in Ids, PeersForget(t) PROVE Covered'
    BY <1>0, <1>1, <1>3, <1>8 DEF PeersForget, NetState
<1>9. ASSUME NEW t \in Ids, Bury(t) PROVE Covered'
    BY <1>0, <1>1, <1>3, <1>9 DEF Bury, NetState
<1>10. ASSUME NEW t \in Ids, Mine(t) PROVE Covered'
  <2> DEFINE A == AtStake \ {t}
             S == Spent
             u == txs[t].units
  <2>1. /\ net[t].block = "no" /\ (net[t].node = "held" \/ net[t].peers)
        /\ net' = [net EXCEPT ![t].block = "mined", ![t].node = "none"]
        /\ bal' = bal - u
      BY <1>10 DEF Mine
  <2>2. t \in mem.recs \cup disk.recs \/ t \in written \ disk.recs
      BY <2>1 DEF Recorded, Risky
  <2>3. net'[t].block = "mined" /\ \A x \in Ids : x # t => net'[x] = net[x]
      BY <1>0, <2>1 DEF NetState
  <2>4. A \in SUBSET (DOMAIN txs) /\ t \in DOMAIN txs /\ u \in Nat
      BY <1>1, IdsAre DEF Tx
  <2>5. AtStake' = A /\ t \notin A /\ t \notin S
      BY <1>0, <2>1, <2>3 DEF AtStake, Spent
  <2>6. CASE t \in mem.recs \cup disk.recs
    <3>1. AtStake = A \cup {t} /\ Spent' = S
        BY <1>0, <1>d, <2>1, <2>3, <2>6 DEF AtStake, Spent
    <3> HIDE DEF A, u, S
    <3>2. Amount(txs, A \cup {t}) = u + Amount(txs, A) /\ Amount(txs, A) \in Nat
        BY <1>1, <2>4, <2>5, AmountOne, AmountNat DEF u
    <3>3. Amount(txs, A) + Sum(cycle.plan) <= (bal - u) + Amount(txs, S)
        BY <1>1, <1>2, <2>4, <3>1, <3>2 DEF S
    <3>4. Amount(txs', AtStake') + Sum(cycle'.plan) <= bal' + Amount(txs', Spent')
        BY <1>0, <2>1, <2>5, <3>1, <3>3
    <3> QED
        BY <3>4, CoveredIs
  <2>7. CASE t \notin mem.recs \cup disk.recs
    <3>1. AtStake = A /\ Spent' = S \cup {t}
        BY <1>0, <1>d, <2>1, <2>2, <2>3, <2>7 DEF AtStake, Spent
    <3> HIDE DEF A, u, S
    <3>2. Amount(txs, S \cup {t}) = u + Amount(txs, S)
        BY <1>1, <2>4, <2>5, AmountOne DEF u, S
    <3>3. Amount(txs, A) + Sum(cycle.plan) <= (bal - u) + (u + Amount(txs, S))
        BY <1>1, <1>2, <2>4, <3>1 DEF S
    <3>4. Amount(txs', AtStake') + Sum(cycle'.plan) <= bal' + Amount(txs', Spent')
        BY <1>0, <2>1, <2>5, <3>1, <3>2, <3>3
    <3> QED
        BY <3>4, CoveredIs
  <2> QED
      BY <2>6, <2>7
<1>11. ASSUME NEW t \in Ids, Reorg(t) PROVE Covered'
  <2> DEFINE A == AtStake
             S == Spent \ {t}
             u == txs[t].units
  <2>1. /\ net[t].block = "mined" /\ bal' = bal + u
        /\ net' = [net EXCEPT ![t].block = "no", ![t].peers = TRUE]
      BY <1>11 DEF Reorg
  <2>2. t \in mem.recs \cup disk.recs \/ t \in written \ disk.recs
      BY <2>1 DEF Recorded, Risky
  <2>3. net'[t].block = "no" /\ \A x \in Ids : x # t => net'[x] = net[x]
      BY <1>0, <2>1 DEF NetState
  <2>4. S \in SUBSET (DOMAIN txs) /\ t \in DOMAIN txs /\ u \in Nat
      BY <1>1, IdsAre DEF Tx
  <2>5. Spent' = S /\ t \notin A /\ t \notin S
      BY <1>0, <1>d, <2>1, <2>3 DEF AtStake, Spent
  <2>6. CASE t \in mem.recs \cup disk.recs
    <3>1. AtStake' = A \cup {t} /\ Spent = S
        BY <1>0, <1>d, <2>1, <2>3, <2>6 DEF AtStake, Spent
    <3> HIDE DEF A, u, S
    <3>2. Amount(txs, A \cup {t}) = u + Amount(txs, A)
        BY <1>1, <2>4, <2>5, AmountOne DEF u, A
    <3>3. u + Amount(txs, A) + Sum(cycle.plan) <= bal + u + Amount(txs, S)
        BY <1>1, <1>2, <2>4, <3>1 DEF A
    <3>4. Amount(txs', AtStake') + Sum(cycle'.plan) <= bal' + Amount(txs', Spent')
        BY <1>0, <2>1, <2>5, <3>1, <3>2, <3>3
    <3> QED
        BY <3>4, CoveredIs
  <2>7. CASE t \notin mem.recs \cup disk.recs
    <3>1. AtStake' = A /\ Spent = S \cup {t}
        BY <1>0, <1>d, <2>1, <2>2, <2>3, <2>7 DEF AtStake, Spent
    <3> HIDE DEF A, u, S
    <3>2. Amount(txs, S \cup {t}) = u + Amount(txs, S) /\ Amount(txs, S) \in Nat
        BY <1>1, <2>4, <2>5, AmountOne, AmountNat DEF u
    <3>3. Amount(txs, A) + Sum(cycle.plan) <= (bal + u) + Amount(txs, S)
        BY <1>1, <1>2, <2>4, <3>1, <3>2 DEF A
    <3>4. Amount(txs', AtStake') + Sum(cycle'.plan) <= bal' + Amount(txs', Spent')
        BY <1>0, <2>1, <2>5, <3>1, <3>3
    <3> QED
        BY <3>4, CoveredIs
  <2> QED
      BY <2>6, <2>7
<1> QED
    BY <1>4, <1>5, <1>6, <1>7, <1>8, <1>9, <1>10, <1>11 DEF Network

\* Units move from the plan to the records.
LEMMA CoveredRecord ==
    ASSUME Types, Types', Recorded, Covered, NEW m \in Miner, Record(m)
    PROVE  Covered'
<1> DEFINE n == Len(txs) + 1
           u == cycle.plan[m]
           e == [to |-> m, units |-> u]
           A == AtStake
           S == Spent
<1>1. u \in Nat /\ n \notin Ids /\ Ids' = Ids \cup {n} /\ txs' = Append(txs, e)
    BY RecordSteps
<1>2. txs'[n] = e /\ \A t \in Ids : net'[t] = net[t]
    BY RecordSteps
<1>3. /\ mem'.recs = mem.recs \cup {n} /\ disk' = disk /\ bal' = bal /\ written' = written
      /\ cycle'.plan = [cycle.plan EXCEPT ![m] = 0]
    BY RecordSteps
<1>4. net'[n].block = "no"
  <2>1. net'[n] = [node |-> "none", peers |-> FALSE, block |-> "no"]
      BY RecordSteps
  <2> QED
      BY <2>1
<1>5. e \in Tx /\ e.units = u
    BY <1>1 DEF Tx
<1> HIDE DEF n, u, e
<1>6. AtStake' = A \cup {n} /\ n \notin A /\ Spent' = S
  <2>1. AtStake' = A \cup {n} /\ n \notin A
      BY <1>1, <1>2, <1>3, <1>4, Locally DEF AtStake
  <2>2. Spent' = S
      BY <1>1, <1>2, <1>3 DEF Spent, Recorded
  <2> QED
      BY <2>1, <2>2
<1>7. txs \in Seq(Tx) /\ A \in SUBSET (DOMAIN txs) /\ Amount(txs, A) \in Nat
      /\ Sum(cycle.plan) \in Nat /\ bal \in Nat
      /\ S \in SUBSET (DOMAIN txs) /\ Amount(txs, S) \in Nat
    BY StakeFacts
<1>8. txs' \in Seq(Tx) /\ DOMAIN txs' = Ids' /\ DOMAIN txs = Ids
    BY DEF Types, Ids
<1> HIDE DEF A, S
<1>9. A \in SUBSET (DOMAIN txs') /\ n \in DOMAIN txs'
    BY <1>1, <1>7, <1>8
<1>10. Amount(txs', A \cup {n}) = txs'[n].units + Amount(txs', A)
    BY <1>6, <1>8, <1>9, AmountOne
<1>11. Amount(txs', A) = Amount(txs, A)
    BY <1>1, <1>5, <1>7, AmountAppend
<1>12. Sum(cycle'.plan) = Sum(cycle.plan) - u
    BY <1>3, SumOfRest, Locally DEF u
<1>13. Amount(txs, A) + Sum(cycle.plan) <= bal + Amount(txs, S)
    BY CoveredIs DEF A, S
<1>14. Amount(txs', AtStake') = u + Amount(txs, A)
    BY <1>2, <1>5, <1>6, <1>10, <1>11
<1>15. Amount(txs', Spent') = Amount(txs, S)
    BY <1>1, <1>5, <1>6, <1>7, AmountAppend
<1>16. Amount(txs', AtStake') + Sum(cycle'.plan) <= bal' + Amount(txs', Spent')
    BY <1>1, <1>3, <1>7, <1>12, <1>13, <1>14, <1>15
<1> QED
    BY <1>16, CoveredIs

LEMMA CoveredStep ==
    ASSUME ~DiskFails, Types, Types', Credits, Synced, Recorded, Recorded', Polled, Covered, [Next]_vars
    PROVE  Covered'
<1> USE Locally
<1>s. pc \notin {"resolved", "record", "owe"} => disk = mem
    BY DEF Synced
<1>n. /\ Sum(cycle.plan) \in Nat /\ Sum(Zero) = 0 /\ Sum(Zero) <= Sum(cycle.plan) /\ bal \in Nat
      /\ Spent \in SUBSET (DOMAIN txs) /\ txs \in Seq(Tx) /\ Amount(txs, Spent) \in Nat
    BY StakeFacts, SumOfZero
<1>d. written \cap mem.recs = {} /\ written \subseteq Ids
    BY DEF Recorded
<1>i. txs' = txs => Ids' = Ids
    BY DEF Ids
<1>1. ASSUME txs' = txs, bal' = bal, \A t \in Ids : net'[t].block = net[t].block,
             mem'.recs \cup disk'.recs \subseteq mem.recs \cup disk.recs,
             written \ disk.recs \subseteq written' \ disk'.recs,
             cycle'.plan = cycle.plan \/ cycle'.plan = Zero
      PROVE  Covered'
  <2>1. AtStake' \subseteq AtStake /\ Spent \subseteq Spent'
      BY <1>d, <1>i, <1>1 DEF AtStake, Spent
  <2>2. Sum(cycle'.plan) <= Sum(cycle.plan)
      BY <1>n, <1>1
  <2> QED
      BY <1>n, <1>1, <2>1, <2>2, CoveredKept
<1>2. CASE UNCHANGED vars
    BY <1>1, <1>2 DEF vars
<1>3. CASE Network
    BY <1>3, CoveredNetwork
<1>4. CASE \E m \in Miner : Record(m)
    BY <1>4, CoveredRecord
<1>5. CASE MakePlan
  <2>1. AtStake' = {} /\ Spent' = Spent
    <3>1. pc = "plan" /\ UNCHANGED <<txs, net, mem, disk, written>>
        BY <1>5, PlanSteps
    <3>2. mem.recs = {} /\ disk = mem
        BY <1>s, <3>1 DEF Polled
    <3> QED
        BY <3>1, <3>2 DEF AtStake, Spent
  <2>2. Sum(cycle'.plan) <= bal /\ bal' = bal /\ txs' = txs
      BY <1>5, PlanSteps
  <2>3. Amount(txs', AtStake') = 0
      BY <2>1, AmountEmpty
  <2>4. Sum(cycle'.plan) \in Nat
    <3>1. cycle'.plan \in [Miner -> Nat]
        BY DEF Types, LocalsType
    <3> QED
        BY <3>1, SumOfPlan
  <2>5. Amount(txs', AtStake') + Sum(cycle'.plan) <= bal' + Amount(txs', Spent')
      BY <1>n, <2>1, <2>2, <2>3, <2>4
  <2> QED
      BY <2>5, CoveredIs
<1>6. CASE \E m \in Miner : SignFails(m)
  <2>1. PICK m \in Miner : SignFails(m)
      BY <1>6
  <2>2. cycle'.plan = [cycle.plan EXCEPT ![m] = 0] /\ UNCHANGED <<txs, net, mem, disk, bal, written>>
      BY <2>1 DEF SignFails, Chain
  <2>3. Sum(cycle'.plan) = Sum(cycle.plan) - cycle.plan[m]
      BY <2>2, SumOfRest
  <2>4. cycle.plan[m] \in Nat
      OBVIOUS
  <2>5. Sum(cycle'.plan) <= Sum(cycle.plan)
      BY <1>n, <2>3, <2>4
  <2>6. AtStake' \subseteq AtStake /\ Spent \subseteq Spent' /\ bal' \in Nat /\ bal <= bal'
      BY <1>n, <2>2 DEF AtStake, Spent
  <2> QED
      BY <2>2, <2>5, <2>6, CoveredKept
<1>7. CASE \E t \in Ids : Poll(t)
  <2>1. PICK t \in Ids : Poll(t)
      BY <1>7
  <2>2. /\ UNCHANGED <<txs, bal, mem, disk, written>> /\ cycle'.plan = cycle.plan
        /\ net' = net \/ net' = [net EXCEPT ![t].node = "queued"]
      BY <2>1, PollSteps
  <2>3. \A x \in Ids : net'[x].block = net[x].block
      BY <2>2, SameBlocks
  <2> QED
      BY <1>1, <2>2, <2>3
<1>8. CASE PostAccepted \/ PostUnresolved
  <2>1. cycle.cur \in Ids
      BY <1>8 DEF PostAccepted, PostUnresolved, Types
  <2>2. /\ UNCHANGED <<txs, bal, mem, disk, written>> /\ cycle'.plan = cycle.plan
        /\ \/ net' = net
           \/ net' = [net EXCEPT ![cycle.cur].node = "queued"]
           \/ net' = [net EXCEPT ![cycle.cur].node = "held", ![cycle.cur].peers = TRUE]
      BY <1>8 DEF PostAccepted, PostUnresolved, Unresolved
  <2>3. \A x \in Ids : net'[x].block = net[x].block
      BY <2>1, <2>2, SameBlocks
  <2> QED
      BY <1>1, <2>2, <2>3
<1>9. CASE Resolve \/ PostRejected \/ VerifyMissing
  <2>1. mem'.recs \subseteq mem.recs /\ disk' = disk /\ written \subseteq written'
      BY <1>9 DEF Resolve, PostRejected, VerifyMissing, Confirmed, OwedBack
  <2>2. UNCHANGED <<txs, net, bal, cycle>>
      BY <1>9 DEF Resolve, PostRejected, VerifyMissing, Chain
  <2> QED
      BY <1>1, <2>1, <2>2
<1>10. CASE FlushRecord \/ FlushResolved \/ FlushVerdict \/ Snapshot \/ Crash
  <2>1. /\ mem'.recs \cup disk'.recs \subseteq mem.recs \cup disk.recs
        /\ written \ disk.recs \subseteq written' \ disk'.recs
      BY <1>10, <1>d DEF FlushRecord, FlushResolved, FlushVerdict, Snapshot, Crash, Flushed, RecordFlushed
  <2>2. UNCHANGED <<txs, net, bal>> /\ (cycle'.plan = cycle.plan \/ cycle'.plan = Zero)
      BY <1>10 DEF FlushRecord, FlushResolved, FlushVerdict, Snapshot, Crash, Locals, Chain
  <2> QED
      BY <1>1, <2>1, <2>2
<1>11. CASE Start \/ SkipPlan \/ CycleEnds \/ VerifyKept
  <2>1. UNCHANGED <<txs, net, bal, mem, disk, written>> /\ (cycle'.plan = cycle.plan \/ cycle'.plan = Zero)
      BY <1>11 DEF Start, SkipPlan, CycleEnds, VerifyKept, Locals, Chain
  <2> QED
      BY <1>1, <2>1
<1> QED
    BY <1>2, <1>3, <1>4, <1>5, <1>6, <1>7, <1>8, <1>9, <1>10, <1>11 DEF Next, Settle, Poll

SolvencyInv == Types /\ Credits /\ Synced /\ Recorded /\ Polled /\ Covered

LEMMA SolvencyInit == Init => SolvencyInv
<1> SUFFICES ASSUME Init PROVE SolvencyInv
    OBVIOUS
<1>1. Types /\ Credits
    BY InitTypes, InitCredits
<1>2. Synced /\ Polled
    BY DEF Init, Synced, Polled, Locals
<1>3. /\ Ids = {} /\ AtStake = {} /\ Spent = {} /\ written = {} /\ bal = 0
      /\ cycle.plan = Zero /\ pc = "idle"
    BY DEF Init, Ids, AtStake, Spent, Locals
<1>4. Recorded
    BY <1>3 DEF Recorded
<1>5. Amount(txs, AtStake) + Sum(cycle.plan) <= bal + Amount(txs, Spent)
    BY <1>3, AmountEmpty, SumOfZero
<1> QED
    BY <1>1, <1>2, <1>4, <1>5, CoveredIs DEF SolvencyInv

\* No income is paid out twice, whatever answers are lost and wherever the pool
\* or the node restarts (settle_once, gone_action, verify_admitted), while the
\* disk takes what is written: the signed transactions that can still be mined
\* are covered by the wallet, except for what the node accepted and the pool
\* wrote off when it answered Missing, and by no more than what a block took of
\* that.
THEOREM SolventAlways == ASSUME ~DiskFails PROVE Spec => []SolventUpToMissing
<1>1. Init => SolvencyInv
    BY SolvencyInit
<1>2. SolvencyInv /\ [Next]_vars => SolvencyInv'
  <2> SUFFICES ASSUME SolvencyInv, [Next]_vars PROVE SolvencyInv'
      OBVIOUS
  <2>1. Types' /\ Credits' /\ Synced' /\ Polled'
      BY TypesStep, CreditsStep, SyncedStep, PolledStep DEF SolvencyInv
  <2>2. Recorded'
      BY <2>1, RecordedStep DEF SolvencyInv
  <2> QED
      BY <2>1, <2>2, CoveredStep DEF SolvencyInv
<1>3. ASSUME SolvencyInv PROVE SolventUpToMissing
  <2> DEFINE A == Pending \ written
             S == {t \in written : net[t].block # "no"}
  <2>1. A \subseteq AtStake /\ Spent \subseteq S
      BY <1>3, Locally DEF SolvencyInv, Recorded, Risky, Live, Pending, AtStake, Spent
  <2>2. /\ Amount(txs, AtStake) \in Nat /\ Sum(cycle.plan) \in Nat /\ bal \in Nat
        /\ AtStake \in SUBSET (DOMAIN txs) /\ txs \in Seq(Tx) /\ DOMAIN txs = Ids
        /\ Amount(txs, Spent) \in Nat
      BY <1>3, StakeFacts DEF SolvencyInv
  <2>3. Amount(txs, AtStake) + Sum(cycle.plan) <= bal + Amount(txs, Spent)
      BY <1>3, CoveredIs DEF SolvencyInv
  <2>4. S \in SUBSET (DOMAIN txs)
      BY <1>3, <2>2 DEF SolvencyInv, Recorded
  <2> HIDE DEF A, S
  <2>5. Amount(txs, A) <= Amount(txs, AtStake) /\ Amount(txs, A) \in Nat
      BY <2>1, <2>2, AmountSubset, AmountNat
  <2>6. Amount(txs, Spent) <= Amount(txs, S) /\ Amount(txs, S) \in Nat
      BY <2>1, <2>2, <2>4, AmountSubset, AmountNat
  <2>7. Amount(txs, A) <= bal + Amount(txs, S)
      BY <2>2, <2>3, <2>5, <2>6
  <2> QED
      BY <2>7, UnitsIsAmount DEF SolventUpToMissing, A, S
<1> QED
    BY <1>1, <1>2, <1>3, PTL DEF Spec
-----------------------------------------------------------------------------
(* The state file: the promise flush_state makes, for any number of         *)
(* snapshots, threads, failed writes and restarts.                         *)

\* The pool starts with nothing taken, written or promised.
LEMMA InitFileInv == FileInit => FileInv
<1> SUFFICES ASSUME FileInit PROVE FileInv
    OBVIOUS
<1>1. FileTypeOK
  <2>1. last \in [seq : Nat, durable : Nat]
      BY DEF FileInit
  <2>2. shots \in SUBSET Shot
      BY Zenon DEF FileInit
  <2>3. platter \in SUBSET (Nat \cup {Torn})
      BY DEF FileInit
  <2> QED
      BY <2>1, <2>2, <2>3 DEF FileInit, FileTypeOK
<1>2. ShotsOrdered /\ PromiseBySeq
    BY DEF FileInit, ShotsOrdered, PromiseBySeq
<1>3. PromiseOutlives /\ NewestTravels /\ file \in platter /\ file <= money
    BY DEF FileInit, PromiseOutlives, NewestTravels, Torn
<1> QED
    BY <1>1, <1>2, <1>3 DEF FileInv

\* Taking a durable snapshot of a money change keeps the invariant.
LEMMA MoneyShotFileInv == FileInv /\ MoneyShot => FileInv'
<1> SUFFICES ASSUME FileInv, MoneyShot PROVE FileInv'
    OBVIOUS
<1> DEFINE n == [seq |-> seq + 1, money |-> money + 1, durable |-> TRUE]
<1>1. /\ shots' = shots \cup {n} /\ n \in Shot
      /\ n.seq = seq + 1 /\ n.money = money + 1 /\ n.durable = TRUE
      /\ money' = money + 1 /\ seq' = seq + 1
    BY DEF FileInv, FileTypeOK, Shot, MoneyShot
<1> HIDE DEF n
<1>2. FileTypeOK'
    BY <1>1 DEF FileInv, FileTypeOK, MoneyShot
<1>3. ShotsOrdered'
    BY <1>1 DEF FileInv, FileTypeOK, Shot, ShotsOrdered
<1>4. PromiseBySeq' /\ PromiseOutlives'
    BY <1>1 DEF FileInv, FileTypeOK, Shot, PromiseBySeq, PromiseOutlives, MoneyShot
<1>5. NewestTravels'
    BY <1>1 DEF NewestTravels
<1>6. (file \in platter /\ file <= money)'
    BY <1>1 DEF FileInv, FileTypeOK, MoneyShot
<1> QED
    BY <1>2, <1>3, <1>4, <1>5, <1>6 DEF FileInv

\* A non-durable snapshot of the share path keeps the invariant.
LEMMA ShareShotFileInv == FileInv /\ ShareShot => FileInv'
<1> SUFFICES ASSUME FileInv, ShareShot PROVE FileInv'
    OBVIOUS
<1> DEFINE n == [seq |-> seq + 1, money |-> money, durable |-> FALSE]
<1>1. /\ shots' = shots \cup {n} /\ n \in Shot
      /\ n.seq = seq + 1 /\ n.money = money /\ n.durable = FALSE
      /\ money' = money /\ seq' = seq + 1
    BY DEF FileInv, FileTypeOK, Shot, ShareShot
<1> HIDE DEF n
<1>2. FileTypeOK'
    BY <1>1 DEF FileInv, FileTypeOK, ShareShot
<1>3. ShotsOrdered'
    BY <1>1 DEF FileInv, FileTypeOK, Shot, ShotsOrdered
<1>4. PromiseBySeq' /\ PromiseOutlives'
    BY <1>1 DEF FileInv, FileTypeOK, Shot, PromiseBySeq, PromiseOutlives, ShareShot
<1>5. NewestTravels'
    BY <1>1 DEF FileInv, NewestTravels, ShareShot
<1>6. (file \in platter /\ file <= money)'
    BY <1>1 DEF FileInv, FileTypeOK, ShareShot
<1> QED
    BY <1>2, <1>3, <1>4, <1>5, <1>6 DEF FileInv

\* A flush that skips answers for ledgers that were already promised.
LEMMA FlushSkipsFileInv == ASSUME FileInv, NEW s \in shots, FlushSkips(s) PROVE FileInv'
<1>1. /\ s \in Shot /\ shots' = shots \ {s}
      /\ s.durable => s.seq <= last.durable
      /\ s.seq \in Nat /\ s.money \in Nat
    BY DEF FileInv, FileTypeOK, Shot, FlushSkips, Already
<1>2. promised' = promised
    BY <1>1 DEF FileInv, FileTypeOK, PromiseBySeq, FlushSkips, Answered
<1>3. FileTypeOK' /\ PromiseOutlives'
    BY <1>1, <1>2 DEF FileInv, FileTypeOK, PromiseOutlives, FlushSkips
<1>4. ShotsOrdered' /\ PromiseBySeq'
    BY <1>1, <1>2 DEF FileInv, ShotsOrdered, PromiseBySeq, FlushSkips
<1>5. NewestTravels'
  <2>1. CASE s.durable /\ s.money = money
    <3>1. s.money <= promised /\ promised <= money
        BY <1>1, <2>1 DEF FileInv, FileTypeOK, PromiseBySeq, PromiseOutlives
    <3> QED
        BY <3>1, <2>1, <1>2 DEF FileInv, FileTypeOK, NewestTravels, FlushSkips
  <2>2. CASE ~(s.durable /\ s.money = money)
      BY <2>2, <1>1, <1>2 DEF FileInv, NewestTravels, FlushSkips
  <2> QED
      BY <2>1, <2>2
<1>6. (file \in platter /\ file <= money)'
    BY DEF FileInv, FlushSkips
<1> QED
    BY <1>3, <1>4, <1>5, <1>6 DEF FileInv

\* A flush that writes replaces the file by ledgers that have every promise.
LEMMA FlushWritesFileInv == ASSUME FileInv, NEW s \in shots, FlushWrites(s) PROVE FileInv'
<1>1. /\ s \in Shot /\ shots' = shots \ {s}
      /\ s.seq > last.durable
      /\ s.seq \in Nat /\ s.money \in Nat /\ s.durable \in BOOLEAN
      /\ s.seq <= seq /\ s.money <= money
      /\ promised <= s.money
      /\ promised' = IF s.durable THEN s.money ELSE promised
      /\ last' = [seq |-> s.seq, durable |-> IF s.durable THEN s.seq ELSE last.durable]
      /\ platter' = IF s.durable THEN {s.money} ELSE platter \cup {s.money, Torn}
  <2>1. s \in Shot /\ s.seq \in Nat /\ s.money \in Nat /\ s.durable \in BOOLEAN
      BY DEF FileInv, FileTypeOK, Shot
  <2>2. s.seq > last.durable
      BY <2>1 DEF FileInv, FileTypeOK, PromiseBySeq, FlushWrites, Already
  <2>3. promised <= s.money /\ s.seq <= seq /\ s.money <= money
      BY <2>2 DEF FileInv, PromiseBySeq, ShotsOrdered
  <2>4. promised' = IF s.durable THEN s.money ELSE promised
      BY <2>1, <2>3 DEF FileInv, FileTypeOK, FlushWrites, Answered
  <2> QED
      BY <2>1, <2>2, <2>3, <2>4 DEF FlushWrites, Written, OnPlatter
<1>2. FileTypeOK'
  <2>1. last' \in [seq : Nat, durable : Nat]
      BY <1>1 DEF FileInv, FileTypeOK
  <2>2. platter' \in SUBSET (Nat \cup {Torn}) /\ promised' \in Nat
      BY <1>1 DEF FileInv, FileTypeOK
  <2>3. shots' \in SUBSET Shot /\ file' \in Nat
      BY <1>1 DEF FileInv, FileTypeOK, FlushWrites
  <2> QED
      BY <2>1, <2>2, <2>3 DEF FileInv, FileTypeOK, FlushWrites
<1>3. ShotsOrdered'
    BY <1>1 DEF FileInv, ShotsOrdered, FlushWrites
<1>4. PromiseBySeq'
  <2>1. (last.durable <= last.seq /\ last.seq <= seq)'
      BY <1>1 DEF FileInv, FileTypeOK, PromiseBySeq, FlushWrites
  <2>2. ASSUME NEW r \in shots'
        PROVE  IF r.seq > last'.durable THEN promised' <= r.money ELSE r.money <= promised'
    <3>1. r \in shots /\ r # s /\ r \in Shot /\ r.seq \in Nat /\ r.money \in Nat
        BY <1>1, <2>2 DEF FileInv, FileTypeOK, Shot
    <3>2. r.seq # s.seq
        BY <3>1 DEF FileInv, ShotsOrdered
    <3>3. (r.seq < s.seq => r.money <= s.money) /\ (s.seq < r.seq => s.money <= r.money)
        BY <3>1 DEF FileInv, ShotsOrdered
    <3>4. CASE s.durable
        BY <1>1, <3>1, <3>2, <3>3, <3>4
    <3>5. CASE ~s.durable
        BY <1>1, <3>1, <3>5 DEF FileInv, PromiseBySeq
    <3> QED
        BY <3>4, <3>5
  <2> QED
      BY <2>1, <2>2 DEF PromiseBySeq
<1>5. PromiseOutlives'
  <2>1. money' = money /\ promised' <= money
      BY <1>1 DEF FileInv, PromiseOutlives, FlushWrites
  <2>2. ASSUME NEW v \in platter' PROVE v = Torn \/ promised' <= v
    <3>1. CASE s.durable
        BY <3>1, <1>1
    <3>2. CASE ~s.durable
        BY <3>2, <1>1 DEF FileInv, PromiseOutlives
    <3> QED
        BY <3>1, <3>2
  <2>3. last'.durable > 0 /\ last'.durable = last'.seq => Torn \notin platter'
    <3>1. CASE s.durable
      <4>1. platter' = {s.money} /\ s.money # Torn
          BY <1>1, <3>1 DEF Torn
      <4> QED
          BY <4>1
    <3>2. CASE ~s.durable
      <4>1. last'.durable = last.durable /\ last'.seq = s.seq
          BY <1>1, <3>2
      <4>2. last.durable \in Nat /\ s.seq \in Nat
          BY <1>1 DEF FileInv, FileTypeOK
      <4> QED
          BY <1>1, <4>1, <4>2
    <3> QED
        BY <3>1, <3>2
  <2> QED
      BY <2>1, <2>2, <2>3 DEF PromiseOutlives
<1>6. NewestTravels'
  <2>1. CASE s.durable /\ s.money = money
      BY <2>1, <1>1 DEF NewestTravels, FlushWrites
  <2>2. CASE ~(s.durable /\ s.money = money)
    <3>1. promised = money => promised' = money
        BY <1>1 DEF FileInv, FileTypeOK
    <3> QED
        BY <2>2, <3>1, <1>1 DEF FileInv, NewestTravels, FlushWrites
  <2> QED
      BY <2>1, <2>2
<1>7. (file \in platter /\ file <= money)'
    BY <1>1 DEF FlushWrites
<1> QED
    BY <1>2, <1>3, <1>4, <1>5, <1>6, <1>7 DEF FileInv

\* A write that fails leaves the promises as they were.
LEMMA FlushFailsFileInv ==
  ASSUME FileInv, NEW s \in shots, FlushFails(s) \/ DirSyncFails(s) PROVE FileInv'
<1>1. /\ s \in Shot /\ s.seq \in Nat /\ s.money \in Nat
      /\ shots' = shots \ {s}
      /\ UNCHANGED <<money, seq, last, promised>>
      /\ failed' = TRUE
      /\ s.money <= money
    BY DEF FileInv, FileTypeOK, Shot, ShotsOrdered, FlushFails, DirSyncFails
<1>2. \/ file' = file /\ platter' = platter
      \/ file' = s.money /\ platter' = platter \cup {s.money} /\ promised <= s.money
    BY <1>1 DEF FileInv, FileTypeOK, PromiseBySeq, FlushFails, DirSyncFails, Already
<1>3. FileTypeOK' /\ (file \in platter /\ file <= money)'
    BY <1>1, <1>2 DEF FileInv, FileTypeOK
<1>5. PromiseOutlives'
    BY <1>1, <1>2 DEF FileInv, PromiseOutlives, Torn
<1>4. ShotsOrdered' /\ PromiseBySeq' /\ NewestTravels'
    BY <1>1 DEF FileInv, ShotsOrdered, PromiseBySeq, NewestTravels
<1> QED
    BY <1>3, <1>4, <1>5 DEF FileInv

\* A restart loads ledgers that have every promise, or starts with none.
LEMMA RestartFileInv == FileInv /\ (ProcessDies \/ PowerCut) => FileInv'
<1> SUFFICES ASSUME FileInv, ProcessDies \/ PowerCut PROVE FileInv'
    OBVIOUS
<1>1. PICK v \in platter :
          Restarted(v) /\ ((v # Torn /\ platter' = platter) \/ platter' = {Loaded(v)})
  <2>1. file \in platter /\ file # Torn
      BY DEF FileInv, FileTypeOK, Torn
  <2> QED
      BY <2>1 DEF ProcessDies, PowerCut
<1>2. PICK p, m : p = promised' /\ m = Loaded(v)
    OBVIOUS
<1>3. m \in Nat /\ p \in Nat /\ p <= m /\ (v # Torn => m = v /\ p = promised)
  <2>1. v = Torn => m = 0 /\ p = 0
      BY <1>1, <1>2 DEF Restarted, Loaded
  <2>2. v # Torn => m = v /\ p = promised /\ v \in Nat /\ promised <= v /\ promised \in Nat
      BY <1>1, <1>2 DEF Restarted, Loaded, FileInv, FileTypeOK, PromiseOutlives
  <2> QED
      BY <2>1, <2>2
<1>4. /\ money' = m /\ file' = m /\ seq' = 0 /\ shots' = {}
      /\ last' = [seq |-> 0, durable |-> 0]
      /\ failed' = FALSE /\ promised' = p
      /\ (v # Torn /\ platter' = platter) \/ platter' = {m}
    BY <1>1, <1>2 DEF Restarted
<1>5. FileTypeOK'
  <2>1. last' \in [seq : Nat, durable : Nat]
      BY <1>4
  <2>2. platter' \in SUBSET (Nat \cup {Torn})
      BY <1>3, <1>4 DEF FileInv, FileTypeOK
  <2> QED
      BY <1>3, <1>4, <2>1, <2>2 DEF FileTypeOK
<1>6. ShotsOrdered' /\ PromiseBySeq'
    BY <1>4 DEF ShotsOrdered, PromiseBySeq
<1>7. PromiseOutlives'
  <2>1. \A u \in platter' : u = Torn \/ p <= u
      BY <1>3, <1>4 DEF FileInv, PromiseOutlives
  <2>2. last'.durable = 0
      BY <1>4
  <2> QED
      BY <1>3, <1>4, <2>1, <2>2 DEF PromiseOutlives
<1>8. NewestTravels' /\ (file \in platter /\ file <= money)'
  <2>1. m \in platter'
      BY <1>3, <1>4
  <2> QED
      BY <1>3, <1>4, <2>1 DEF NewestTravels
<1> QED
    BY <1>5, <1>6, <1>7, <1>8 DEF FileInv

\* Every step keeps the invariant.
LEMMA NextFileInv == FileInv /\ [FileNext]_fileVars => FileInv'
<1> SUFFICES ASSUME FileInv, [FileNext]_fileVars PROVE FileInv'
    OBVIOUS
<1>1. CASE UNCHANGED fileVars
    BY <1>1 DEF fileVars, FileInv, FileTypeOK, ShotsOrdered, PromiseBySeq, PromiseOutlives, NewestTravels
<1>2. CASE MoneyShot
    BY <1>2, MoneyShotFileInv
<1>3. CASE ShareShot
    BY <1>3, ShareShotFileInv
<1>4. CASE \E s \in shots : FlushSkips(s)
    BY <1>4, FlushSkipsFileInv
<1>5. CASE \E s \in shots : FlushWrites(s)
    BY <1>5, FlushWritesFileInv
<1>6. CASE \E s \in shots : FlushFails(s) \/ DirSyncFails(s)
    BY <1>6, FlushFailsFileInv
<1>7. CASE ProcessDies \/ PowerCut
    BY <1>7, RestartFileInv
<1> QED
    BY <1>1, <1>2, <1>3, <1>4, <1>5, <1>6, <1>7 DEF FileNext

\* The inductive invariant holds in every reachable state of the state file.
LEMMA StateFileInvariant == FileSpec => []FileInv
  BY InitFileInv, NextFileInv, PTL DEF FileSpec

\* Once flush_state answered true for a change of money, no restart loses it and no
\* power cut that leaves a whole file, as it does from a durable write to the next
\* one without fsync, for any number of snapshots in flight and of failed writes.
THEOREM PromisesOutlive == FileSpec => []PromiseOutlives
<1>1. FileInv => PromiseOutlives
    BY DEF FileInv
<1> QED
    BY <1>1, StateFileInvariant, PTL

\* With nothing in flight and no failed write the file has every change of money.
THEOREM FileUpToDate == FileSpec => []FileCatchesUp
<1>1. FileInv => FileCatchesUp
  <2> SUFFICES ASSUME FileInv, shots = {}, ~failed PROVE file = money
      BY DEF FileCatchesUp
  <2>1. file \in Nat /\ file <= money /\ promised <= file /\ promised \in Nat /\ money \in Nat
      BY DEF FileInv, FileTypeOK, PromiseOutlives, Torn
  <2> QED
      BY <2>1 DEF FileInv, NewestTravels
<1> QED
    BY <1>1, StateFileInvariant, PTL
=============================================================================
