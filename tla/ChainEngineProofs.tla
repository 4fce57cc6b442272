------------------------- MODULE ChainEngineProofs -------------------------
(***************************************************************************)
(* Proofs about the chain engine, for every set of contents and keys,      *)
(* every Level, every channel capacity and every height bound: the fork    *)
(* tree, the states of its blocks, the two databases behind it, and the    *)
(* finality they promise.                                                  *)
(***************************************************************************)
EXTENDS ChainEngine, DataLemmas, NaturalsInduction

-----------------------------------------------------------------------------
(* Blocks as sequences of contents.                                        *)

(* An ancestor is a block of the height asked for.                         *)
LEMMA AncestorType ==
    ASSUME NEW b \in Seq(Content), NEW h \in 0..Height(b)
    PROVE  /\ Ancestor(b, h) \in Seq(Content)
           /\ Height(Ancestor(b, h)) = h
           /\ \A i \in 1..h : Ancestor(b, h)[i] = b[i]
  BY SubSeqProperties, LenProperties DEF Ancestor, Height

\* Heights are natural numbers.
LEMMA HeightType == \A b \in Seq(Content) : Height(b) \in Nat
  BY LenProperties DEF Height

(* The block itself is its ancestor at its own height.                     *)
LEMMA AncestorSelf == \A b \in Seq(Content) : Ancestor(b, Height(b)) = b
  BY SubSeqFull DEF Ancestor, Height

(* Ancestors compose.                                                      *)
LEMMA AncestorOfAncestor ==
    ASSUME NEW b \in Seq(Content), NEW h \in 0..Height(b), NEW i \in 0..h
    PROVE  Ancestor(Ancestor(b, h), i) = Ancestor(b, i)
  <1> DEFINE a == Ancestor(b, h)
  <1>1. a \in Seq(Content) /\ Height(a) = h /\ \A j \in 1..h : a[j] = b[j]
    BY AncestorType
  <1>2. Ancestor(a, i) \in Seq(Content) /\ Height(Ancestor(a, i)) = i
        /\ \A j \in 1..i : Ancestor(a, i)[j] = a[j]
    <2> HIDE DEF a
    <2> QED BY <1>1, AncestorType
  <1>3. i \in 0..Height(b)
    BY HeightType
  <1>4. Ancestor(b, i) \in Seq(Content) /\ Height(Ancestor(b, i)) = i
        /\ \A j \in 1..i : Ancestor(b, i)[j] = b[j]
    BY <1>3, AncestorType
  <1> HIDE DEF a
  <1>5. \A j \in 1..i : Ancestor(a, i)[j] = Ancestor(b, i)[j]
    BY <1>1, <1>2, <1>4
  <1> QED BY <1>2, <1>4, <1>5, SeqEqual DEF Height, a

\* The parent of a block above genesis is a block one lower.
LEMMA ParentType ==
    ASSUME NEW b \in Seq(Content), Height(b) > 0
    PROVE  Parent(b) \in Seq(Content) /\ Height(Parent(b)) = Height(b) - 1
  BY AncestorType, HeightType DEF Parent

\* Every block descends from itself (Roller::quick_find starts at the chunk itself).
LEMMA DescendsSelf == \A b \in Seq(Content) : Descends(b, b)
  BY AncestorSelf, HeightType DEF Descends

(* A block descends from each of its ancestors.                            *)
LEMMA DescendsAncestor ==
    ASSUME NEW b \in Seq(Content), NEW h \in 0..Height(b)
    PROVE  Descends(b, Ancestor(b, h))
  BY AncestorType, HeightType DEF Descends

(* An ancestor of b that is not below a still descends from a.             *)
LEMMA AncestorDescends ==
    ASSUME NEW a \in Seq(Content), NEW b \in Seq(Content), Descends(b, a),
           NEW h \in Height(a)..Height(b)
    PROVE  Descends(Ancestor(b, h), a)
  <1>1. h \in 0..Height(b) /\ Height(a) \in 0..h
    BY HeightType
  <1>2. Ancestor(Ancestor(b, h), Height(a)) = Ancestor(b, Height(a))
    BY <1>1, AncestorOfAncestor
  <1> QED BY <1>1, <1>2, AncestorType DEF Descends

\* Descent is transitive: a subtree of a subtree is a subtree.
LEMMA DescendsTransitive ==
    ASSUME NEW a \in Seq(Content), NEW b \in Seq(Content), NEW c \in Seq(Content),
           Descends(c, b), Descends(b, a)
    PROVE  Descends(c, a)
  <1>1. Height(b) \in 0..Height(c) /\ Height(a) \in 0..Height(b)
    BY HeightType DEF Descends
  <1>2. Ancestor(Ancestor(c, Height(b)), Height(a)) = Ancestor(c, Height(a))
    BY <1>1, AncestorOfAncestor
  <1>3. Ancestor(c, Height(b)) = b /\ Ancestor(b, Height(a)) = a
    BY DEF Descends
  <1> QED BY <1>1, <1>2, <1>3, HeightType DEF Descends

(* A set of heights that is bounded and not empty has a greatest member.   *)
LEMMA GreatestHeight ==
    ASSUME NEW n \in Nat, NEW S \in SUBSET (0..n), S # {}
    PROVE  Max(S) \in S /\ \A x \in S : x <= Max(S)
  <1> DEFINE T == {y \in 0..n : n - y \in S}
  <1>1. T \subseteq Nat /\ T # {}
    <2>1. PICK x \in S : TRUE
      OBVIOUS
    <2>2. n - x \in 0..n /\ n - (n - x) = x
      OBVIOUS
    <2>3. n - x \in T
      BY <2>2
    <2>4. T \subseteq Nat
      OBVIOUS
    <2> HIDE DEF T
    <2> QED BY <2>3, <2>4
  <1>2. PICK m \in T : \A y \in T : ~(<<y, m>> \in OpToRel(<, Nat))
    BY <1>1, WFMin, NatLessThanWellFounded
  <1>3. \A y \in T : ~(y < m)
    BY <1>1, <1>2 DEF OpToRel
  <1>4. n - m \in S
    BY <1>2
  <1>5. \A x \in S : n - m >= x
    <2> TAKE x \in S
    <2>1. x \in 0..n /\ n - x \in 0..n /\ n - (n - x) = x
      OBVIOUS
    <2>2. n - x \in T
      BY <2>1
    <2>3. ~(n - x < m)
      BY <2>2, <1>3
    <2> QED BY <2>1, <2>3
  <1> QED BY <1>4, <1>5 DEF Max
-----------------------------------------------------------------------------
(* The inductive invariant.                                                *)

(* The block being executed still fits below the tree, and its result fits *)
(* into the channel or is the one that waits to be sent.                   *)
ExecFits ==
    exec # <<>> =>
        /\ Height(exec[1]) > Height(root) /\ Height(exec[1]) <= Height(head) + 1
        /\ InTree(Parent(exec[1]))
        /\ Len(rids) <= ChanSize

(* The new root of every result that waits to be rolled is still alive.    *)
RollReady ==
    \A i \in 1..Len(rids) :
        /\ Height(rids[i].blk) > rids[i].oldRoot
        /\ rids[i].rootMoves => NewRoot(rids[i]) \in DOMAIN mem

(* Without a process there is nothing in the pipeline.                     *)
DeadIsEmpty == ~Running => feed = <<>> /\ blkq = <<>> /\ exec = <<>> /\ rids = <<>>

IInv == TypeOK /\ TreeShape /\ ExecFits /\ RollReady /\ DeadIsEmpty

(* What StateInst::get returns is a value.                                 *)
LEMMA ViewType ==
    ASSUME TypeOK, NEW b \in Seq(Content), NEW k \in Keys
    PROVE  View(b, k) \in Seq(Content)
  <1>1. CASE Overlays(b, k) = {}
    BY <1>1 DEF View, TypeOK
  <1>2. CASE Overlays(b, k) # {}
    <2> DEFINE h == Max(Overlays(b, k))
    <2>1. Overlays(b, k) \in SUBSET (0..Height(b)) /\ Height(b) \in Nat
      BY HeightType DEF Overlays
    <2>2. h \in Overlays(b, k)
      BY <1>2, <2>1, GreatestHeight
    <2>3. Ancestor(b, h) \in DOMAIN mem /\ k \in DOMAIN mem[Ancestor(b, h)]
      BY <2>1, <2>2 DEF Overlays
    <2> HIDE DEF h
    <2>4. mem[Ancestor(b, h)][k] \in Seq(Content)
      BY <2>3 DEF TypeOK, IsOverlay
    <2> QED BY <1>2, <2>4 DEF View, h
  <1> QED BY <1>1, <1>2

(* Releasing chunks keeps everything below the root.                       *)
LEMMA OwnedKeepsTree ==
    ASSUME NEW bs, NEW rt, NEW rs, NEW b \in bs, Descends(b, rt)
    PROVE  b \in Owned(bs, rt, rs)
  BY DEF Owned

(* Releasing chunks keeps the new root of every result in the channel.     *)
LEMMA OwnedKeepsNewRoot ==
    ASSUME NEW bs, NEW rt, NEW rs \in Seq(InsertResult), NEW i \in 1..Len(rs),
           rs[i].rootMoves, Height(rs[i].blk) > rs[i].oldRoot,
           NewRoot(rs[i]) \in bs
    PROVE  NewRoot(rs[i]) \in Owned(bs, rt, rs)
  <1> DEFINE r == rs[i]
             o == Ancestor(r.blk, r.oldRoot)
  <1>1. r \in InsertResult /\ i \in DOMAIN rs
    BY ElementOfSeq, LenProperties
  <1>2. r.blk \in Seq(Content) /\ r.oldRoot \in Nat /\ Height(r.blk) \in Nat
    BY <1>1, HeightType DEF InsertResult
  <1>3. o \in Seq(Content) /\ Height(o) = r.oldRoot
    BY <1>2, AncestorType
  <1>4. Ancestor(Ancestor(r.blk, r.oldRoot + 1), r.oldRoot) = o
    BY <1>2, AncestorOfAncestor
  <1>5. Height(NewRoot(r)) = r.oldRoot + 1
    BY <1>2, AncestorType DEF NewRoot
  <1>6. Descends(NewRoot(r), o)
    BY <1>2, <1>3, <1>4, <1>5 DEF Descends, NewRoot
  <1>7. o \in UNION {OldRootHold(rs[j]) : j \in DOMAIN rs}
    BY <1>1 DEF OldRootHold
  <1> QED BY <1>6, <1>7 DEF Owned
-----------------------------------------------------------------------------
(* Each action preserves the invariant.                                    *)

\* ChainEngine::open starts a tree of one chunk, whatever a crash left on disk.
LEMMA OpenPreserves == IInv /\ Open => IInv'
  <1> SUFFICES ASSUME IInv, Open PROVE IInv'
    OBVIOUS
  <1>0. TypeOK /\ exec = <<>> /\ rids = <<>> /\ cur' = cur
        /\ exec' = exec /\ rids' = rids /\ got' = got /\ blkq' = blkq
    BY DEF IInv, DeadIsEmpty, Running, Open
  <1>1. CASE status.root > 0 /\ ~Loadable(status.root)
    <2>1. job' = "panic" /\ UNCHANGED <<tree, durable, feed>>
      BY <1>1 DEF Open
    <2>2. TypeOK'
      BY <1>0, <2>1 DEF TypeOK, tree, durable
    <2>3. TreeShape'
      BY <2>1 DEF TreeShape, Running
    <2>4. DeadIsEmpty'
      BY <1>0, <2>1 DEF IInv, DeadIsEmpty, Open, Running
    <2> QED BY <1>0, <2>2, <2>3, <2>4, EmptySeq DEF IInv, ExecFits, RollReady
  <1>2. CASE ~(status.root > 0 /\ ~Loadable(status.root))
    <2> DEFINE r == IF marker \/ status.root = 0 THEN Genesis ELSE index[status.root]
    <2>1. r \in Seq(Content)
      BY <1>0, <1>2, EmptySeq DEF TypeOK, Loadable, Genesis
    <2>2. /\ root' = r /\ head' = r /\ mem' = [b \in {r} |-> Empty]
          /\ job' \in {"rebuild", "rebuild_all"}
          /\ disk' = IF marker THEN InitDisk ELSE disk
          /\ UNCHANGED <<marker, status, index, datas>>
      BY <1>2 DEF Open
    <2>3. PICK n \in DOMAIN index \cup {Height(r)} :
                 /\ \A h \in (Height(r) + 1)..n : Loadable(h)
                 /\ feed' = [i \in 1..(n - Height(r)) |-> index[Height(r) + i]]
      BY <1>2 DEF Open
    <2> HIDE DEF r
    <2>4. feed' \in Seq(Seq(Content))
      <3>1. n \in Nat /\ Height(r) \in Nat
        BY <1>0, <2>1, HeightType DEF TypeOK
      <3>2. \A i \in 1..(n - Height(r)) : Loadable(Height(r) + i)
        BY <2>3, <3>1
      <3>3. \A i \in 1..(n - Height(r)) : index[Height(r) + i] \in Seq(Content)
        BY <1>0, <3>2 DEF Loadable, TypeOK
      <3>4. CASE n >= Height(r)
        BY <2>3, <3>1, <3>3, <3>4, IsASeq
      <3>5. CASE n < Height(r)
        <4>1. 1..(n - Height(r)) = 1..0
          BY <3>1, <3>5
        <4>2. feed' = <<>>
          BY <2>3, <4>1
        <4> QED BY <4>2, EmptySeq
      <3> QED BY <3>1, <3>4, <3>5
    <2>5. disk' \in [Keys -> Seq(Content)]
      <3>1. InitDisk \in [Keys -> Seq(Content)]
        BY EmptySeq DEF InitDisk
      <3> QED BY <1>0, <2>2, <3>1 DEF TypeOK
    <2>6. \A b \in DOMAIN mem' : IsOverlay(mem'[b])
      BY <2>2 DEF IsOverlay, Empty
    <2>7. TypeOK'
      BY <1>0, <2>1, <2>2, <2>4, <2>5, <2>6 DEF TypeOK, IsOverlay
    <2>8. TreeShape'
      <3>1. Descends(r, r) /\ Height(r) \in Nat /\ Ancestor(r, Height(r)) = r
        BY <2>1, DescendsSelf, HeightType, AncestorSelf
      <3>2. Height(r) <= Height(r) + Level
        BY <3>1, LevelAssumption
      <3> QED BY <2>2, <3>1, <3>2 DEF TreeShape, InTree
    <2>9. Running'
      BY <2>2 DEF Running
    <2> QED BY <1>0, <2>7, <2>8, <2>9, EmptySeq DEF IInv, ExecFits, RollReady, DeadIsEmpty
  <1> QED BY <1>1, <1>2

(* A step that leaves the tree, the execution and the results alone only   *)
(* has to preserve types.                                                  *)
LEMMA FramePreserves ==
    ASSUME IInv, UNCHANGED <<root, head, mem, exec, rids>>, Running' <=> Running,
           Running' \/ UNCHANGED <<feed, blkq>>
    PROVE  TreeShape' /\ ExecFits' /\ RollReady' /\ DeadIsEmpty'
  <1>1. TreeShape'
    BY DEF IInv, TreeShape, InTree
  <1>2. ExecFits'
    BY DEF IInv, ExecFits, InTree
  <1>3. RollReady'
    BY DEF IInv, RollReady
  <1>4. DeadIsEmpty'
    BY DEF IInv, DeadIsEmpty
  <1> QED BY <1>1, <1>2, <1>3, <1>4

\* Stopping, at any step, leaves nothing of the tree and the queues.
LEMMA HaltPreserves ==
    ASSUME IInv, NEW j \in {"down", "panic"}, Halt(j)
    PROVE  IInv'
  <1>1. ~Running'
    BY DEF Halt, Running
  <1>2. IsOverlay(Empty)
    BY DEF IsOverlay, Empty
  <1>3. TypeOK'
    BY <1>2, EmptySeq, ChanAssumption DEF IInv, TypeOK, Halt, Genesis, Empty
  <1> QED BY <1>1, <1>3, EmptySeq DEF IInv, Halt, TreeShape, ExecFits, RollReady, DeadIsEmpty

\* Engine::discover only queues the block.
LEMMA DiscoverPreserves ==
    ASSUME IInv, NEW b \in Chains, Discover(b)
    PROVE  IInv'
  <1>1. b \in Seq(Content)
    <2>1. PICK n \in 1..MaxHeight : b \in [1..n -> Content]
      BY DEF Chains
    <2>2. n \in Nat
      BY HeightAssumption
    <2> QED BY <2>1, <2>2
  <1>2. blkq' \in Seq(Seq(Content)) /\ Len(blkq') <= ChanSize
    BY <1>1, ChanAssumption DEF Discover
  <1>3. TypeOK'
    BY <1>2 DEF IInv, TypeOK, Discover, tree, durable
  <1> QED BY <1>3, FramePreserves DEF IInv, Discover, tree, Running

\* Engine::synchronize only fills the parse thread's feed.
LEMMA SynchronizePreserves ==
    ASSUME IInv, NEW b \in Chains, NEW h \in 1..Height(b), Synchronize(b, h)
    PROVE  IInv'
  <1>1. b \in Seq(Content)
    <2>1. PICK n \in 1..MaxHeight : b \in [1..n -> Content]
      BY DEF Chains
    <2>2. n \in Nat
      BY HeightAssumption
    <2> QED BY <2>1, <2>2
  <1>2. Height(b) \in Nat /\ Height(b) - h + 1 \in Nat
    BY <1>1, HeightType
  <1>3. \A i \in 1..(Height(b) - h + 1) : h + i - 1 \in 0..Height(b)
    BY <1>2
  <1>4. \A i \in 1..(Height(b) - h + 1) : Ancestor(b, h + i - 1) \in Seq(Content)
    BY <1>1, <1>3, AncestorType
  <1>5. feed' \in Seq(Seq(Content))
    BY <1>2, <1>4, IsASeq DEF Synchronize
  <1>6. TypeOK'
    BY <1>5 DEF IInv, TypeOK, Synchronize, tree, durable
  <1> QED BY <1>6, FramePreserves DEF IInv, Synchronize, tree, Running

\* The parse thread hands a block on only when the channel has room.
LEMMA ParsePreserves ==
    ASSUME IInv, Parse
    PROVE  IInv'
  <1>1. /\ Head(feed) \in Seq(Content) /\ Tail(feed) \in Seq(Seq(Content))
        /\ blkq \in Seq(Seq(Content)) /\ Len(blkq) < ChanSize
    BY HeadTailProperties DEF IInv, TypeOK, Parse
  <1>2. blkq' \in Seq(Seq(Content)) /\ Len(blkq') <= ChanSize
    BY <1>1, ChanAssumption, AppendProperties DEF Parse
  <1>3. TypeOK'
    BY <1>1, <1>2 DEF IInv, TypeOK, Parse, tree, durable
  <1>4. Running /\ Running'
    BY DEF IInv, DeadIsEmpty, Parse, Running
  <1> QED BY <1>3, <1>4, FramePreserves DEF IInv, Parse, tree

\* A block whose execution starts passed the gates of insert_by: its parent is in the tree.
LEMMA ExecBeginPreserves ==
    ASSUME IInv, ExecBegin
    PROVE  IInv'
  <1> DEFINE b == Head(blkq)
  <1>1. b \in Seq(Content) /\ Tail(blkq) \in Seq(Seq(Content)) /\ Len(Tail(blkq)) = Len(blkq) - 1
    BY HeadTailProperties DEF IInv, TypeOK, ExecBegin
  <1>2. exec' = <<b>> /\ got' = Empty /\ blkq' = Tail(blkq) /\ Insertable(b)
        /\ UNCHANGED <<tree, durable, job, feed, rids, cur>>
    BY DEF ExecBegin
  <1> HIDE DEF b
  <1>3. exec' \in Seq(Seq(Content)) /\ Len(exec') <= 1 /\ exec'[1] = b
    BY <1>1, <1>2
  <1>4. IsOverlay(got') /\ Len(blkq') <= ChanSize
    BY <1>1, <1>2, ChanAssumption, LenProperties DEF IsOverlay, Empty, IInv, TypeOK
  <1>5. TypeOK'
    BY <1>1, <1>2, <1>3, <1>4 DEF IInv, TypeOK, tree, durable, IsOverlay
  <1>6. TreeShape' /\ RollReady'
    BY <1>2 DEF IInv, TreeShape, RollReady, InTree, Running, tree
  <1>7. Running /\ Running'
    BY <1>2 DEF IInv, DeadIsEmpty, ExecBegin, Running
  <1>8. ExecFits'
    BY <1>2, <1>3, <1>7 DEF ExecFits, ExecBegin, InsertThreadFree, Insertable, InTree, Running, tree
  <1> QED BY <1>5, <1>6, <1>7, <1>8 DEF IInv, DeadIsEmpty

\* Reading a key through the overlays yields a value of the ledger.
LEMMA ExecReadPreserves ==
    ASSUME IInv, NEW k \in Keys, ExecRead(k)
    PROVE  IInv'
  <1>1. exec[1] \in Seq(Content) /\ Height(exec[1]) > 0
    <2>1. Len(exec) \in Nat /\ Len(exec) # 0
      BY EmptySeq, LenProperties DEF IInv, TypeOK, ExecRead
    <2>2. exec[1] \in Seq(Content)
      BY <2>1, ElementOfSeq DEF IInv, TypeOK
    <2> QED BY <2>2, HeightType, SMTT(30) DEF IInv, TypeOK, ExecFits, ExecRead
  <1>2. View(Parent(exec[1]), k) \in Seq(Content)
    BY <1>1, ParentType, ViewType DEF IInv
  <1>3. IsOverlay(got')
    BY <1>2 DEF IInv, TypeOK, IsOverlay, ExecRead
  <1>4. TypeOK'
    BY <1>3 DEF IInv, TypeOK, ExecRead, tree, durable
  <1>5. Running' <=> Running
    BY DEF ExecRead, Running
  <1> QED BY <1>4, <1>5, FramePreserves DEF IInv, ExecRead, tree

\* The store batch of roll_by does not touch the tree.
LEMMA RollStorePreserves ==
    ASSUME IInv, RollStore
    PROVE  IInv'
  <1> DEFINE r == cur[1]
  <1>1. r \in InsertResult
    BY EmptySeq, LenProperties, ElementOfSeq DEF IInv, TypeOK, RollStore
  <1>2. r.blk \in Seq(Content) /\ r.oldRoot \in Nat /\ Height(r.blk) \in Nat /\ RealRoot(r) \in Nat
    BY <1>1, HeightType DEF InsertResult, RealRoot
  <1>3. \A h \in ReindexedHeights(r) : h \in 0..Height(r.blk)
    BY <1>2 DEF ReindexedHeights
  <1>4. \A h \in ReindexedHeights(r) : Ancestor(r.blk, h) \in Seq(Content)
    BY <1>2, <1>3, AncestorType
  <1>5. status' \in [root : Nat, last : Nat]
    BY <1>2 DEF IInv, TypeOK, RollStore
  <1>6. DOMAIN index' \subseteq Nat /\ index' \in [DOMAIN index' -> Seq(Content)]
    <2>1. CASE index' = index
      BY <2>1 DEF IInv, TypeOK
    <2>2. CASE index' # index
      <3>1. index' = [h \in DOMAIN index \cup ReindexedHeights(r) |->
                         IF h \in ReindexedHeights(r) THEN Ancestor(r.blk, h) ELSE index[h]]
        BY <2>2 DEF RollStore
      <3> QED BY <1>2, <1>3, <1>4, <3>1 DEF IInv, TypeOK
    <2> QED BY <2>1, <2>2
  <1>7. datas' \subseteq Seq(Content)
    BY <1>2 DEF IInv, TypeOK, RollStore, Stored
  <1>8. TypeOK'
    BY <1>5, <1>6, <1>7, EmptySeq DEF IInv, TypeOK, RollStore, tree
  <1>9. Running' <=> Running
    BY DEF RollStore, Running
  <1> QED BY <1>8, <1>9, FramePreserves DEF IInv, RollStore, tree

\* The end of a job only releases the lock.
LEMMA FinishPreserves ==
    ASSUME IInv, Finish
    PROVE  IInv'
  <1>1. TypeOK'
    BY DEF IInv, TypeOK, Finish, tree
  <1>2. Running /\ Running'
    BY DEF Finish, Running
  <1> QED BY <1>1, <1>2, FramePreserves DEF IInv, Finish, tree

\* A failing insert thread drops what is queued and leaves the tree alone.
LEMMA InsertFailPreserves ==
    ASSUME IInv, InsertFail
    PROVE  IInv'
  <1>1. TypeOK'
    BY EmptySeq, ChanAssumption DEF IInv, TypeOK, InsertFail, tree, durable, IsOverlay, Empty
  <1>2. TreeShape' /\ RollReady'
    BY DEF IInv, TreeShape, RollReady, InsertFail, tree, InTree, Running
  <1>3. ExecFits' /\ DeadIsEmpty'
    BY DEF IInv, ExecFits, DeadIsEmpty, InsertFail, Running
  <1> QED BY <1>1, <1>2, <1>3 DEF IInv

\* Losing the state directory while down touches nothing in memory.
LEMMA LoseStatePreserves ==
    ASSUME IInv, LoseState
    PROVE  IInv'
  <1>1. TypeOK'
    BY DEF IInv, TypeOK, LoseState, tree, pipeline
  <1>2. Running' <=> Running
    BY DEF LoseState, Running, pipeline
  <1> QED BY <1>1, <1>2, FramePreserves DEF IInv, LoseState, tree, pipeline

\* Releasing an old root (old_root_hold) keeps every chunk that the tree or a later result needs.
LEMMA RollStatePreserves ==
    ASSUME IInv, RollState
    PROVE  IInv'
  <1> DEFINE r == Head(rids)
  <1>1. /\ r \in InsertResult /\ rids' = Tail(rids) /\ rids' \in Seq(InsertResult)
        /\ Len(rids') = Len(rids) - 1 /\ r = rids[1] /\ Len(rids) \in Nat /\ Len(rids) # 0
        /\ \A i \in 1..Len(rids') : rids'[i] = rids[i + 1]
    BY HeadTailProperties, LenProperties, EmptySeq DEF IInv, TypeOK, RollState
  <1>2. /\ cur' = <<r>>
        /\ mem' = [b \in Owned(DOMAIN mem, root, rids') |-> mem[b]]
        /\ disk' = IF r.rootMoves
                   THEN [k \in Keys |-> IF k \in DOMAIN mem[NewRoot(r)]
                                        THEN mem[NewRoot(r)][k] ELSE disk[k]]
                   ELSE disk
        /\ UNCHANGED <<root, head, marker, status, index, datas, job, feed, blkq, exec, got>>
    BY DEF RollState
  <1>3. r.rootMoves => NewRoot(r) \in DOMAIN mem
    BY <1>1 DEF IInv, RollReady
  <1> HIDE DEF r
  <1>4. disk' \in [Keys -> Seq(Content)]
    <2>1. CASE ~r.rootMoves
      BY <1>2, <2>1 DEF IInv, TypeOK
    <2>2. CASE r.rootMoves
      <3>1. IsOverlay(mem[NewRoot(r)])
        BY <1>3, <2>2 DEF IInv, TypeOK
      <3>2. \A k \in Keys : disk'[k] \in Seq(Content)
        BY <1>2, <2>2, <3>1 DEF IInv, TypeOK, IsOverlay
      <3> QED BY <1>2, <2>2, <3>2
    <2> QED BY <2>1, <2>2
  <1>5. DOMAIN mem' \subseteq DOMAIN mem /\ \A b \in DOMAIN mem' : mem'[b] = mem[b]
    BY <1>2 DEF Owned
  <1>6. \A b \in DOMAIN mem : Descends(b, root) => b \in DOMAIN mem'
    BY <1>2, OwnedKeepsTree
  <1>7. TypeOK'
    <2>1. cur' \in Seq(InsertResult) /\ Len(cur') <= 1
      BY <1>1, <1>2
    <2>2. Len(rids') <= ChanSize + 1
      BY <1>1, ChanAssumption DEF IInv, TypeOK
    <2>3. DOMAIN mem' \subseteq Seq(Content) /\ \A b \in DOMAIN mem' : IsOverlay(mem'[b])
      BY <1>5 DEF IInv, TypeOK
    <2> QED BY <1>1, <1>2, <1>4, <2>1, <2>2, <2>3 DEF IInv, TypeOK, IsOverlay
  <1>8. \A b : InTree(b) <=> InTree(b)'
    BY <1>2, <1>5, <1>6 DEF InTree
  <1>9. TreeShape'
    <2> SUFFICES ASSUME Running' PROVE TreeShape'
      BY DEF TreeShape
    <2>1. Running /\ TreeShape
      BY <1>2 DEF IInv, Running
    <2>2. ASSUME NEW b \in DOMAIN mem', InTree(b)', NEW h \in Height(root)..Height(b)
          PROVE  Ancestor(b, h) \in DOMAIN mem'
      <3>1. InTree(b) /\ b \in Seq(Content) /\ root \in Seq(Content)
        BY <1>5, <1>8, <2>2 DEF IInv, TypeOK
      <3>2. Ancestor(b, h) \in DOMAIN mem
        BY <2>1, <2>2, <3>1 DEF TreeShape, InTree
      <3>3. Descends(Ancestor(b, h), root)
        BY <3>1, AncestorDescends DEF InTree
      <3> QED BY <1>6, <3>2, <3>3
    <2> QED BY <1>2, <1>5, <1>8, <2>1, <2>2 DEF TreeShape
  <1>10. ExecFits'
    BY <1>1, <1>2, <1>8, ChanAssumption DEF IInv, ExecFits
  <1>11. RollReady'
    <2> SUFFICES ASSUME NEW i \in 1..Len(rids')
                 PROVE  /\ Height(rids'[i].blk) > rids'[i].oldRoot
                        /\ rids'[i].rootMoves => NewRoot(rids'[i]) \in DOMAIN mem'
      BY DEF RollReady, NewRoot, Ancestor, Height
    <2>1. i + 1 \in 1..Len(rids) /\ rids'[i] = rids[i + 1]
      BY <1>1
    <2>2. /\ Height(rids'[i].blk) > rids'[i].oldRoot
          /\ rids'[i].rootMoves => NewRoot(rids'[i]) \in DOMAIN mem
      BY <2>1 DEF IInv, RollReady
    <2> QED BY <1>1, <1>2, <2>2, OwnedKeepsNewRoot
  <1>12. DeadIsEmpty'
    BY <1>1, <1>2, EmptySeq DEF IInv, DeadIsEmpty, Running
  <1> QED BY <1>7, <1>9, <1>10, <1>11, <1>12 DEF IInv

\* Roller::insert: the new chunk, the new head and the new root keep the shape of the tree.
LEMMA InsertPreserves ==
    ASSUME IInv, Insert
    PROVE  IInv'
  <1> DEFINE b    == exec[1]
             c    == Payload(b)
             w    == [k \in Touch[c] |-> Append(got[k], c)]
             up   == Height(b) > Height(head)
             roll == up /\ RootFollows(b)
             res  == [blk |-> b, oldRoot |-> Height(root), rootMoves |-> roll,
                      headMoves |-> IF ~up THEN "none"
                                    ELSE IF Parent(b) = head THEN "extend" ELSE "reorg"]
             dom  == DOMAIN mem \cup {b}
  <1>1. b \in Seq(Content) /\ root \in Seq(Content) /\ head \in Seq(Content)
    <2>1. Len(exec) \in Nat /\ Len(exec) # 0
      BY EmptySeq, LenProperties DEF IInv, TypeOK, Insert
    <2> QED BY <2>1, ElementOfSeq DEF IInv, TypeOK
  <1>2. /\ Height(b) \in Nat /\ Height(root) \in Nat /\ Height(head) \in Nat
        /\ Height(b) > Height(root) /\ Height(b) <= Height(head) + 1 /\ InTree(Parent(b))
    BY <1>1, HeightType DEF IInv, ExecFits, Insert
  <1>3. Running /\ Running'
    BY DEF IInv, DeadIsEmpty, Insert, Running
  <1>4. c \in Content /\ Touch[c] \subseteq Keys
    BY <1>1, <1>2, ElementOfSeq, TouchAssumption DEF Payload, Height
  <1>5. IsOverlay(w)
    <2>1. DOMAIN got = Touch[c]
      BY DEF Insert
    <2>2. \A k \in Touch[c] : Append(got[k], c) \in Seq(Content)
      BY <1>4, <2>1, AppendProperties DEF IInv, TypeOK, IsOverlay
    <2> QED BY <1>4, <2>2 DEF IsOverlay
  <1>6. /\ head' = IF up THEN b ELSE head
        /\ root' = IF roll THEN Ancestor(b, Height(root) + 1) ELSE root
        /\ rids' = Append(rids, res)
        /\ mem' = [x \in Owned(dom, root', rids') |-> IF x = b THEN w ELSE mem[x]]
        /\ exec' = <<>> /\ got' = Empty
        /\ UNCHANGED <<durable, job, feed, blkq, cur>>
    BY DEF Insert, InsertChild, NextRoot
  <1>7. res \in InsertResult
    BY <1>1, <1>2 DEF InsertResult, RootFollows
  <1>8. roll <=> (Height(b) > Height(head) /\ Height(b) > Height(root) + Level)
    BY DEF RootFollows
  <1> HIDE DEF c, w, dom
  (* b and all its ancestors down to the root are or become chunks.        *)
  <1>9. \A h \in Height(root)..Height(b) : Ancestor(b, h) \in dom
    <2> SUFFICES ASSUME NEW h \in Height(root)..Height(b) PROVE Ancestor(b, h) \in dom
      OBVIOUS
    <2>1. CASE h = Height(b)
      BY <1>1, <2>1, AncestorSelf DEF dom
    <2>2. CASE h # Height(b)
      <3>1. Parent(b) \in Seq(Content) /\ Height(Parent(b)) = Height(b) - 1
        BY <1>1, <1>2, ParentType
      <3>2. h \in Height(root)..Height(Parent(b)) /\ h \in 0..(Height(b) - 1)
        BY <1>2, <2>2, <3>1
      <3>3. Ancestor(Parent(b), h) \in DOMAIN mem
        BY <1>2, <1>3, <3>2 DEF IInv, TreeShape, InTree
      <3>4. Ancestor(Parent(b), h) = Ancestor(b, h)
        BY <1>1, <1>2, <3>2, AncestorOfAncestor, SMTT(30) DEF Parent
      <3> QED BY <3>3, <3>4 DEF dom
    <2> QED BY <2>1, <2>2
  <1>10. Descends(b, root)
    <2>1. Parent(b) \in Seq(Content) /\ Height(Parent(b)) = Height(b) - 1
      BY <1>1, <1>2, ParentType
    <2>2. Descends(Parent(b), root)
      BY <1>2 DEF InTree
    <2>3. Descends(b, Parent(b))
      BY <1>1, <1>2, DescendsAncestor DEF Parent
    <2> QED BY <1>1, <2>1, <2>2, <2>3, DescendsTransitive
  <1>11. /\ root' \in Seq(Content) /\ root' \in dom
         /\ Height(root') = IF roll THEN Height(root) + 1 ELSE Height(root)
         /\ Descends(b, root') /\ Descends(root', root)
    <2>1. CASE roll
      <3>1. root' = Ancestor(b, Height(root) + 1) /\ Height(root) + 1 \in 0..Height(b)
            /\ Height(root) + 1 \in Height(root)..Height(b)
        BY <1>2, <1>6, <2>1
      <3> QED BY <1>1, <1>9, <1>10, <2>1, <3>1, AncestorType, DescendsAncestor, AncestorDescends
    <2>2. CASE ~roll
      <3>1. root' = root /\ root \in DOMAIN mem
        BY <1>3, <1>6, <2>2 DEF IInv, TreeShape, InTree
      <3> QED BY <1>1, <1>10, <2>2, <3>1, DescendsSelf DEF dom
    <2> QED BY <2>1, <2>2
  <1>12. head' \in Seq(Content) /\ head' \in dom /\ Height(head) <= Height(head')
         /\ Height(b) <= Height(head') /\ Descends(head', root')
    <2>1. CASE up
      BY <1>1, <1>2, <1>6, <1>11, <2>1 DEF dom
    <2>2. CASE ~up
      <3>1. head' = head /\ root' = root /\ InTree(head)
        BY <1>3, <1>6, <2>2 DEF IInv, TreeShape
      <3> QED BY <1>1, <1>2, <2>2, <3>1 DEF InTree, dom
    <2> QED BY <2>1, <2>2
  <1>13. \A x \in dom : Descends(x, root') => x \in DOMAIN mem'
    BY <1>6, OwnedKeepsTree
  <1>14. DOMAIN mem' \subseteq dom /\ dom \subseteq Seq(Content)
         /\ \A x \in DOMAIN mem' : IsOverlay(mem'[x])
    <2>1. DOMAIN mem' \subseteq dom /\ dom \subseteq Seq(Content)
      BY <1>1, <1>6 DEF Owned, dom, IInv, TypeOK
    <2>2. \A x \in DOMAIN mem' : x # b => x \in DOMAIN mem
      BY <2>1 DEF dom
    <2>3. \A x \in DOMAIN mem' : mem'[x] = IF x = b THEN w ELSE mem[x]
      BY <1>6
    <2> QED BY <1>5, <2>1, <2>2, <2>3 DEF IInv, TypeOK
  <1>15. rids' \in Seq(InsertResult) /\ Len(rids') = Len(rids) + 1 /\ Len(rids) \in Nat
         /\ rids'[Len(rids) + 1] = res /\ \A i \in 1..Len(rids) : rids'[i] = rids[i]
    BY <1>6, <1>7, AppendProperties, LenProperties DEF IInv, TypeOK
  <1>16. TypeOK'
    <2>1. Len(rids') <= ChanSize + 1
      BY <1>15, ChanAssumption DEF IInv, ExecFits, Insert
    <2>2. exec' \in Seq(Seq(Content)) /\ Len(exec') <= 1 /\ IsOverlay(got')
      BY <1>6, EmptySeq DEF IsOverlay, Empty
    <2> HIDE DEF b, up, roll, res
    <2> QED BY <1>6, <1>11, <1>12, <1>14, <1>15, <2>1, <2>2 DEF IInv, TypeOK, durable
  <1>17. TreeShape'
    <2>1. InTree(root)' /\ InTree(head)'
      BY <1>11, <1>12, <1>13, DescendsSelf DEF InTree
    <2>2. Height(head') <= Height(root') + Level
      <3>1. Height(head) <= Height(root) + Level
        BY <1>3 DEF IInv, TreeShape
      <3> QED BY <1>2, <1>6, <1>8, <1>11, <3>1, LevelAssumption
    <2>3. ASSUME NEW x \in DOMAIN mem', Descends(x, root')
          PROVE  /\ Height(x) <= Height(head')
                 /\ \A h \in Height(root')..Height(x) : Ancestor(x, h) \in DOMAIN mem'
      <3>1. x \in dom /\ x \in Seq(Content) /\ Height(x) \in Nat
        BY <1>14, HeightType
      <3>2. Descends(x, root)
        BY <1>1, <1>11, <2>3, <3>1, DescendsTransitive
      <3>3. Height(x) <= Height(head') /\ \A h \in Height(root)..Height(x) : Ancestor(x, h) \in dom
        <4>1. CASE x = b
          BY <1>9, <1>12, <4>1
        <4>2. CASE x # b
          <5>1. InTree(x)
            BY <3>1, <3>2, <4>2 DEF InTree, dom
          <5>2. Height(x) <= Height(head) /\ \A h \in Height(root)..Height(x) : Ancestor(x, h) \in DOMAIN mem
            BY <1>3, <5>1 DEF IInv, TreeShape, InTree
          <5> QED BY <1>2, <1>12, <3>1, <5>2, HeightType DEF dom
        <4> QED BY <4>1, <4>2
      <3>4. ASSUME NEW h \in Height(root')..Height(x)
            PROVE  Ancestor(x, h) \in DOMAIN mem'
        <4>1. Ancestor(x, h) \in dom
          BY <1>2, <1>11, <3>1, <3>3, <3>4
        <4>2. Descends(Ancestor(x, h), root')
          BY <1>11, <2>3, <3>1, <3>4, AncestorDescends
        <4> QED BY <1>13, <4>1, <4>2
      <3> QED BY <3>3, <3>4
    <2> QED BY <2>1, <2>2, <2>3 DEF TreeShape, InTree
  <1>18. RollReady'
    <2> SUFFICES ASSUME NEW i \in 1..Len(rids')
                 PROVE  /\ Height(rids'[i].blk) > rids'[i].oldRoot
                        /\ rids'[i].rootMoves => NewRoot(rids'[i]) \in DOMAIN mem'
      BY DEF RollReady, NewRoot, Ancestor, Height
    <2>1. CASE i = Len(rids) + 1
      <3>1. rids'[i] = res
        BY <1>15, <2>1
      <3>2. roll => NewRoot(res) = root'
        BY <1>6 DEF NewRoot
      <3>3. root' \in DOMAIN mem'
        BY <1>11, <1>13, DescendsSelf
      <3>4. res.blk = b /\ res.oldRoot = Height(root) /\ (res.rootMoves <=> roll)
        OBVIOUS
      <3> HIDE DEF res, roll, b
      <3> QED BY <1>2, <3>1, <3>2, <3>3, <3>4
    <2>2. CASE i # Len(rids) + 1
      <3>1. i \in 1..Len(rids) /\ rids'[i] = rids[i]
        BY <1>15, <2>2
      <3>2. /\ Height(rids'[i].blk) > rids'[i].oldRoot
            /\ rids'[i].rootMoves => NewRoot(rids'[i]) \in dom
        BY <3>1 DEF IInv, RollReady, dom
      <3> QED BY <1>6, <1>15, <3>2, OwnedKeepsNewRoot
    <2> QED BY <2>1, <2>2
  <1>19. ExecFits' /\ DeadIsEmpty'
    BY <1>3, <1>6 DEF ExecFits, DeadIsEmpty
  <1> QED BY <1>16, <1>17, <1>18, <1>19 DEF IInv
-----------------------------------------------------------------------------
\* Before the first start the invariant holds: there is no process.
LEMMA InitIInv == Init => IInv
  <1> SUFFICES ASSUME Init PROVE IInv
    OBVIOUS
  <1>1. ~Running
    BY DEF Init, Running
  <1>2. TypeOK
    BY EmptySeq, ChanAssumption DEF Init, TypeOK, Genesis, Empty, InitDisk, IsOverlay
  <1> QED BY <1>1, <1>2, EmptySeq DEF Init, IInv, TreeShape, ExecFits, RollReady, DeadIsEmpty

\* Every step of the engine preserves the invariant, one case per action.
LEMMA NextIInv == IInv /\ [Next]_vars => IInv'
  <1> SUFFICES ASSUME IInv, [Next]_vars PROVE IInv'
    OBVIOUS
  <1>1. CASE Open
    BY <1>1, OpenPreserves
  <1>2. CASE \E b \in Chains : Discover(b)
    BY <1>2, DiscoverPreserves
  <1>3. CASE \E b \in Chains : \E h \in 1..Height(b) : Synchronize(b, h)
    BY <1>3, SynchronizePreserves
  <1>4. CASE Parse
    BY <1>4, ParsePreserves
  <1>5. CASE ExecBegin
    BY <1>5, ExecBeginPreserves
  <1>6. CASE \E k \in Keys : ExecRead(k)
    BY <1>6, ExecReadPreserves
  <1>7. CASE Insert
    BY <1>7, InsertPreserves
  <1>8. CASE Refuse
    BY <1>8, HaltPreserves, InsertFailPreserves DEF Refuse
  <1>9. CASE Reject
    BY <1>9, InsertFailPreserves DEF Reject
  <1>10. CASE RollState
    BY <1>10, RollStatePreserves
  <1>11. CASE RollStore
    BY <1>11, RollStorePreserves
  <1>12. CASE Finish
    BY <1>12, FinishPreserves
  <1>13. CASE Crash
    BY <1>13, HaltPreserves DEF Crash, Stop
  <1>14. CASE LoseState
    BY <1>14, LoseStatePreserves
  <1>15. CASE UNCHANGED vars
    <2>1. TypeOK'
      BY <1>15 DEF IInv, TypeOK, vars, tree, durable, pipeline
    <2>2. Running' <=> Running
      BY <1>15 DEF Running, vars, pipeline
    <2> QED BY <1>15, <2>1, <2>2, FramePreserves DEF IInv, vars, tree, pipeline
  <1> QED BY <1>1, <1>2, <1>3, <1>4, <1>5, <1>6, <1>7, <1>8, <1>9, <1>10, <1>11,
             <1>12, <1>13, <1>14, <1>15 DEF Next, Work, Arrive

\* The inductive invariant holds in every reachable state of the engine.
THEOREM EngineInvariant == Spec => []IInv
  BY InitIInv, NextIInv, PTL DEF Spec

(* The engine's variables keep their types: no execution reads, and no     *)
(* roll writes, anything but values, and the channels keep their capacity. *)
THEOREM TypeCorrect == Spec => []TypeOK
  <1>1. IInv => TypeOK
    BY DEF IInv
  <1> QED BY <1>1, EngineInvariant, PTL

(* The fork tree is well formed in every reachable state: the head hangs   *)
(* below the root, at most Level above it, and no chunk of the tree ever   *)
(* loses an ancestor it needs, whatever old roots are released when.       *)
THEOREM TreeWellFormed == Spec => []TreeShape
  <1>1. IInv => TreeShape
    BY DEF IInv
  <1> QED BY <1>1, EngineInvariant, PTL
-----------------------------------------------------------------------------
(* Replaying a chain.                                                      *)

\* A block is its payload on top of its parent.
LEMMA BlockIsAppend ==
    ASSUME NEW b \in Seq(Content), Height(b) > 0
    PROVE  /\ Parent(b) \in Seq(Content) /\ Payload(b) \in Content
           /\ b = Append(Parent(b), Payload(b))
  <1>1. Height(b) \in Nat /\ Parent(b) \in Seq(Content) /\ Height(Parent(b)) = Height(b) - 1
        /\ \A i \in 1..(Height(b) - 1) : Parent(b)[i] = b[i]
    BY HeightType, AncestorType, SMTT(30) DEF Parent
  <1>2. Payload(b) \in Content
    BY <1>1, ElementOfSeq DEF Payload, Height
  <1> DEFINE p == Parent(b)
             a == Append(p, Payload(b))
  <1>3. /\ a \in Seq(Content) /\ Len(a) = Len(p) + 1
        /\ \A i \in 1..Len(p) : a[i] = p[i]
        /\ a[Len(p) + 1] = Payload(b)
    BY <1>1, <1>2, AppendProperties
  <1>4. Len(p) = Len(b) - 1 /\ Len(b) \in Nat /\ \A i \in 1..(Len(b) - 1) : p[i] = b[i]
    BY <1>1 DEF Height
  <1>5. Payload(b) = b[Len(b)]
    BY DEF Payload, Height
  <1> HIDE DEF p, a
  <1>6. Len(a) = Len(b) /\ \A i \in 1..Len(b) : a[i] = b[i]
    <2>1. Len(a) = Len(b)
      BY <1>3, <1>4
    <2>2. ASSUME NEW i \in 1..Len(b) PROVE a[i] = b[i]
      <3>1. CASE i = Len(b)
        BY <1>3, <1>4, <1>5, <3>1
      <3>2. CASE i # Len(b)
        <4>1. i \in 1..(Len(b) - 1)
          BY <1>4, <3>2
        <4> QED BY <1>3, <1>4, <4>1
      <3> QED BY <3>1, <3>2
    <2> QED BY <2>1, <2>2
  <1>7. a = b
    BY <1>3, <1>6, SeqEqual
  <1> QED BY <1>1, <1>2, <1>7 DEF a, p

\* The values that replaying a chain gives are logs of contents.
LEMMA ReplayType ==
    ASSUME NEW b \in Seq(Content), NEW k
    PROVE  Replay(b, k) \in Seq(Content)
  BY FilterType DEF Replay

\* Replaying one more block appends its content to the keys it touches.
LEMMA ReplayNext ==
    ASSUME NEW b \in Seq(Content), Height(b) > 0, NEW k
    PROVE  Replay(b, k) = IF k \in Touch[Payload(b)]
                          THEN Append(Replay(Parent(b), k), Payload(b))
                          ELSE Replay(Parent(b), k)
  <1> DEFINE p == Parent(b)
             x == Payload(b)
             K == {c \in Content : k \in Touch[c]}
  <1>1. p \in Seq(Content) /\ x \in Content /\ b = Append(p, x)
    BY BlockIsAppend
  <1>2. x \in K <=> k \in Touch[x]
    BY <1>1
  <1>3. Filter(Append(p, x), K) = IF x \in K THEN Append(Filter(p, K), x) ELSE Filter(p, K)
    <2> HIDE DEF p, x, K
    <2> QED BY <1>1, FilterAppend
  <1>4. Filter(b, K) = Filter(Append(p, x), K)
    BY <1>1
  <1> HIDE DEF p, x
  <1>5. Filter(b, K) = IF k \in Touch[x] THEN Append(Filter(p, K), x) ELSE Filter(p, K)
    BY <1>2, <1>3, <1>4
  <1> QED BY <1>5 DEF Replay, p, x

(* Blocks that do not touch a key leave its value alone.                   *)
LEMMA ReplayStill ==
    ASSUME NEW b \in Seq(Content), NEW k, NEW i \in 0..Height(b), NEW j \in i..Height(b),
           \A h \in (i + 1)..j : k \notin Touch[Payload(Ancestor(b, h))]
    PROVE  Replay(Ancestor(b, j), k) = Replay(Ancestor(b, i), k)
  <1>0. Height(b) \in Nat /\ i \in Nat /\ j \in Nat /\ i <= j /\ j <= Height(b)
    BY HeightType
  <1> DEFINE P == {n \in Nat : i + n <= j => Replay(Ancestor(b, i + n), k) = Replay(Ancestor(b, i), k)}
  <1>1. 0 \in P
    BY <1>0
  <1>2. ASSUME NEW n \in P PROVE n + 1 \in P
    <2> SUFFICES ASSUME i + (n + 1) <= j
                 PROVE  Replay(Ancestor(b, i + (n + 1)), k) = Replay(Ancestor(b, i), k)
      BY <1>2
    <2> DEFINE h == i + (n + 1)
               a == Ancestor(b, h)
    <2>1. n \in Nat /\ h \in (i + 1)..j /\ h \in 0..Height(b) /\ i + n \in 0..h /\ h - 1 = i + n
      BY <1>0
    <2>2. Replay(Ancestor(b, i + n), k) = Replay(Ancestor(b, i), k)
      BY <1>0, <2>1
    <2> HIDE DEF h
    <2>3. a \in Seq(Content) /\ Height(a) = h
      BY <2>1, AncestorType
    <2>4. Parent(a) = Ancestor(b, i + n)
      BY <2>1, <2>3, AncestorOfAncestor DEF Parent
    <2>5. k \notin Touch[Payload(a)]
      BY <2>1
    <2> HIDE DEF a
    <2>6. Replay(a, k) = Replay(Parent(a), k)
      BY <1>0, <2>1, <2>3, <2>5, ReplayNext
    <2> QED BY <2>2, <2>4, <2>6 DEF a, h
  <1>3. P \subseteq Nat
    OBVIOUS
  <1> HIDE DEF P
  <1>4. P = Nat
    BY <1>1, <1>2, <1>3, NatSetInduction
  <1>5. j - i \in P /\ i + (j - i) = j
    BY <1>0, <1>4
  <1> QED BY <1>0, <1>5 DEF P
-----------------------------------------------------------------------------
(* The results on their way from the insert thread to the roll thread lead *)
(* from the root and head that are already rolled to those of the tree.    *)

Points == [root : Seq(Content), head : Seq(Content)]
Now    == [root |-> root, head |-> head]
Saved  == [root |-> StoreBlock(status.root), head |-> StoreBlock(status.last)]

\* The head hangs below the root, at most Level above it.
Close(s) == Descends(s.head, s.root) /\ Height(s.head) <= Height(s.root) + Level

\* Result r is one that Roller::insert gives on a tree with root and head s.
Fits(s, r) ==
    /\ r.oldRoot = Height(s.root) /\ Height(r.blk) > r.oldRoot /\ Descends(r.blk, s.root)
    /\ r.headMoves # "none" => Height(r.blk) = Height(s.head) + 1
    /\ r.headMoves = "extend" => Parent(r.blk) = s.head
    /\ r.rootMoves <=> (r.headMoves # "none" /\ Height(r.blk) > Height(s.root) + Level)

\* The root and head after result r.
Moved(s, r) == [root |-> IF r.rootMoves THEN NewRoot(r) ELSE s.root,
                head |-> IF r.headMoves = "none" THEN s.head ELSE r.blk]

Walks(f, s, rs, t) ==
    /\ f[0] = s /\ f[Len(rs)] = t
    /\ \A i \in 1..Len(rs) : Fits(f[i - 1], rs[i]) /\ f[i] = Moved(f[i - 1], rs[i])

\* The results rs lead from s to t.
Leads(s, rs, t) == \E f \in [0..Len(rs) -> Points] : Walks(f, s, rs, t)

\* The ancestor of a result's block at the height of the old root is the old root.
LEMMA FitsOldRoot ==
    ASSUME NEW s \in Points, NEW r \in InsertResult, Fits(s, r)
    PROVE  Ancestor(r.blk, r.oldRoot) = s.root
  BY DEF Fits, Descends

\* The root moves by one block or stays.
LEMMA MovedType ==
    ASSUME NEW s \in Points, NEW r \in InsertResult, Fits(s, r)
    PROVE  /\ Moved(s, r) \in Points
           /\ Height(Moved(s, r).root) = RealRoot(r)
           /\ Descends(Moved(s, r).root, s.root)
           /\ Descends(r.blk, Moved(s, r).root)
  <1>1. /\ s.root \in Seq(Content) /\ s.head \in Seq(Content) /\ r.blk \in Seq(Content)
        /\ Height(s.root) \in Nat /\ Height(r.blk) \in Nat
        /\ r.oldRoot = Height(s.root) /\ Height(r.blk) > Height(s.root) /\ Descends(r.blk, s.root)
    BY HeightType DEF Points, InsertResult, Fits
  <1>2. CASE r.rootMoves
    <2>1. Height(s.root) + 1 \in 0..Height(r.blk) /\ Height(s.root) + 1 \in Height(s.root)..Height(r.blk)
      BY <1>1
    <2>2. NewRoot(r) \in Seq(Content) /\ Height(NewRoot(r)) = Height(s.root) + 1
          /\ Descends(NewRoot(r), s.root) /\ Descends(r.blk, NewRoot(r))
      BY <1>1, <2>1, AncestorType, AncestorDescends, DescendsAncestor DEF NewRoot
    <2> QED BY <1>1, <1>2, <2>2 DEF Moved, Points, RealRoot
  <1>3. CASE ~r.rootMoves
    BY <1>1, <1>3, DescendsSelf DEF Moved, Points, RealRoot
  <1> QED BY <1>2, <1>3

\* Every result in a line was made on the root and head that it starts from.
LEMMA WalksFits ==
    ASSUME NEW rs \in Seq(InsertResult), NEW f \in [0..Len(rs) -> Points], NEW s, NEW t,
           Walks(f, s, rs, t), NEW i \in 1..Len(rs)
    PROVE  /\ rs[i] \in InsertResult /\ i - 1 \in 0..Len(rs) /\ f[i - 1] \in Points /\ f[i] \in Points
           /\ Fits(f[i - 1], rs[i]) /\ f[i] = Moved(f[i - 1], rs[i])
  BY LenProperties, ElementOfSeq DEF Walks

\* No result leads nowhere.
LEMMA LeadsEmpty ==
    ASSUME NEW s \in Points, NEW t
    PROVE  Leads(s, <<>>, t) <=> s = t
  <1>1. ASSUME s = t PROVE Leads(s, <<>>, t)
    <2> DEFINE f == [i \in 0..0 |-> s]
    <2>1. f \in [0..Len(<<>>) -> Points] /\ Walks(f, s, <<>>, t)
      BY <1>1 DEF Walks
    <2> QED BY <2>1 DEF Leads
  <1>2. ASSUME Leads(s, <<>>, t) PROVE s = t
    BY <1>2 DEF Leads, Walks
  <1> QED BY <1>1, <1>2

\* An insertion adds its result at the end.
LEMMA LeadsAppend ==
    ASSUME NEW s \in Points, NEW rs \in Seq(InsertResult), NEW t \in Points, Leads(s, rs, t),
           NEW r \in InsertResult, Fits(t, r)
    PROVE  Leads(s, Append(rs, r), Moved(t, r))
  <1> DEFINE n == Len(rs)
             qs == Append(rs, r)
             u == Moved(t, r)
  <1>1. PICK f \in [0..n -> Points] : Walks(f, s, rs, t)
    BY DEF Leads
  <1>2. n \in Nat /\ Len(qs) = n + 1 /\ qs[n + 1] = r /\ \A i \in 1..n : qs[i] = rs[i]
    BY AppendProperties, LenProperties
  <1>3. u \in Points
    BY MovedType
  <1> DEFINE g == [i \in 0..(n + 1) |-> IF i = n + 1 THEN u ELSE f[i]]
  <1>4. g \in [0..Len(qs) -> Points]
    <2> HIDE DEF u, qs
    <2> QED BY <1>2, <1>3
  <1>5. g[0] = s /\ g[n] = t /\ g[Len(qs)] = u /\ \A i \in 0..n : g[i] = f[i]
    <2> HIDE DEF u, qs
    <2> QED BY <1>1, <1>2 DEF Walks
  <1>6. ASSUME NEW i \in 1..Len(qs)
        PROVE  Fits(g[i - 1], qs[i]) /\ g[i] = Moved(g[i - 1], qs[i])
    <2>1. CASE i = n + 1
      <3>1. i - 1 = n /\ qs[i] = r /\ g[i - 1] = t /\ g[i] = u
        <4> HIDE DEF g, u, qs
        <4> QED BY <1>2, <1>5, <2>1
      <3> QED BY <3>1
    <2>2. CASE i # n + 1
      <3>1. i \in 1..n /\ i - 1 \in 0..n /\ i \in 0..n
        BY <1>2, <2>2
      <3>2. qs[i] = rs[i] /\ g[i] = f[i] /\ g[i - 1] = f[i - 1]
        <4> HIDE DEF g, u, qs
        <4> QED BY <1>2, <1>5, <3>1
      <3>3. Fits(f[i - 1], rs[i]) /\ f[i] = Moved(f[i - 1], rs[i])
        BY <1>1, <3>1 DEF Walks
      <3> HIDE DEF g, qs
      <3> QED BY <3>2, <3>3
    <2> QED BY <2>1, <2>2
  <1> HIDE DEF g, u, qs
  <1>7. Walks(g, s, qs, u)
    BY <1>5, <1>6 DEF Walks
  <1> QED BY <1>4, <1>7 DEF Leads, qs, u

\* The roll thread takes the first result.
LEMMA LeadsTail ==
    ASSUME NEW s \in Points, NEW rs \in Seq(InsertResult), rs # <<>>, NEW t, Leads(s, rs, t)
    PROVE  /\ Head(rs) \in InsertResult /\ Fits(s, Head(rs))
           /\ Moved(s, Head(rs)) \in Points
           /\ Tail(rs) \in Seq(InsertResult)
           /\ Leads(Moved(s, Head(rs)), Tail(rs), t)
  <1> DEFINE n == Len(rs)
             qs == Tail(rs)
             u == Moved(s, Head(rs))
  <1>1. PICK f \in [0..n -> Points] : Walks(f, s, rs, t)
    BY DEF Leads
  <1>2. /\ n \in Nat /\ n > 0 /\ qs \in Seq(InsertResult) /\ Len(qs) = n - 1
        /\ Head(rs) = rs[1] /\ Head(rs) \in InsertResult
        /\ \A i \in 1..(n - 1) : qs[i] = rs[i + 1]
    BY HeadTailProperties, LenProperties, EmptySeq
  <1>3. Fits(s, Head(rs)) /\ f[1] = u
    BY <1>1, <1>2 DEF Walks
  <1>4. u \in Points
    BY <1>2, <1>3, MovedType
  <1> DEFINE g == [i \in 0..(n - 1) |-> f[i + 1]]
  <1>5. g \in [0..Len(qs) -> Points] /\ \A i \in 0..(n - 1) : g[i] = f[i + 1]
    <2> HIDE DEF qs
    <2> QED BY <1>2
  <1>6. g[0] = u /\ g[Len(qs)] = t
    <2> HIDE DEF qs, u
    <2>1. 0 \in 0..(n - 1) /\ n - 1 \in 0..(n - 1) /\ (n - 1) + 1 = n /\ 0 + 1 = 1
      BY <1>2
    <2>2. f[n] = t
      BY <1>1 DEF Walks
    <2> HIDE DEF g
    <2> QED BY <1>2, <1>3, <1>5, <2>1, <2>2
  <1>7. ASSUME NEW i \in 1..Len(qs)
        PROVE  Fits(g[i - 1], qs[i]) /\ g[i] = Moved(g[i - 1], qs[i])
    <2> HIDE DEF g, qs
    <2>1. i \in 0..(n - 1) /\ i - 1 \in 0..(n - 1) /\ i + 1 \in 1..n /\ (i - 1) + 1 = i /\ (i + 1) - 1 = i
          /\ i \in 1..(n - 1)
      BY <1>2
    <2>2. g[i] = f[i + 1] /\ g[i - 1] = f[i] /\ qs[i] = rs[i + 1]
      BY <1>2, <1>5, <2>1
    <2>3. Fits(f[i], rs[i + 1]) /\ f[i + 1] = Moved(f[i], rs[i + 1])
      BY <1>1, <2>1 DEF Walks
    <2> QED BY <2>2, <2>3
  <1> HIDE DEF g, qs, u
  <1>8. Walks(g, u, qs, t)
    BY <1>6, <1>7 DEF Walks
  <1>9. Leads(u, qs, t)
    BY <1>5, <1>8 DEF Leads
  <1> QED BY <1>2, <1>3, <1>4, <1>9 DEF qs, u

(* All roots and blocks of a line descend from the root it starts at, and  *)
(* that root is the last one or is held by one of the results.             *)
LEMMA LeadsClimbs ==
    ASSUME NEW s \in Points, NEW rs \in Seq(InsertResult), NEW t \in Points, Leads(s, rs, t)
    PROVE  /\ Descends(t.root, s.root)
           /\ \A i \in 1..Len(rs) : /\ Descends(rs[i].blk, s.root)
                                    /\ \A o \in OldRootHold(rs[i]) : o \in Seq(Content) /\ Descends(o, s.root)
           /\ t.root = s.root \/ \E i \in 1..Len(rs) : s.root \in OldRootHold(rs[i])
  <1> DEFINE n == Len(rs)
  <1>1. PICK f \in [0..n -> Points] : Walks(f, s, rs, t)
    BY DEF Leads
  <1>2. n \in Nat
    BY LenProperties
  <1> DEFINE P == {m \in Nat : m <= n =>
                      /\ Descends(f[m].root, s.root)
                      /\ f[m].root = s.root \/ \E i \in 1..m : s.root \in OldRootHold(rs[i])}
  <1>3. 0 \in P
    <2>1. f[0] = s /\ s.root \in Seq(Content)
      BY <1>1 DEF Walks, Points
    <2> QED BY <2>1, DescendsSelf
  <1>4. ASSUME NEW m \in P PROVE m + 1 \in P
    <2> SUFFICES ASSUME m + 1 <= n
                 PROVE  /\ Descends(f[m + 1].root, s.root)
                        /\ f[m + 1].root = s.root \/ \E i \in 1..(m + 1) : s.root \in OldRootHold(rs[i])
      BY <1>4
    <2> DEFINE r == rs[m + 1]
               u == f[m]
               v == f[m + 1]
    <2>1. m \in Nat /\ m + 1 \in 1..n /\ m \in 0..n /\ (m + 1) - 1 = m
      BY <1>2
    <2>2. r \in InsertResult /\ u \in Points /\ v \in Points /\ Fits(u, r) /\ v = Moved(u, r)
      <3>1. /\ rs[m + 1] \in InsertResult /\ f[(m + 1) - 1] \in Points /\ f[m + 1] \in Points
            /\ Fits(f[(m + 1) - 1], rs[m + 1]) /\ f[m + 1] = Moved(f[(m + 1) - 1], rs[m + 1])
        BY <1>1, <2>1, WalksFits
      <3> QED BY <2>1, <3>1
    <2>3. Descends(u.root, s.root) /\ (u.root = s.root \/ \E i \in 1..m : s.root \in OldRootHold(rs[i]))
      BY <1>2, <2>1
    <2> HIDE DEF P
    <2>4. Descends(v.root, u.root)
      <3> HIDE DEF u, v, r
      <3> QED BY <2>2, MovedType
    <2>5. Descends(v.root, s.root)
      <3> HIDE DEF u, v, r
      <3> QED BY <2>2, <2>3, <2>4, DescendsTransitive DEF Points
    <2>6. ASSUME v.root # s.root PROVE \E i \in 1..(m + 1) : s.root \in OldRootHold(rs[i])
      <3>1. CASE u.root # s.root
        <4>1. \A i \in 1..m : i \in 1..(m + 1)
          BY <2>1
        <4> QED BY <2>3, <3>1, <4>1
      <3>2. CASE u.root = s.root
        <4>1. r.rootMoves
          <5> HIDE DEF u, v, r
          <5> QED BY <2>2, <2>6, <3>2 DEF Moved
        <4>2. Ancestor(r.blk, r.oldRoot) = s.root
          <5> HIDE DEF u, v, r
          <5> QED BY <2>2, <3>2, FitsOldRoot
        <4>3. s.root \in OldRootHold(r)
          BY <4>1, <4>2 DEF OldRootHold
        <4>4. m + 1 \in 1..(m + 1)
          BY <2>1
        <4> QED BY <4>3, <4>4
      <3> QED BY <3>1, <3>2
    <2> QED BY <2>5, <2>6
  <1>5. P \subseteq Nat
    OBVIOUS
  <1>6. P = Nat
    <2> HIDE DEF P
    <2> QED BY <1>3, <1>4, <1>5, NatSetInduction
  <1>7. \A m \in 0..n : /\ Descends(f[m].root, s.root)
                        /\ f[m].root = s.root \/ \E i \in 1..m : s.root \in OldRootHold(rs[i])
    BY <1>2, <1>6
  <1> HIDE DEF P
  <1>8. Descends(t.root, s.root) /\ (t.root = s.root \/ \E i \in 1..n : s.root \in OldRootHold(rs[i]))
    <2>1. n \in 0..n /\ f[n] = t
      BY <1>1, <1>2 DEF Walks
    <2> QED BY <1>7, <2>1
  <1>9. ASSUME NEW i \in 1..n
        PROVE  /\ Descends(rs[i].blk, s.root)
               /\ \A o \in OldRootHold(rs[i]) : o \in Seq(Content) /\ Descends(o, s.root)
    <2> DEFINE r == rs[i]
               u == f[i - 1]
    <2>1. r \in InsertResult /\ u \in Points /\ Fits(u, r) /\ i - 1 \in 0..n
      BY <1>1, WalksFits
    <2>2. Descends(u.root, s.root)
      BY <1>7, <2>1
    <2>3. Descends(r.blk, u.root) /\ Ancestor(r.blk, r.oldRoot) = u.root
      <3> HIDE DEF u, r
      <3> QED BY <2>1, FitsOldRoot DEF Fits
    <2>4. r.blk \in Seq(Content) /\ u.root \in Seq(Content) /\ s.root \in Seq(Content)
      <3> HIDE DEF u, r
      <3> QED BY <2>1 DEF Points, InsertResult
    <2>5. Descends(r.blk, s.root)
      <3> HIDE DEF u, r
      <3> QED BY <2>2, <2>3, <2>4, DescendsTransitive
    <2>6. \A o \in OldRootHold(r) : o = u.root
      BY <2>3 DEF OldRootHold
    <2> HIDE DEF u
    <2> QED BY <2>2, <2>4, <2>5, <2>6
  <1> QED BY <1>8, <1>9
-----------------------------------------------------------------------------
(* The invariant of the stores.  A stop between the two writes of roll_by  *)
(* spoils the states of later blocks but not their order: SInv("exact") is *)
(* the invariant of Spec, SInv of anything else leaves the values out and  *)
(* is the one of CrashSpec.                                                *)

\* Either the root is genesis or the head is exactly Level above it.
Exact(s) == Height(s.root) = 0 \/ Height(s.head) = Height(s.root) + Level

\* The blocks of the result being rolled and of the first n waiting ones.
Before(n) == (IF cur = <<>> THEN {} ELSE {cur[1].blk}) \cup {rids[j].blk : j \in 1..n}

\* The waiting results lead from d to the tree, and the state db holds the state of d's root.
Rolled(v, d) ==
    /\ Leads(d, rids, Now)
    /\ v = "exact" => \A k \in Keys : disk[k] = Replay(d.root, k)

\* All chunks hang below d's root through chunks whose overlays are complete.
Chunks(d) ==
    \A b \in DOMAIN mem :
        /\ Descends(b, d.root)
        /\ \A h \in Height(d.root)..Height(b) : Ancestor(b, h) \in DOMAIN mem
        /\ Height(b) > Height(d.root) => DOMAIN mem[b] = Touch[Payload(b)]

\* The chain of block b from d's root up to below b is stored or is among bs.
ChainStored(d, b, bs) ==
    /\ b \in DOMAIN mem
    /\ \A h \in 1..(Height(b) - 1) : h >= Height(d.root) => Ancestor(b, h) \in datas \cup bs

\* A block whose result is rolled finds its ancestors in the store.
Written(d) ==
    /\ \A i \in 1..Len(cur) : ChainStored(d, cur[i].blk, {})
    /\ \A i \in 1..Len(rids) : ChainStored(d, rids[i].blk, Before(i - 1))

\* The store is at d, or the result being rolled leads it there; a restart
\* that found its state directory keeps the stored root.
Follows(d) ==
    /\ ~Rebuilding => IF cur = <<>> THEN d = Saved
                                    ELSE Fits(Saved, cur[1]) /\ d = Moved(Saved, cur[1])
    /\ job = "rebuild" => d.root = Saved.root /\ root = Saved.root

DiskHolds(v) == Running => \E d \in Points : Rolled(v, d) /\ Chunks(d) /\ Written(d) /\ Follows(d)

\* The data of every chunk is stored or about to be.
DataKept == \A b \in DOMAIN mem : Height(b) > 0 => b \in datas \cup Before(Len(rids))

Overlaid(v) ==
    v = "exact" => \A b \in DOMAIN mem : \A k \in DOMAIN mem[b] : mem[b][k] = Replay(b, k)

ReadRight(v) ==
    v = "exact" /\ exec # <<>> => \A k \in DOMAIN got : got[k] = Replay(Parent(exec[1]), k)

\* A restart executes the indexed chain above its root in order, up to the last block.
Refeeds ==
    Rebuilding =>
        LET tip == Saved.head
            n   == Height(head)
            e   == Len(exec)
            q   == Len(blkq)
        IN  /\ Descends(tip, head)
            /\ \A i \in 1..e : exec[i] = Ancestor(tip, n + i)
            /\ \A i \in 1..q : blkq[i] = Ancestor(tip, n + e + i)
            /\ \A i \in 1..Len(feed) : feed[i] = Ancestor(tip, n + e + q + i)
            /\ n + e + q + Len(feed) = status.last
            /\ Before(Len(rids)) \subseteq datas
            /\ job = "rebuild_all" => marker /\ Exact(Now)

Quiet ==
    /\ job = "idle" => feed = <<>> /\ blkq = <<>> /\ exec = <<>> /\ rids = <<>> /\ cur = <<>>
    /\ ~Running => cur = <<>>

DownDisk(v) ==
    v = "exact" /\ job = "down" => marker \/ \A k \in Keys : disk[k] = Replay(Saved.root, k)

SInv(v) ==
    /\ StoreLinked /\ Exact(Saved) /\ DiskHolds(v) /\ DataKept /\ Overlaid(v) /\ ReadRight(v)
    /\ Refeeds /\ Quiet /\ DownDisk(v) /\ NeverPanics

\* The indexed blocks have the height they are indexed at.
LEMMA SavedType ==
    ASSUME TypeOK, StoreLinked
    PROVE  /\ Saved \in Points /\ status.root \in Nat /\ status.last \in Nat
           /\ Height(Saved.root) = status.root /\ Height(Saved.head) = status.last
           /\ Descends(Saved.head, Saved.root)
           /\ \A h \in 1..status.last : index[h] = Ancestor(Saved.head, h) /\ index[h] \in datas
           /\ \A h \in 1..status.last : index[h] \in Seq(Content) /\ Height(index[h]) = h
  <1>1. status.root \in Nat /\ status.last \in Nat /\ status.root <= status.last
        /\ DOMAIN index = 1..status.last
    BY DEF TypeOK, StoreLinked
  <1>2. \A h \in 1..status.last : /\ index[h] \in Seq(Content) /\ index[h] \in datas
                                  /\ index[h] = Ancestor(index[status.last], h)
    BY <1>1 DEF TypeOK, StoreLinked
  <1>3. Genesis \in Seq(Content) /\ Height(Genesis) = 0
    BY EmptySeq DEF Genesis, Height
  <1>4. CASE status.last = 0
    <2>1. Saved.root = Genesis /\ Saved.head = Genesis
      BY <1>1, <1>4 DEF Saved, StoreBlock
    <2>2. Saved \in Points
      BY <1>3, <2>1 DEF Saved, Points
    <2>3. Descends(Genesis, Genesis)
      BY <1>3, DescendsSelf
    <2> QED BY <1>1, <1>3, <1>4, <2>1, <2>2, <2>3
  <1>5. CASE status.last > 0
    <2> DEFINE tip == index[status.last]
    <2>1. status.last \in 1..status.last
      BY <1>1, <1>5
    <2>2. tip \in Seq(Content) /\ tip = Ancestor(tip, status.last) /\ Height(tip) \in Nat
      BY <1>2, <2>1, HeightType
    <2> HIDE DEF tip
    <2>3. status.last <= Height(tip)
      \* a prefix longer than the block would not be the block
      <3> SUFFICES ASSUME status.last > Height(tip) PROVE FALSE
        BY <1>1, <2>2
      <3>1. DOMAIN tip = 1..Height(tip)
        BY <2>2, LenProperties DEF Height
      <3>2. DOMAIN Ancestor(tip, status.last) = 1..status.last
        BY <1>1, <2>2 DEF Ancestor
      <3> QED BY <1>1, <2>2, <3>1, <3>2
    <2>4. \A h \in 0..status.last : h \in 0..Height(tip)
      BY <1>1, <2>2, <2>3
    <2>5. Height(tip) = status.last
      BY <1>1, <2>2, <2>4, AncestorType
    <2>6. Saved.head = tip
      BY <1>5 DEF Saved, StoreBlock, tip
    <2>7. Saved.root = Ancestor(tip, status.root) /\ Saved.root \in Seq(Content)
          /\ Height(Saved.root) = status.root
      <3>1. CASE status.root = 0
        <4>1. Saved.root = Genesis
          BY <3>1 DEF Saved, StoreBlock
        <4>2. Ancestor(tip, 0) \in Seq(Content) /\ Height(Ancestor(tip, 0)) = 0
          BY <1>1, <2>2, <2>4, AncestorType
        <4>3. Ancestor(tip, 0) = <<>>
          BY <4>2, EmptySeq DEF Height
        <4> QED BY <1>3, <3>1, <4>1, <4>3 DEF Genesis
      <3>2. CASE status.root # 0
        <4>1. status.root \in 1..status.last /\ status.root \in 0..Height(tip)
          BY <1>1, <2>4, <3>2
        <4>2. Saved.root = index[status.root]
          BY <3>2 DEF Saved, StoreBlock
        <4>3. index[status.root] = Ancestor(tip, status.root)
          BY <1>2, <4>1 DEF tip
        <4> QED BY <2>2, <4>1, <4>2, <4>3, AncestorType
      <3> QED BY <3>1, <3>2
    <2>8. Saved \in Points
      BY <2>2, <2>6, <2>7 DEF Saved, Points
    <2>9. Descends(Saved.head, Saved.root)
      BY <1>1, <2>5, <2>6, <2>7 DEF Descends
    <2>10. \A h \in 1..status.last : Height(index[h]) = h /\ index[h] = Ancestor(tip, h)
      <3> TAKE h \in 1..status.last
      <3>1. h \in 0..Height(tip) /\ index[h] = Ancestor(tip, h)
        BY <1>1, <1>2, <2>4 DEF tip
      <3> QED BY <2>2, <3>1, AncestorType
    <2> QED BY <1>1, <1>2, <2>5, <2>6, <2>7, <2>8, <2>9, <2>10
  <1> QED BY <1>1, <1>4, <1>5

(* Whatever StateInst::get finds, in an overlay or on disk, is the replay  *)
(* of the block's chain.                                                   *)
LEMMA ViewIsReplay ==
    ASSUME TypeOK, Overlaid("exact"), NEW d \in Points, Rolled("exact", d), Chunks(d),
           NEW b \in DOMAIN mem, NEW k \in Keys
    PROVE  View(b, k) = Replay(b, k)
  <1> DEFINE lo == Height(d.root)
             hi == Height(b)
  <1>1. b \in Seq(Content) /\ d.root \in Seq(Content) /\ lo \in Nat /\ hi \in Nat /\ lo <= hi
        /\ Ancestor(b, lo) = d.root /\ Ancestor(b, hi) = b
    BY HeightType, AncestorSelf DEF TypeOK, Points, Chunks, Descends
  <1>2. \A h \in lo..hi : Ancestor(b, h) \in DOMAIN mem
    BY DEF Chunks
  <1>3. \A h \in 0..hi : Ancestor(b, h) \in DOMAIN mem => h >= lo
    <2> SUFFICES ASSUME NEW h \in 0..hi, Ancestor(b, h) \in DOMAIN mem PROVE h >= lo
      OBVIOUS
    <2>1. Height(Ancestor(b, h)) = h /\ Descends(Ancestor(b, h), d.root)
      BY <1>1, AncestorType DEF Chunks
    <2> QED BY <2>1 DEF Descends
  <1>4. \A h \in (lo + 1)..hi : h \notin Overlays(b, k) => k \notin Touch[Payload(Ancestor(b, h))]
    <2> SUFFICES ASSUME NEW h \in (lo + 1)..hi, h \notin Overlays(b, k)
                 PROVE  k \notin Touch[Payload(Ancestor(b, h))]
      OBVIOUS
    <2>1. h \in 0..hi /\ h \in lo..hi /\ h > lo /\ \A i \in h..hi : i \in lo..hi
      BY <1>1
    <2>2. k \notin DOMAIN mem[Ancestor(b, h)]
      BY <1>2, <2>1 DEF Overlays
    <2>3. Height(Ancestor(b, h)) = h
      BY <1>1, <2>1, AncestorType
    <2> QED BY <1>2, <2>1, <2>2, <2>3 DEF Chunks
  <1> HIDE DEF lo, hi
  <1>5. CASE Overlays(b, k) = {}
    <2>1. \A h \in (lo + 1)..hi : k \notin Touch[Payload(Ancestor(b, h))]
      BY <1>4, <1>5
    <2>2. lo \in 0..hi /\ hi \in lo..hi
      BY <1>1
    <2>3. Replay(Ancestor(b, hi), k) = Replay(Ancestor(b, lo), k)
      BY <1>1, <2>1, <2>2, ReplayStill DEF hi
    <2> QED BY <1>1, <1>5, <2>3 DEF View, Rolled
  <1>6. CASE Overlays(b, k) # {}
    <2> DEFINE m == Max(Overlays(b, k))
    <2>1. Overlays(b, k) \in SUBSET (0..hi)
      BY DEF Overlays, hi
    <2>2. m \in Overlays(b, k) /\ \A x \in Overlays(b, k) : x <= m
      BY <1>1, <1>6, <2>1, GreatestHeight
    <2>3. View(b, k) = mem[Ancestor(b, m)][k]
      BY <1>6 DEF View
    <2> HIDE DEF m
    <2>4. m \in 0..hi /\ Ancestor(b, m) \in DOMAIN mem /\ k \in DOMAIN mem[Ancestor(b, m)]
      BY <1>1, <2>1, <2>2 DEF Overlays, hi
    <2>5. View(b, k) = Replay(Ancestor(b, m), k)
      BY <2>3, <2>4 DEF Overlaid
    <2>6. m >= lo
      BY <1>3, <2>4
    <2>7. \A h \in (m + 1)..hi : h \in (lo + 1)..hi /\ h \notin Overlays(b, k)
      BY <1>1, <2>2, <2>4, <2>6
    <2>8. \A h \in (m + 1)..hi : k \notin Touch[Payload(Ancestor(b, h))]
      BY <1>4, <2>7
    <2>9. hi \in m..hi
      BY <1>1, <2>4
    <2>10. Replay(Ancestor(b, hi), k) = Replay(Ancestor(b, m), k)
      BY <1>1, <2>4, <2>8, <2>9, ReplayStill DEF hi
    <2> QED BY <1>1, <2>5, <2>10
  <1> QED BY <1>5, <1>6
-----------------------------------------------------------------------------
(* Each action preserves the invariant of the stores.                      *)

\* Genesis has height 0.
LEMMA GenesisType == Genesis \in Seq(Content) /\ Height(Genesis) = 0
  BY EmptySeq DEF Genesis, Height

(* A step that touches neither the tree, the stores nor the results.       *)
LEMMA StoreFrame ==
    ASSUME NEW v, SInv(v), UNCHANGED <<tree, durable, rids, cur>>,
           Running' <=> Running, Rebuilding' <=> Rebuilding,
           job' = "rebuild" <=> job = "rebuild"
    PROVE  StoreLinked' /\ Exact(Saved)' /\ DiskHolds(v)' /\ DataKept' /\ Overlaid(v)'
  <1>1. Saved' = Saved /\ Now' = Now /\ (\A n : Before(n)' = Before(n))
    BY DEF Saved, Now, StoreBlock, Before, tree, durable
  <1>2. \A d : /\ Rolled(v, d)' <=> Rolled(v, d)
               /\ Chunks(d)' <=> Chunks(d)
               /\ Follows(d)' <=> Follows(d)
    <2> TAKE d
    <2>1. Rolled(v, d)' <=> Rolled(v, d)
      BY <1>1 DEF Rolled, Replay, tree, durable
    <2>2. Chunks(d)' <=> Chunks(d)
      BY DEF Chunks, tree
    <2>3. Follows(d)' <=> Follows(d)
      BY <1>1 DEF Follows, tree
    <2> QED BY <2>1, <2>2, <2>3
  <1>3. \A d : Written(d)' <=> Written(d)
    BY <1>1 DEF Written, ChainStored, Before, tree, durable
  <1>4. DiskHolds(v)'
    BY <1>2, <1>3 DEF SInv, DiskHolds
  <1>5. StoreLinked' /\ Exact(Saved)'
    BY <1>1 DEF SInv, StoreLinked, Exact, durable
  <1>6. DataKept' /\ Overlaid(v)'
    BY <1>1 DEF SInv, DataKept, Overlaid, Before, Replay, tree, durable
  <1> QED BY <1>4, <1>5, <1>6

\* Engine::discover only queues the block.
LEMMA DiscoverStore ==
    ASSUME NEW v, SInv(v), NEW b \in Chains, Discover(b)
    PROVE  SInv(v)'
  <1>1. /\ UNCHANGED <<tree, durable, rids, cur, exec, got>>
        /\ job = "idle" /\ job' = "discover"
    BY DEF Discover
  <1>2. StoreLinked' /\ Exact(Saved)' /\ DiskHolds(v)' /\ DataKept' /\ Overlaid(v)'
    BY <1>1, StoreFrame DEF Running, Rebuilding
  <1>3. ReadRight(v)' /\ Refeeds' /\ Quiet' /\ DownDisk(v)' /\ NeverPanics'
    BY <1>1 DEF SInv, ReadRight, Refeeds, Quiet, DownDisk, NeverPanics, Rebuilding, Running, Replay
  <1> QED BY <1>2, <1>3 DEF SInv

\* Engine::synchronize only fills the feed.
LEMMA SynchronizeStore ==
    ASSUME NEW v, SInv(v), NEW b \in Chains, NEW h \in 1..Height(b), Synchronize(b, h)
    PROVE  SInv(v)'
  <1>1. /\ UNCHANGED <<tree, durable, rids, cur, exec, got>>
        /\ job = "idle" /\ job' = "sync"
    BY DEF Synchronize
  <1>2. StoreLinked' /\ Exact(Saved)' /\ DiskHolds(v)' /\ DataKept' /\ Overlaid(v)'
    BY <1>1, StoreFrame DEF Running, Rebuilding
  <1>3. ReadRight(v)' /\ Refeeds' /\ Quiet' /\ DownDisk(v)' /\ NeverPanics'
    BY <1>1 DEF SInv, ReadRight, Refeeds, Quiet, DownDisk, NeverPanics, Rebuilding, Running, Replay
  <1> QED BY <1>2, <1>3 DEF SInv

\* Handing a block on keeps the order in which a restart executes the chain.
LEMMA ParseStore ==
    ASSUME NEW v, IInv, SInv(v), Parse
    PROVE  SInv(v)'
  <1>1. /\ UNCHANGED <<tree, durable, job, rids, cur, exec, got>> /\ feed # <<>>
        /\ blkq' = Append(blkq, Head(feed)) /\ feed' = Tail(feed)
    BY DEF Parse
  <1>2. StoreLinked' /\ Exact(Saved)' /\ DiskHolds(v)' /\ DataKept' /\ Overlaid(v)'
    BY <1>1, StoreFrame DEF Running, Rebuilding
  <1>3. ReadRight(v)' /\ DownDisk(v)' /\ NeverPanics'
    BY <1>1 DEF SInv, ReadRight, DownDisk, NeverPanics, Replay, Saved, StoreBlock, durable
  <1>4. Quiet'
    BY <1>1 DEF SInv, Quiet, Running, IInv, DeadIsEmpty
  <1>5. Refeeds'
    <2> SUFFICES ASSUME Rebuilding PROVE Refeeds'
      BY <1>1 DEF Refeeds, Rebuilding
    <2> DEFINE tip == Saved.head
               n   == Height(head)
               e   == Len(exec)
               q   == Len(blkq)
               m   == Len(feed)
    <2>1. /\ blkq \in Seq(Seq(Content)) /\ feed \in Seq(Seq(Content))
          /\ q \in Nat /\ m \in Nat /\ e \in Nat /\ m > 0 /\ n \in Nat
      BY <1>1, LenProperties, HeightType, EmptySeq DEF IInv, TypeOK
    <2>2. /\ Head(feed) = feed[1] /\ Len(feed') = m - 1 /\ \A i \in 1..(m - 1) : feed'[i] = feed[i + 1]
          /\ Head(feed) \in Seq(Content)
      BY <1>1, <2>1, HeadTailProperties
    <2>3. Len(blkq') = q + 1 /\ blkq'[q + 1] = feed[1] /\ \A i \in 1..q : blkq'[i] = blkq[i]
      BY <1>1, <2>1, <2>2, AppendProperties
    <2>4. /\ Descends(tip, head)
          /\ \A i \in 1..e : exec[i] = Ancestor(tip, n + i)
          /\ \A i \in 1..q : blkq[i] = Ancestor(tip, n + e + i)
          /\ \A i \in 1..m : feed[i] = Ancestor(tip, n + e + q + i)
          /\ n + e + q + m = status.last
          /\ Before(Len(rids)) \subseteq datas
          /\ job = "rebuild_all" => marker /\ Exact(Now)
      BY DEF SInv, Refeeds
    <2>5. /\ Saved' = Saved /\ Now' = Now /\ head' = head /\ status' = status /\ exec' = exec
          /\ Before(Len(rids))' = Before(Len(rids)) /\ datas' = datas /\ marker' = marker /\ job' = job
      BY <1>1 DEF Saved, Now, StoreBlock, Before, tree, durable
    <2> HIDE DEF tip, n, e, q, m
    <2>6. \A i \in 1..(q + 1) : blkq'[i] = Ancestor(tip, n + e + i)
      <3> TAKE i \in 1..(q + 1)
      <3>1. CASE i = q + 1
        <4>1. 1 \in 1..m /\ n + e + q + 1 = n + e + i
          BY <2>1, <3>1
        <4> QED BY <2>3, <2>4, <3>1, <4>1
      <3>2. CASE i # q + 1
        <4>1. i \in 1..q
          BY <2>1, <3>2
        <4> QED BY <2>3, <2>4, <4>1
      <3> QED BY <3>1, <3>2
    <2>7. \A i \in 1..(m - 1) : feed'[i] = Ancestor(tip, n + e + (q + 1) + i)
      <3> TAKE i \in 1..(m - 1)
      <3>1. i + 1 \in 1..m /\ n + e + q + (i + 1) = n + e + (q + 1) + i
        BY <2>1
      <3> QED BY <2>2, <2>4, <3>1
    <2>8. n + e + (q + 1) + (m - 1) = status.last
      BY <2>1, <2>4
    <2>9. tip' = tip /\ n' = n /\ e' = e /\ q' = q + 1 /\ m' = m - 1
      BY <2>2, <2>3, <2>5 DEF tip, n, e, q, m, Height
    <2> QED BY <2>4, <2>5, <2>6, <2>7, <2>8, <2>9 DEF Refeeds, tip, n, e, q, m, Exact, Descends, Ancestor, Height
  <1> QED BY <1>2, <1>3, <1>4, <1>5 DEF SInv

\* The next block of the channel is taken into execution.
LEMMA ExecBeginStore ==
    ASSUME NEW v, IInv, SInv(v), ExecBegin
    PROVE  SInv(v)'
  <1>1. /\ UNCHANGED <<tree, durable, job, rids, cur, feed>> /\ blkq # <<>> /\ exec = <<>>
        /\ exec' = <<Head(blkq)>> /\ got' = Empty /\ blkq' = Tail(blkq)
    BY DEF ExecBegin, InsertThreadFree
  <1>2. StoreLinked' /\ Exact(Saved)' /\ DiskHolds(v)' /\ DataKept' /\ Overlaid(v)'
    BY <1>1, StoreFrame DEF Running, Rebuilding
  <1>3. DownDisk(v)' /\ NeverPanics'
    BY <1>1 DEF SInv, DownDisk, NeverPanics, Replay, Saved, StoreBlock, durable
  <1>4. Quiet'
    BY <1>1 DEF SInv, Quiet, Running, IInv, DeadIsEmpty
  <1>5. ReadRight(v)'
    BY <1>1 DEF ReadRight, Empty
  <1>6. Refeeds'
    <2> SUFFICES ASSUME Rebuilding PROVE Refeeds'
      BY <1>1 DEF Refeeds, Rebuilding
    <2> DEFINE tip == Saved.head
               n   == Height(head)
               e   == Len(exec)
               q   == Len(blkq)
               m   == Len(feed)
    <2>1. /\ blkq \in Seq(Seq(Content)) /\ feed \in Seq(Seq(Content))
          /\ q \in Nat /\ m \in Nat /\ e = 0 /\ q > 0 /\ n \in Nat
      BY <1>1, LenProperties, HeightType, EmptySeq DEF IInv, TypeOK
    <2>2. /\ Head(blkq) = blkq[1] /\ Len(blkq') = q - 1 /\ \A i \in 1..(q - 1) : blkq'[i] = blkq[i + 1]
          /\ Head(blkq) \in Seq(Content)
      BY <1>1, <2>1, HeadTailProperties
    <2>3. Len(exec') = 1 /\ exec'[1] = blkq[1]
      BY <1>1, <2>2
    <2>4. /\ Descends(tip, head)
          /\ \A i \in 1..q : blkq[i] = Ancestor(tip, n + e + i)
          /\ \A i \in 1..m : feed[i] = Ancestor(tip, n + e + q + i)
          /\ n + e + q + m = status.last
          /\ Before(Len(rids)) \subseteq datas
          /\ job = "rebuild_all" => marker /\ Exact(Now)
      BY DEF SInv, Refeeds
    <2>5. /\ Saved' = Saved /\ Now' = Now /\ head' = head /\ status' = status /\ feed' = feed
          /\ Before(Len(rids))' = Before(Len(rids)) /\ datas' = datas /\ marker' = marker /\ job' = job
      BY <1>1 DEF Saved, Now, StoreBlock, Before, tree, durable
    <2> HIDE DEF tip, n, e, q, m
    <2>6. \A i \in 1..1 : exec'[i] = Ancestor(tip, n + i)
      <3>1. 1 \in 1..q /\ n + e + 1 = n + 1
        BY <2>1
      <3> QED BY <2>3, <2>4, <3>1
    <2>7. \A i \in 1..(q - 1) : blkq'[i] = Ancestor(tip, n + 1 + i)
      <3> TAKE i \in 1..(q - 1)
      <3>1. i + 1 \in 1..q /\ n + e + (i + 1) = n + 1 + i
        BY <2>1
      <3> QED BY <2>2, <2>4, <3>1
    <2>8. \A i \in 1..m : feed[i] = Ancestor(tip, n + 1 + (q - 1) + i)
      <3> TAKE i \in 1..m
      <3>1. n + e + q + i = n + 1 + (q - 1) + i
        BY <2>1
      <3> QED BY <2>4, <3>1
    <2>9. n + 1 + (q - 1) + m = status.last
      BY <2>1, <2>4
    <2>10. tip' = tip /\ n' = n /\ e' = 1 /\ q' = q - 1 /\ m' = m
      BY <2>2, <2>3, <2>5 DEF tip, n, e, q, m, Height
    <2> QED BY <2>4, <2>5, <2>6, <2>7, <2>8, <2>9, <2>10 DEF Refeeds, tip, n, e, q, m, Exact, Descends, Ancestor, Height
  <1> QED BY <1>2, <1>3, <1>4, <1>5, <1>6 DEF SInv

\* What an execution reads is the state at its parent, wherever the roll thread is.
LEMMA ExecReadStore ==
    ASSUME NEW v, IInv, SInv(v), NEW k \in Keys, ExecRead(k)
    PROVE  SInv(v)'
  <1>1. /\ UNCHANGED <<tree, durable, job, rids, cur, feed, blkq, exec>> /\ exec # <<>>
        /\ got' = [x \in DOMAIN got \cup {k} |-> IF x = k THEN View(Parent(exec[1]), k) ELSE got[x]]
    BY DEF ExecRead
  <1>2. StoreLinked' /\ Exact(Saved)' /\ DiskHolds(v)' /\ DataKept' /\ Overlaid(v)'
    BY <1>1, StoreFrame DEF Running, Rebuilding
  <1>3. DownDisk(v)' /\ NeverPanics'
    BY <1>1 DEF SInv, DownDisk, NeverPanics, Replay, Saved, StoreBlock, durable
  <1>4. Running
    BY <1>1 DEF IInv, DeadIsEmpty
  <1>5. Quiet'
    BY <1>1 DEF SInv, Quiet, Running
  <1>6. v = "exact" => View(Parent(exec[1]), k) = Replay(Parent(exec[1]), k)
    <2> SUFFICES ASSUME v = "exact" PROVE View(Parent(exec[1]), k) = Replay(Parent(exec[1]), k)
      OBVIOUS
    <2>1. PICK d \in Points : Rolled(v, d) /\ Chunks(d)
      BY <1>4 DEF SInv, DiskHolds
    <2>2. Parent(exec[1]) \in DOMAIN mem
      BY <1>1 DEF IInv, ExecFits, InTree
    <2> QED BY <2>1, <2>2, ViewIsReplay DEF IInv, SInv
  <1>7. ReadRight(v)'
    <2>1. v = "exact" => \A x \in DOMAIN got' : got'[x] = Replay(Parent(exec[1]), x)
      BY <1>1, <1>6 DEF SInv, ReadRight
    <2> QED BY <1>1, <2>1 DEF ReadRight, Replay, Parent, Ancestor, Height
  <1>8. Refeeds'
    <2>1. Saved' = Saved /\ Now' = Now /\ Before(Len(rids))' = Before(Len(rids))
      BY <1>1 DEF Saved, Now, StoreBlock, Before, tree, durable
    <2> QED BY <1>1, <2>1 DEF SInv, Refeeds, Rebuilding, Exact, tree, durable
  <1> QED BY <1>2, <1>3, <1>5, <1>7, <1>8 DEF SInv

\* The state directory is lost while the node is down: the next start rebuilds.
LEMMA LoseStateStore ==
    ASSUME NEW v, SInv(v), LoseState
    PROVE  SInv(v)'
  <1>1. /\ UNCHANGED <<tree, disk, status, index, datas, pipeline>> /\ job = "down" /\ marker'
    BY DEF LoseState
  <1>2. Saved' = Saved /\ (\A n : Before(n)' = Before(n))
    BY <1>1 DEF Saved, StoreBlock, Before, pipeline
  <1>3. StoreLinked' /\ Exact(Saved)' /\ DataKept' /\ Overlaid(v)' /\ ReadRight(v)'
    BY <1>1, <1>2 DEF SInv, StoreLinked, Exact, DataKept, Before, Overlaid, ReadRight, Replay, tree, pipeline
  <1>4. DiskHolds(v)' /\ Refeeds' /\ Quiet' /\ DownDisk(v)' /\ NeverPanics'
    BY <1>1 DEF SInv, DiskHolds, Running, Refeeds, Rebuilding, Quiet, DownDisk, NeverPanics, pipeline
  <1> QED BY <1>3, <1>4 DEF SInv

\* A block a syncing or discovering job refuses leaves the tree and the stores alone.
LEMMA InsertFailStore ==
    ASSUME NEW v, SInv(v), InsertFail, ~Rebuilding, job # "idle", Running
    PROVE  SInv(v)'
  <1>1. /\ UNCHANGED <<tree, durable, job, rids, cur>> /\ exec' = <<>>
    BY DEF InsertFail
  <1>2. StoreLinked' /\ Exact(Saved)' /\ DiskHolds(v)' /\ DataKept' /\ Overlaid(v)'
    BY <1>1, StoreFrame DEF Running, Rebuilding
  <1>3. ReadRight(v)' /\ Refeeds' /\ Quiet' /\ DownDisk(v)' /\ NeverPanics'
    BY <1>1 DEF SInv, ReadRight, Refeeds, Quiet, DownDisk, NeverPanics, Rebuilding, Running
  <1> QED BY <1>2, <1>3 DEF SInv

\* A stop leaves the two databases; the state db is at the stored root unless it
\* falls between the two writes of roll_by, and the marker covers a rebuild from
\* genesis.
LEMMA StopStore ==
    ASSUME NEW v, IInv, SInv(v), Stop, v = "exact" => ~BetweenWrites
    PROVE  SInv(v)'
  <1>1. /\ Running /\ job' = "down" /\ mem' = Empty
        /\ datas' = datas \cap {index[h] : h \in DOMAIN index}
        /\ exec' = <<>> /\ rids' = <<>> /\ cur' = <<>> /\ UNCHANGED <<disk, marker, status, index>>
    BY DEF Stop, Halt, Running
  <1>2. Saved' = Saved
    BY <1>1 DEF Saved, StoreBlock
  <1>3. StoreLinked'
    BY <1>1 DEF SInv, StoreLinked, Ancestor
  <1>4. Exact(Saved)'
    BY <1>2 DEF SInv, Exact, Height
  <1>5. DataKept' /\ Overlaid(v)' /\ ReadRight(v)'
    BY <1>1 DEF DataKept, Overlaid, ReadRight, Empty
  <1>6. DiskHolds(v)' /\ Refeeds' /\ Quiet' /\ NeverPanics'
    BY <1>1 DEF DiskHolds, Running, Refeeds, Rebuilding, Quiet, NeverPanics
  <1>7. DownDisk(v)'
    <2> SUFFICES ASSUME v = "exact", ~marker, NEW k \in Keys
                 PROVE  disk[k] = Replay(Saved.root, k)
      BY <1>1, <1>2 DEF DownDisk, Replay
    <2>1. PICK d \in Points : Rolled(v, d) /\ Follows(d)
      BY <1>1 DEF SInv, DiskHolds
    <2>2. disk[k] = Replay(d.root, k)
      BY <2>1 DEF Rolled
    <2>3. d.root = Saved.root
      <3>1. CASE job = "rebuild"
        BY <2>1, <3>1 DEF Follows
      <3>2. CASE job = "rebuild_all"
        BY <3>2 DEF SInv, Refeeds, Rebuilding
      <3>3. CASE ~Rebuilding /\ cur = <<>>
        BY <2>1, <3>3 DEF Follows
      <3>4. CASE ~Rebuilding /\ cur # <<>>
        <4>1. ~cur[1].rootMoves
          BY <1>1, <3>4 DEF BetweenWrites, Rebuilding, Running, IInv, TypeOK, SInv, Quiet
        <4> QED BY <2>1, <3>4, <4>1 DEF Follows, Moved
      <3> QED BY <3>1, <3>2, <3>3, <3>4 DEF Rebuilding
    <2> QED BY <2>2, <2>3
  <1> QED BY <1>3, <1>4, <1>5, <1>6, <1>7 DEF SInv

(* The next block of a restart is the one above the head in the index: it  *)
(* is stored and passes every gate of insert_by.                           *)
LEMMA RefeedNext ==
    ASSUME NEW v, IInv, SInv(v), Running, Rebuilding, Height(head) < status.last,
           NEW b, b = Ancestor(Saved.head, Height(head) + 1)
    PROVE  /\ b \in Seq(Content) /\ Height(b) = Height(head) + 1 /\ Parent(b) = head
           /\ Descends(Saved.head, b) /\ b \in datas /\ Insertable(b)
  <1>1. /\ Saved.head \in Seq(Content) /\ Height(Saved.head) = status.last /\ status.last \in Nat
        /\ \A h \in 1..status.last : index[h] = Ancestor(Saved.head, h) /\ index[h] \in datas
    BY SavedType DEF IInv, SInv, Points
  <1>2. head \in Seq(Content) /\ root \in Seq(Content) /\ Height(head) \in Nat /\ Height(root) \in Nat
        /\ InTree(head) /\ Height(root) <= Height(head)
    BY HeightType DEF IInv, TypeOK, TreeShape, InTree, Descends
  <1> DEFINE n == Height(head)
  <1>3. n + 1 \in 1..status.last /\ n + 1 \in 0..status.last /\ n \in 0..(n + 1) /\ (n + 1) - 1 = n
    BY <1>1, <1>2
  <1>4. b \in Seq(Content) /\ Height(b) = n + 1 /\ Descends(Saved.head, b)
    BY <1>1, <1>3, AncestorType, DescendsAncestor
  <1>5. Parent(b) = Ancestor(Saved.head, n)
    BY <1>1, <1>3, <1>4, AncestorOfAncestor DEF Parent
  <1>6. Ancestor(Saved.head, n) = head
    BY DEF SInv, Refeeds, Descends
  <1>7. b \in datas
    BY <1>1, <1>3
  <1>8. Insertable(b)
    BY <1>2, <1>4, <1>5, <1>6 DEF Insertable, SkipChecks
  <1> QED BY <1>4, <1>5, <1>6, <1>7, <1>8

\* A restart refuses none of its blocks; a peer's block that is refused changes nothing.
LEMMA RefuseStore ==
    ASSUME NEW v, IInv, SInv(v), Refuse
    PROVE  SInv(v)'
  <1>1. blkq # <<>> /\ exec = <<>> /\ ~Insertable(Head(blkq)) /\ Running /\ job # "idle"
    BY DEF Refuse, InsertThreadFree, IInv, DeadIsEmpty, SInv, Quiet
  <1>2. CASE ~Rebuilding
    BY <1>1, <1>2, InsertFailStore DEF Refuse
  <1>3. CASE Rebuilding
    <2>1. /\ blkq \in Seq(Seq(Content)) /\ Len(blkq) \in Nat /\ Len(blkq) > 0 /\ Len(exec) = 0
          /\ Len(feed) \in Nat /\ Height(head) \in Nat /\ Head(blkq) = blkq[1]
      BY <1>1, LenProperties, EmptySeq, HeightType, HeadTailProperties DEF IInv, TypeOK
    <2>2. /\ \A i \in 1..Len(blkq) : blkq[i] = Ancestor(Saved.head, Height(head) + Len(exec) + i)
          /\ Height(head) + Len(exec) + Len(blkq) + Len(feed) = status.last
      BY <1>3 DEF SInv, Refeeds
    <2>3. 1 \in 1..Len(blkq) /\ Height(head) + Len(exec) + 1 = Height(head) + 1
          /\ Height(head) < status.last
      BY <2>1, <2>2
    <2>4. Head(blkq) = Ancestor(Saved.head, Height(head) + 1)
      BY <2>1, <2>2, <2>3
    <2>5. Insertable(Head(blkq))
      BY <1>1, <1>3, <2>3, <2>4, RefeedNext
    <2> QED BY <1>1, <2>5
  <1> QED BY <1>2, <1>3

(* When opening ends the tree is at the stored head and root again.        *)
LEMMA FinishStore ==
    ASSUME NEW v, IInv, SInv(v), Finish
    PROVE  SInv(v)'
  <1>1. /\ job \in {"discover", "sync", "rebuild", "rebuild_all"} /\ job' = "idle"
        /\ feed = <<>> /\ blkq = <<>> /\ exec = <<>> /\ rids = <<>> /\ cur = <<>>
        /\ UNCHANGED <<tree, disk, status, index, datas, feed, blkq, exec, got, rids, cur>>
    BY DEF Finish
  <1>2. ReadRight(v)' /\ Refeeds' /\ Quiet' /\ DownDisk(v)' /\ NeverPanics'
    BY <1>1 DEF ReadRight, Refeeds, Rebuilding, Quiet, Running, DownDisk, NeverPanics
  <1>3. CASE ~Rebuilding
    <2>1. UNCHANGED durable
      BY <1>1, <1>3 DEF Finish, durable
    <2>2. StoreLinked' /\ Exact(Saved)' /\ DiskHolds(v)' /\ DataKept' /\ Overlaid(v)'
      BY <1>1, <1>3, <2>1, StoreFrame DEF Running, Rebuilding
    <2> QED BY <1>2, <2>2 DEF SInv
  <1>4. CASE Rebuilding
    <2>1. Saved' = Saved /\ Now' = Now /\ (\A n : Before(n)' = Before(n))
      BY <1>1 DEF Saved, Now, StoreBlock, Before, tree
    <2>2. StoreLinked' /\ Exact(Saved)'
      BY <1>1, <2>1 DEF SInv, StoreLinked, Exact
    <2>3. DataKept' /\ Overlaid(v)'
      BY <1>1, <2>1 DEF SInv, DataKept, Overlaid, Before, Replay, tree
    <2>4. PICK d \in Points : Rolled(v, d) /\ Chunks(d) /\ Written(d) /\ Follows(d)
      BY <1>1 DEF SInv, DiskHolds, Running
    <2>5. d = Now
      BY <1>1, <2>4, LeadsEmpty DEF Rolled
    <2>6. /\ Saved \in Points /\ status.root \in Nat /\ status.last \in Nat
          /\ Height(Saved.root) = status.root /\ Height(Saved.head) = status.last
          /\ Descends(Saved.head, Saved.root)
      BY SavedType DEF IInv, SInv
    <2>7. /\ root \in Seq(Content) /\ head \in Seq(Content)
          /\ Height(root) \in Nat /\ Height(head) \in Nat
          /\ Height(head) <= Height(root) + Level /\ Descends(head, root)
      BY <1>1, HeightType DEF IInv, TypeOK, TreeShape, InTree, Running
    <2>8. head = Saved.head
      <3>1. Descends(Saved.head, head) /\ Height(head) = status.last
        BY <1>1, <1>4, <2>7 DEF SInv, Refeeds
      <3>2. Ancestor(Saved.head, Height(head)) = head /\ Height(head) = Height(Saved.head)
        BY <2>6, <3>1 DEF Descends
      <3>3. Ancestor(Saved.head, Height(Saved.head)) = Saved.head
        BY <2>6, AncestorSelf DEF Points
      <3> QED BY <3>2, <3>3
    <2>9. root = Saved.root
      <3>1. CASE job = "rebuild"
        BY <2>4, <3>1 DEF Follows
      <3>2. CASE job = "rebuild_all"
        <4>1. Exact(Now) /\ Exact(Saved)
          BY <1>4, <3>2 DEF SInv, Refeeds
        <4>2. Height(root) = 0 \/ status.last = Height(root) + Level
          BY <2>6, <2>8, <4>1 DEF Exact, Now
        <4>3. status.root = 0 \/ status.last = status.root + Level
          BY <2>6, <4>1 DEF Exact
        <4>4. Height(root) <= status.last /\ status.last <= Height(root) + Level
          BY <2>6, <2>7, <2>8 DEF Descends
        <4>5. status.last <= status.root + Level
          BY DEF SInv, StoreLinked
        <4>6. Height(root) = status.root
          BY <2>6, <2>7, <4>2, <4>3, <4>4, <4>5, LevelAssumption
        <4> QED BY <2>6, <2>7, <2>8, <4>6 DEF Descends
      <3> QED BY <1>4, <3>1, <3>2 DEF Rebuilding
    <2>10. d = Saved
      BY <2>5, <2>8, <2>9 DEF Now, Saved
    <2>11. Rolled(v, d)' /\ Chunks(d)' /\ Written(d)'
      <3>1. Rolled(v, d)'
        BY <1>1, <2>1, <2>4 DEF Rolled, Replay
      <3>2. Chunks(d)'
        BY <1>1, <2>4 DEF Chunks, tree
      <3>3. Written(d)'
        BY <1>1, <2>1, <2>4 DEF Written, ChainStored, tree
      <3> QED BY <3>1, <3>2, <3>3
    <2>12. Follows(d)'
      BY <1>1, <2>1, <2>10 DEF Follows, Rebuilding
    <2>13. DiskHolds(v)'
      BY <2>11, <2>12 DEF DiskHolds
    <2> QED BY <1>2, <2>2, <2>3, <2>13 DEF SInv
  <1> QED BY <1>3, <1>4

\* Replaying no block leaves nothing.
LEMMA ReplayGenesis == \A k : Replay(Genesis, k) = <<>>
  BY FilterEmpty DEF Replay, Genesis

(* Opening starts at the stored root, or at genesis on an empty state db,  *)
(* and finds every block above it in the store.                            *)
LEMMA OpenStore ==
    ASSUME NEW v, IInv, SInv(v), Open
    PROVE  SInv(v)'
  <1>0. PICK r : r = IF marker \/ status.root = 0 THEN Genesis ELSE index[status.root]
    OBVIOUS
  <1> DEFINE d == [root |-> r, head |-> r]
  <1>1. /\ job = "down" /\ exec = <<>> /\ rids = <<>> /\ cur = <<>> /\ blkq = <<>>
        /\ UNCHANGED <<blkq, exec, got, rids, cur>>
    BY DEF IInv, DeadIsEmpty, SInv, Quiet, Running, Open
  <1>2. /\ Saved \in Points /\ status.root \in Nat /\ status.last \in Nat
        /\ Height(Saved.root) = status.root /\ Height(Saved.head) = status.last
        /\ Descends(Saved.head, Saved.root)
        /\ \A h \in 1..status.last : index[h] = Ancestor(Saved.head, h) /\ index[h] \in datas
        /\ DOMAIN index = 1..status.last /\ status.root <= status.last
    BY SavedType DEF IInv, SInv, StoreLinked
  <1>3. \A h \in Nat : Loadable(h) <=> h \in 1..status.last
    BY <1>2 DEF Loadable
  <1>4. ~(status.root > 0 /\ ~Loadable(status.root))
    BY <1>2, <1>3
  <1>5. /\ root' = r /\ head' = r /\ mem' = [b \in {r} |-> Empty]
        /\ disk' = (IF marker THEN InitDisk ELSE disk)
        /\ job' = (IF marker /\ status.root > 0 THEN "rebuild_all" ELSE "rebuild")
        /\ UNCHANGED <<marker, status, index, datas>>
    BY <1>0, <1>4 DEF Open
  <1>6. PICK n \in DOMAIN index \cup {Height(r)} :
               /\ ~Loadable(n + 1)
               /\ feed' = [i \in 1..(n - Height(r)) |-> index[Height(r) + i]]
    BY <1>0, <1>4 DEF Open
  <1>7. /\ r \in Seq(Content) /\ Height(r) \in 0..status.last /\ Descends(Saved.head, r)
        /\ Height(r) > 0 => r \in datas
        /\ ~(marker /\ status.root > 0) => r = Saved.root
        /\ marker => r = Genesis
    <2>1. CASE marker \/ status.root = 0
      <3>1. r = Genesis /\ r \in Seq(Content) /\ Height(r) = 0
        BY <1>0, <2>1, GenesisType
      <3>2. status.root = 0 => Saved.root = Genesis
        BY DEF Saved, StoreBlock
      <3>3. Descends(Saved.head, Genesis)
        <4>1. 0 \in 0..Height(Saved.head) /\ Saved.head \in Seq(Content)
          BY <1>2 DEF Points
        <4>2. Ancestor(Saved.head, 0) \in Seq(Content) /\ Height(Ancestor(Saved.head, 0)) = 0
          BY <4>1, AncestorType
        <4>3. Ancestor(Saved.head, 0) = Genesis
          BY <4>2, EmptySeq DEF Height, Genesis
        <4> QED BY <4>1, <4>3, DescendsAncestor
      <3> QED BY <1>2, <2>1, <3>1, <3>2, <3>3
    <2>2. CASE ~marker /\ status.root # 0
      <3>1. r = index[status.root] /\ Saved.root = index[status.root] /\ status.root \in 1..status.last
        BY <1>0, <1>2, <2>2 DEF Saved, StoreBlock
      <3> QED BY <1>2, <2>2, <3>1 DEF Points
    <2> QED BY <2>1, <2>2
  <1>8. n = status.last
    <2>1. n \in Nat /\ n <= status.last
      BY <1>2, <1>6, <1>7
    <2>2. ~(n + 1 \in 1..status.last)
      BY <1>3, <1>6, <2>1
    <2> QED BY <1>2, <2>1, <2>2
  <1>9. Saved' = Saved /\ Now' = d /\ d \in Points /\ (\A i : Before(i)' = Before(i)) /\ Before(0) = {}
        /\ Len(rids) = 0
    BY <1>1, <1>5, <1>7 DEF Saved, StoreBlock, Now, Points, Before
  <1>10. StoreLinked' /\ Exact(Saved)'
    BY <1>5, <1>9 DEF SInv, StoreLinked, Exact
  <1>11. DataKept' /\ Overlaid(v)'
    BY <1>5, <1>7 DEF DataKept, Overlaid, Empty, Height
  <1>12. ReadRight(v)' /\ Quiet' /\ DownDisk(v)' /\ NeverPanics'
    BY <1>1, <1>5 DEF ReadRight, Quiet, Running, DownDisk, NeverPanics
  <1>13. DiskHolds(v)'
    <2>1. Rolled(v, d)'
      <3>1. Leads(d, rids', Now')
        BY <1>1, <1>9, LeadsEmpty
      <3>2. ASSUME v = "exact" PROVE \A k \in Keys : disk'[k] = Replay(r, k)
        <4>1. CASE marker
          BY <1>5, <1>7, <4>1, ReplayGenesis DEF InitDisk
        <4>2. CASE ~marker
          BY <1>1, <1>5, <1>7, <3>2, <4>2 DEF SInv, DownDisk
        <4> QED BY <4>1, <4>2
      <3> QED BY <3>1, <3>2 DEF Rolled, Replay
    <2>2. Chunks(d)'
      <3>1. Descends(r, r) /\ Ancestor(r, Height(r)) = r /\ Height(r) \in Nat
        BY <1>7, DescendsSelf, AncestorSelf, HeightType
      <3>2. \A h \in Height(r)..Height(r) : h = Height(r)
        BY <3>1
      <3>3. ~(Height(r) > Height(r))
        BY <3>1
      <3> QED BY <1>5, <3>1, <3>2, <3>3 DEF Chunks
    <2>3. Written(d)'
      BY <1>1 DEF Written
    <2>4. Follows(d)'
      <3>1. Rebuilding'
        BY <1>5 DEF Rebuilding
      <3>2. job' = "rebuild" => r = Saved.root
        BY <1>5, <1>7
      <3> QED BY <1>5, <1>9, <3>1, <3>2 DEF Follows
    <2> HIDE DEF d
    <2> QED BY <1>9, <2>1, <2>2, <2>3, <2>4 DEF DiskHolds
  <1>14. Refeeds'
    <2>1. /\ \A i \in 1..Len(feed') : feed'[i] = Ancestor(Saved.head, Height(r) + 0 + 0 + i)
          /\ Height(r) + 0 + 0 + Len(feed') = status.last
      <3>1. Height(r) \in Nat /\ status.last - Height(r) \in Nat
        BY <1>2, <1>7
      <3>2. Len(feed') = status.last - Height(r)
        BY <1>6, <1>8, <3>1
      <3>3. \A i \in 1..(status.last - Height(r)) : Height(r) + i \in 1..status.last
                /\ Height(r) + i = Height(r) + 0 + 0 + i /\ feed'[i] = index[Height(r) + i]
        BY <1>2, <1>6, <1>8, <3>1
      <3>4. \A i \in 1..(status.last - Height(r)) : feed'[i] = Ancestor(Saved.head, Height(r) + 0 + 0 + i)
        BY <1>2, <3>3
      <3>5. Height(r) + 0 + 0 + (status.last - Height(r)) = status.last
        BY <1>2, <3>1
      <3> QED BY <3>2, <3>4, <3>5
    <2>2. Len(exec') = 0 /\ Len(blkq') = 0 /\ Before(Len(rids))' = {}
      BY <1>1, <1>9
    <2>3. job' = "rebuild_all" => marker' /\ Exact(Now)'
      BY <1>5, <1>7, <1>9, GenesisType DEF Exact, Height
    <2>4. Saved.head' = Saved.head /\ Height(head)' = Height(r) /\ Descends(Saved.head, head)'
          /\ status'.last = status.last
      BY <1>5, <1>7, <1>9 DEF Descends, Ancestor, Height
    <2>5. /\ \A i \in 1..Len(exec)' : exec'[i] = Ancestor(Saved.head, Height(head) + i)'
          /\ \A i \in 1..Len(blkq)' : blkq'[i] = Ancestor(Saved.head, Height(head) + Len(exec) + i)'
      BY <2>2
    <2>6. \A i \in 1..Len(feed)' :
              feed'[i] = Ancestor(Saved.head, Height(head) + Len(exec) + Len(blkq) + i)'
      BY <2>1, <2>2, <2>4 DEF Ancestor
    <2>7. Height(head)' + Len(exec)' + Len(blkq)' + Len(feed)' = status'.last
      <3>1. Height(head)' = Height(r) /\ Len(exec)' = 0 /\ Len(blkq)' = 0
        BY <2>2, <2>4
      <3> QED BY <2>1, <2>4, <3>1
    <2> QED BY <2>2, <2>3, <2>4, <2>5, <2>6, <2>7 DEF Refeeds
  <1> QED BY <1>10, <1>11, <1>12, <1>13, <1>14 DEF SInv

(* The batch of roll_by: the index becomes the chain of the new head, all  *)
(* of whose blocks are stored, and the status its root and height.         *)
LEMMA BatchMoves ==
    ASSUME NEW v, IInv, SInv(v), RollStore, ~Rebuilding, NEW d \in Points, Written(d), Follows(d),
           NEW r, r = cur[1], r.headMoves # "none"
    PROVE  /\ StoreLinked' /\ Saved' = d
           /\ Fits(Saved, r) /\ d = Moved(Saved, r) /\ r \in InsertResult
           /\ status' = [root |-> RealRoot(r), last |-> Height(r.blk)]
           /\ \A h \in 1..Height(r.blk) : index'[h] = Ancestor(r.blk, h)
  <1>1. r \in InsertResult /\ cur # <<>> /\ 1 \in 1..Len(cur)
    <2>1. Len(cur) \in Nat /\ Len(cur) # 0
      BY EmptySeq, LenProperties DEF IInv, TypeOK, RollStore
    <2> QED BY <2>1, ElementOfSeq DEF IInv, TypeOK, RollStore
  <1>2. /\ Saved \in Points /\ status.root \in Nat /\ status.last \in Nat
        /\ Height(Saved.root) = status.root /\ Height(Saved.head) = status.last
        /\ Descends(Saved.head, Saved.root)
        /\ \A h \in 1..status.last : index[h] = Ancestor(Saved.head, h) /\ index[h] \in datas
        /\ DOMAIN index = 1..status.last /\ status.root <= status.last
        /\ status.last <= status.root + Level
    BY SavedType DEF IInv, SInv, StoreLinked
  <1> DEFINE b == r.blk
             L == status.last
             R == ReindexedHeights(r)
             rr == RealRoot(r)
  <1>3. /\ Fits(Saved, r) /\ d = Moved(Saved, r)
        /\ d.head = b /\ Height(d.root) = rr /\ Descends(b, d.root)
        /\ b \in Seq(Content) /\ Height(b) = L + 1
        /\ r.oldRoot = status.root /\ r.oldRoot < L + 1 /\ Descends(b, Saved.root)
    <2>1. Fits(Saved, r) /\ d = Moved(Saved, r)
      BY <1>1 DEF Follows
    <2>2. /\ r.oldRoot = status.root /\ Height(b) = L + 1 /\ r.oldRoot < L + 1
          /\ Descends(b, Saved.root)
      BY <1>2, <2>1 DEF Fits
    <2>3. d.head = b
      BY <2>1 DEF Moved
    <2>4. b \in Seq(Content)
      BY <1>1 DEF InsertResult
    <2> QED BY <1>1, <1>2, <2>1, <2>2, <2>3, <2>4, MovedType
  <1>4. rr = IF r.rootMoves THEN status.root + 1 ELSE status.root
    BY <1>3 DEF RealRoot
  <1>5. /\ status' = [root |-> rr, last |-> L + 1]
        /\ index' = [h \in DOMAIN index \cup R |-> IF h \in R THEN Ancestor(b, h) ELSE index[h]]
        /\ datas' = Stored(r) \cap (DOMAIN mem \cup {index'[h] : h \in DOMAIN index'})
    BY <1>3 DEF RollStore
  <1>6. R \subseteq 1..(L + 1) /\ L + 1 \in R
    BY <1>2, <1>3, <1>4 DEF ReindexedHeights
  <1> HIDE DEF b, L, R, rr
  <1>7. DOMAIN index' = 1..(L + 1)
    <2>1. 1..L \cup {L + 1} = 1..(L + 1)
      BY <1>2 DEF L
    <2>2. DOMAIN index \cup R = 1..(L + 1)
      BY <1>2, <1>6, <2>1 DEF L
    <2> QED BY <1>5, <2>2
  <1>8. \A h \in 0..status.root : Ancestor(b, h) = Ancestor(Saved.head, h)
    <2> TAKE h \in 0..status.root
    <2>1. /\ Ancestor(b, status.root) = Saved.root /\ Ancestor(Saved.head, status.root) = Saved.root
          /\ status.root \in 0..Height(b) /\ status.root \in 0..Height(Saved.head)
      BY <1>2, <1>3 DEF Descends, L
    <2>2. Ancestor(Ancestor(b, status.root), h) = Ancestor(b, h)
      BY <1>3, <2>1, AncestorOfAncestor
    <2>3. Ancestor(Ancestor(Saved.head, status.root), h) = Ancestor(Saved.head, h)
      BY <1>2, <2>1, AncestorOfAncestor DEF Points
    <2> QED BY <2>1, <2>2, <2>3
  <1>9. \A h \in 1..(L + 1) : index'[h] = Ancestor(b, h)
    <2> TAKE h \in 1..(L + 1)
    <2>1. CASE h \in R
      BY <1>5, <2>1
    <2>2. CASE h \notin R
      <3>1. h \in 1..L /\ h # L + 1
        BY <1>2, <1>6, <2>2 DEF L
      <3>2. index'[h] = Ancestor(Saved.head, h)
        BY <1>2, <1>5, <2>2, <3>1 DEF L
      <3>3. CASE r.headMoves = "extend"
        <4>1. Parent(b) = Saved.head
          BY <1>3, <3>3 DEF Fits, b
        <4>2. L \in 0..Height(b) /\ h \in 0..L /\ Parent(b) = Ancestor(b, L)
          BY <1>2, <1>3, <3>1 DEF L, Parent
        <4>3. Ancestor(Ancestor(b, L), h) = Ancestor(b, h)
          BY <1>3, <4>2, AncestorOfAncestor
        <4> QED BY <3>2, <4>1, <4>2, <4>3
      <3>4. CASE r.headMoves = "reorg"
        <4>1. ~(h \in rr..(L + 1) /\ h > 0)
          BY <1>3, <2>2, <3>4 DEF R, ReindexedHeights, rr, b
        <4>2. h \in 0..status.root
          BY <1>2, <1>4, <3>1, <4>1 DEF L
        <4> QED BY <1>8, <3>2, <4>2
      <3> QED BY <1>1, <3>3, <3>4 DEF InsertResult
    <2> QED BY <2>1, <2>2
  <1>10. Ancestor(b, L + 1) = b /\ index'[L + 1] = b
    <2>1. L + 1 \in 1..(L + 1)
      BY <1>2 DEF L
    <2> QED BY <1>3, <1>9, <2>1, AncestorSelf
  <1>11. \A h \in 1..(L + 1) : index'[h] \in datas'
    <2> TAKE h \in 1..(L + 1)
    <2>1. Ancestor(b, h) \in Stored(r)
      <3>1. CASE h = L + 1
        BY <1>10, <3>1 DEF Stored, b
      <3>2. CASE h # L + 1 /\ h >= rr
        <4>1. h \in 1..(Height(b) - 1) /\ h >= Height(d.root)
          BY <1>2, <1>3, <3>2 DEF L
        <4>2. ChainStored(d, b, {})
          BY <1>1 DEF Written, b
        <4> QED BY <4>1, <4>2 DEF ChainStored, Stored
      <3>3. CASE h < rr
        <4>1. h \in 0..status.root /\ h \in 1..status.last
          BY <1>2, <1>4, <3>3 DEF L
        <4>2. index[h] = Ancestor(b, h) /\ index[h] \in datas
          BY <1>2, <1>8, <4>1
        <4> QED BY <4>2 DEF Stored
      <3>4. rr \in Nat
        BY <1>2, <1>4
      <3> QED BY <1>2, <3>1, <3>2, <3>3, <3>4 DEF L
    <2>2. index'[h] \in {index'[x] : x \in DOMAIN index'}
      BY <1>7
    <2>3. index'[h] \in Stored(r)
      BY <1>9, <2>1
    <2>4. datas' = Stored(r) \cap (DOMAIN mem \cup {index'[x] : x \in DOMAIN index'})
      BY <1>5
    <2> QED BY <2>2, <2>3, <2>4
  <1>12. rr <= L + 1 /\ L + 1 <= rr + Level /\ rr \in Nat /\ L \in Nat
    <2>1. r.rootMoves <=> L + 1 > status.root + Level
      BY <1>2, <1>3 DEF Fits, b
    <2> QED BY <1>2, <1>3, <1>4, <2>1, LevelAssumption DEF L
  <1>13. StoreLinked'
    <2>1. status'.root = rr /\ status'.last = L + 1
      BY <1>5
    <2>2. \A h \in 1..(L + 1) : index'[h] = Ancestor(index'[L + 1], h)
      BY <1>9, <1>10
    <2> QED BY <1>7, <1>11, <1>12, <2>1, <2>2 DEF StoreLinked, Ancestor
  <1>14. Saved' = d
    <2>1. Saved' = [root |-> IF rr = 0 THEN Genesis ELSE index'[rr],
                    head |-> IF L + 1 = 0 THEN Genesis ELSE index'[L + 1]]
      BY <1>5 DEF Saved, StoreBlock, Genesis
    <2>2. L + 1 # 0
      BY <1>12
    <2>3. (IF rr = 0 THEN Genesis ELSE index'[rr]) = d.root
      <3>1. Ancestor(b, rr) = d.root /\ d.root \in Seq(Content)
        BY <1>3 DEF Descends, Points
      <3>2. CASE rr = 0
        BY <1>3, <3>1, <3>2, EmptySeq DEF Height, Genesis
      <3>3. CASE rr # 0
        <4>1. rr \in 1..(L + 1)
          BY <1>12, <3>3
        <4> QED BY <1>9, <3>1, <3>3, <4>1
      <3> QED BY <3>2, <3>3
    <2>4. Saved' = [root |-> d.root, head |-> d.head]
      BY <1>3, <1>10, <2>1, <2>2, <2>3
    <2> QED BY <2>4 DEF Points
  <1>15. status' = [root |-> RealRoot(r), last |-> Height(r.blk)]
         /\ \A h \in 1..Height(r.blk) : index'[h] = Ancestor(r.blk, h)
    BY <1>3, <1>5, <1>9 DEF b, rr
  <1> QED BY <1>1, <1>3, <1>13, <1>14, <1>15

\* The store follows the tree by one result.
LEMMA RollStoreStore ==
    ASSUME NEW v, IInv, SInv(v), RollStore
    PROVE  SInv(v)'
  <1>0. PICK r : r = cur[1]
    OBVIOUS
  <1>1. /\ cur # <<>> /\ cur' = <<>> /\ Running /\ job # "idle" /\ job # "down"
        /\ Len(cur) = 1 /\ 1 \in 1..Len(cur) /\ r \in InsertResult
        /\ UNCHANGED <<tree, disk, marker, job, feed, blkq, exec, got, rids>>
    <2>1. cur # <<>> /\ cur' = <<>> /\ UNCHANGED <<tree, disk, marker, job, feed, blkq, exec, got, rids>>
      BY DEF RollStore
    <2>2. Running /\ job # "idle" /\ job # "down"
      BY <2>1 DEF SInv, Quiet, Running
    <2>3. cur \in Seq(InsertResult) /\ Len(cur) \in Nat /\ Len(cur) # 0 /\ Len(cur) <= 1
      BY <2>1, EmptySeq, LenProperties DEF IInv, TypeOK
    <2>4. Len(cur) = 1 /\ 1 \in 1..Len(cur)
      BY <2>3
    <2>5. r \in InsertResult
      BY <1>0, <2>3, <2>4, ElementOfSeq
    <2> QED BY <2>1, <2>2, <2>4, <2>5
  <1>2. \A n : Before(n) = {r.blk} \cup Before(n)'
    BY <1>0, <1>1 DEF Before
  <1>3. PICK d \in Points : Rolled(v, d) /\ Chunks(d) /\ Written(d) /\ Follows(d)
    BY <1>1 DEF SInv, DiskHolds
  <1>4. Now' = Now
    BY <1>1 DEF Now, tree
  <1>5. Rolled(v, d)' /\ Chunks(d)'
    <2>1. Rolled(v, d)'
      BY <1>1, <1>3, <1>4 DEF Rolled, Replay
    <2>2. Chunks(d)'
      BY <1>1, <1>3 DEF Chunks, tree
    <2> QED BY <2>1, <2>2
  <1>6. Overlaid(v)' /\ ReadRight(v)' /\ Quiet' /\ DownDisk(v)' /\ NeverPanics'
    <2>1. Overlaid(v)' /\ ReadRight(v)'
      BY <1>1 DEF SInv, Overlaid, ReadRight, Replay, Parent, Ancestor, Height, tree
    <2>2. Quiet' /\ DownDisk(v)' /\ NeverPanics'
      BY <1>1 DEF SInv, Quiet, DownDisk, NeverPanics
    <2> QED BY <2>1, <2>2
  <1>7. CASE Rebuilding
    <2>1. UNCHANGED <<status, index, datas>>
      BY <1>7 DEF RollStore
    <2>2. Saved' = Saved
      BY <2>1 DEF Saved, StoreBlock
    <2>3. Before(Len(rids)) \subseteq datas /\ r.blk \in datas
      BY <1>2, <1>7 DEF SInv, Refeeds
    <2>4. StoreLinked' /\ Exact(Saved)'
      BY <2>1, <2>2 DEF SInv, StoreLinked, Exact
    <2>5. DataKept'
      BY <1>1, <1>2, <2>1, <2>3 DEF SInv, DataKept, tree
    <2>6. Written(d)'
      <3>1. ASSUME NEW i \in 1..Len(rids) PROVE ChainStored(d, rids[i].blk, Before(i - 1))'
        <4>1. ChainStored(d, rids[i].blk, Before(i - 1))
          BY <1>3 DEF Written
        <4>2. datas \cup Before(i - 1) = datas \cup Before(i - 1)'
          BY <1>2, <2>3
        <4> QED BY <1>1, <2>1, <4>1, <4>2 DEF ChainStored, tree
      <3> QED BY <1>1, <3>1 DEF Written
    <2>7. Follows(d)'
      BY <1>1, <1>3, <1>7, <2>2 DEF Follows, Rebuilding, tree
    <2>8. DiskHolds(v)'
      BY <1>3, <1>5, <2>6, <2>7 DEF DiskHolds
    <2>9. Refeeds'
      <3>1. Before(Len(rids))' \subseteq datas
        BY <1>1, <1>2, <2>3
      <3> QED BY <1>1, <1>4, <1>7, <2>1, <2>2, <3>1 DEF SInv, Refeeds, Rebuilding, Exact, tree
    <2> QED BY <1>6, <2>4, <2>5, <2>8, <2>9 DEF SInv
  <1>8. CASE ~Rebuilding
    <2>1. /\ Fits(Saved, r) /\ d = Moved(Saved, r)
      BY <1>0, <1>1, <1>3, <1>8 DEF Follows
    <2>2. /\ (r.headMoves = "none" => UNCHANGED <<status, index>>)
          /\ datas' = Stored(r) \cap (DOMAIN mem \cup {index'[h] : h \in DOMAIN index'})
      BY <1>0, <1>8 DEF RollStore
    <2>3. StoreLinked' /\ Saved' = d
      <3>1. CASE r.headMoves # "none"
        BY <1>0, <1>3, <1>8, <3>1, BatchMoves
      <3>2. CASE r.headMoves = "none"
        <4>1. Saved' = Saved /\ UNCHANGED <<status, index>>
          BY <2>2, <3>2 DEF Saved, StoreBlock
        <4>2. ~r.rootMoves
          BY <2>1, <3>2 DEF Fits
        <4>3. d = [root |-> Saved.root, head |-> Saved.head] /\ Saved \in Points
          BY <2>1, <3>2, <4>2, SavedType DEF Moved, IInv, SInv
        <4>4. d = Saved
          BY <4>3 DEF Points
        <4>5. \A h \in DOMAIN index : index[h] \in datas'
          BY <2>2, <4>1 DEF SInv, StoreLinked, Stored
        <4> QED BY <4>1, <4>4, <4>5 DEF SInv, StoreLinked, Ancestor
      <3> QED BY <3>1, <3>2
    <2>4. Exact(d)
      <3>1. Exact(Saved) /\ Saved \in Points /\ Height(Saved.head) <= Height(Saved.root) + Level
            /\ Height(Saved.root) \in Nat /\ Height(Saved.head) \in Nat
        BY SavedType DEF IInv, SInv, StoreLinked
      <3>2. Height(d.root) = RealRoot(r)
        BY <1>1, <2>1, <3>1, MovedType
      <3>3. CASE r.headMoves = "none"
        <4>1. d.root = Saved.root /\ d.head = Saved.head
          BY <2>1, <3>3 DEF Fits, Moved
        <4> QED BY <3>1, <4>1 DEF Exact
      <3>4. CASE r.headMoves # "none"
        <4>1. d.head = r.blk /\ Height(r.blk) = Height(Saved.head) + 1 /\ r.oldRoot = Height(Saved.root)
              /\ (r.rootMoves <=> Height(r.blk) > Height(Saved.root) + Level)
          BY <2>1, <3>4 DEF Fits, Moved
        <4>2. Height(d.root) = IF r.rootMoves THEN Height(Saved.root) + 1 ELSE Height(Saved.root)
          BY <3>2, <4>1 DEF RealRoot
        <4> QED BY <3>1, <4>1, <4>2, LevelAssumption DEF Exact
      <3> QED BY <3>3, <3>4
    <2>5. Exact(Saved)'
      BY <2>3, <2>4 DEF Exact, Height
    <2>6. \A x \in DOMAIN mem : x \in datas \cup {r.blk} => x \in datas'
      BY <2>2 DEF Stored
    <2>7. DataKept'
      BY <1>1, <1>2, <2>6 DEF SInv, DataKept, Height, tree
    <2>8. Written(d)'
      <3>1. ASSUME NEW i \in 1..Len(rids) PROVE ChainStored(d, rids[i].blk, Before(i - 1))'
        <4> DEFINE b == rids[i].blk
        <4>1. ChainStored(d, b, Before(i - 1))
          BY <1>3 DEF Written
        <4>2. ASSUME NEW h \in 1..(Height(b) - 1), h >= Height(d.root)
              PROVE  Ancestor(b, h) \in datas' \cup Before(i - 1)'
          <5>1. b \in DOMAIN mem /\ Ancestor(b, h) \in datas \cup Before(i - 1)
            BY <4>1, <4>2 DEF ChainStored
          <5>2. Height(d.root) \in Nat /\ Height(b) \in Nat
            BY <5>1, HeightType DEF IInv, TypeOK, Points
          <5>3. h \in Height(d.root)..Height(b)
            BY <4>2, <5>2
          <5>4. Ancestor(b, h) \in DOMAIN mem
            BY <1>3, <5>1, <5>3 DEF Chunks
          <5> QED BY <1>2, <2>6, <5>1, <5>4
        <4>3. b \in DOMAIN mem'
          BY <1>1, <4>1 DEF ChainStored, tree
        <4>4. rids' = rids
          BY <1>1
        <4> QED BY <4>2, <4>3, <4>4 DEF ChainStored, Ancestor, Height
      <3> QED BY <1>1, <3>1 DEF Written
    <2>9. Follows(d)'
      <3>1. Saved' = d
        BY <2>3
      <3> QED BY <1>1, <1>8, <3>1 DEF Follows, Rebuilding
    <2>10. DiskHolds(v)'
      BY <1>3, <1>5, <2>8, <2>9 DEF DiskHolds
    <2>11. Refeeds'
      BY <1>1, <1>8 DEF Refeeds, Rebuilding
    <2> QED BY <1>6, <2>3, <2>5, <2>7, <2>10, <2>11 DEF SInv
  <1> QED BY <1>7, <1>8

\* The root that the waiting results start from is the tree's root or is held by one of them.
LEMMA StartIsOwned ==
    ASSUME NEW s \in Points, NEW rs \in Seq(InsertResult), NEW t \in Points, Leads(s, rs, t),
           NEW bs, bs \subseteq Seq(Content)
    PROVE  /\ \A b \in bs : Descends(b, s.root) => b \in Owned(bs, t.root, rs)
           /\ \A b \in Owned(bs, t.root, rs) : b \in bs /\ Descends(b, s.root)
  <1> DEFINE owners == {t.root} \cup UNION {OldRootHold(rs[i]) : i \in DOMAIN rs}
  <1>1. DOMAIN rs = 1..Len(rs)
    BY LenProperties
  <1>2. s.root \in owners
    BY <1>1, LeadsClimbs
  <1>3. \A o \in owners : o \in Seq(Content) /\ Descends(o, s.root)
    <2>1. t.root \in Seq(Content) /\ Descends(t.root, s.root)
      BY LeadsClimbs DEF Points
    <2>2. \A i \in DOMAIN rs : \A o \in OldRootHold(rs[i]) : o \in Seq(Content) /\ Descends(o, s.root)
      BY <1>1, LeadsClimbs
    <2> QED BY <2>1, <2>2
  <1>4. Owned(bs, t.root, rs) = {b \in bs : \E o \in owners : Descends(b, o)}
    BY DEF Owned
  <1> HIDE DEF owners
  <1>5. ASSUME NEW b \in bs, NEW o \in owners, Descends(b, o) PROVE Descends(b, s.root)
    BY <1>3, <1>5, DescendsTransitive DEF Points
  <1> QED BY <1>2, <1>4, <1>5

(* Writing the new root's overlay moves the state db to the new root.      *)
LEMMA DiskMoves ==
    ASSUME IInv, SInv("exact"), RollState, NEW d \in Points, Rolled("exact", d), Chunks(d),
           NEW r, r = Head(rids), Fits(d, r), r \in InsertResult, NEW k \in Keys
    PROVE  disk'[k] = Replay(Moved(d, r).root, k)
  <1>1. /\ disk' = IF r.rootMoves
                   THEN [x \in Keys |-> IF x \in DOMAIN mem[NewRoot(r)]
                                        THEN mem[NewRoot(r)][x] ELSE disk[x]]
                   ELSE disk
        /\ disk[k] = Replay(d.root, k)
    BY DEF RollState, Rolled
  <1>2. CASE ~r.rootMoves
    BY <1>1, <1>2 DEF Moved
  <1>3. CASE r.rootMoves
    <2> DEFINE a == NewRoot(r)
    <2>1. /\ r.blk \in Seq(Content) /\ r.oldRoot \in Nat /\ Height(r.blk) \in Nat
          /\ r.oldRoot = Height(d.root) /\ Height(r.blk) > r.oldRoot
      BY HeightType DEF InsertResult, Fits
    <2>2. r.oldRoot + 1 \in 0..Height(r.blk) /\ r.oldRoot \in 0..(r.oldRoot + 1)
          /\ (r.oldRoot + 1) - 1 = r.oldRoot
      BY <2>1
    <2>3. a \in Seq(Content) /\ Height(a) = r.oldRoot + 1
      BY <2>1, <2>2, AncestorType DEF NewRoot
    <2>4. Parent(a) = d.root
      <3>1. Parent(a) = Ancestor(Ancestor(r.blk, r.oldRoot + 1), r.oldRoot)
        BY <2>2, <2>3 DEF Parent, NewRoot
      <3>2. Ancestor(Ancestor(r.blk, r.oldRoot + 1), r.oldRoot) = Ancestor(r.blk, r.oldRoot)
        BY <2>1, <2>2, AncestorOfAncestor
      <3> QED BY <3>1, <3>2, FitsOldRoot
    <2>5. a \in DOMAIN mem
      <3>1. r = rids[1] /\ 1 \in 1..Len(rids)
        BY HeadTailProperties, LenProperties, EmptySeq DEF IInv, TypeOK, RollState
      <3> QED BY <1>3, <3>1 DEF IInv, RollReady
    <2>6. DOMAIN mem[a] = Touch[Payload(a)]
      BY <2>1, <2>3, <2>5 DEF Chunks
    <2>7. \A x \in DOMAIN mem[a] : mem[a][x] = Replay(a, x)
      BY <2>5 DEF SInv, Overlaid
    <2>8. disk'[k] = IF k \in DOMAIN mem[a] THEN mem[a][k] ELSE disk[k]
      BY <1>1, <1>3
    <2>9. Moved(d, r).root = a
      BY <1>3 DEF Moved
    <2> HIDE DEF a
    <2>10. k \notin Touch[Payload(a)] => Replay(a, k) = Replay(Parent(a), k)
      BY <2>1, <2>3, ReplayNext
    <2> QED BY <1>1, <2>4, <2>6, <2>7, <2>8, <2>9, <2>10
  <1> QED BY <1>2, <1>3

(* The roll thread takes the next result: the state db moves to its root,  *)
(* and the chunks that only the old root held are released.                *)
LEMMA RollStateStore ==
    ASSUME NEW v, IInv, SInv(v), IInv', RollState
    PROVE  SInv(v)'
  <1>0. PICK r : r = Head(rids)
    OBVIOUS
  <1>1. /\ r \in InsertResult /\ rids' = Tail(rids) /\ rids' \in Seq(InsertResult)
        /\ Len(rids') = Len(rids) - 1 /\ r = rids[1] /\ Len(rids) \in Nat /\ Len(rids) # 0
        /\ \A i \in 1..Len(rids') : rids'[i] = rids[i + 1]
        /\ rids # <<>> /\ rids \in Seq(InsertResult)
    BY <1>0, HeadTailProperties, LenProperties, EmptySeq DEF IInv, TypeOK, RollState
  <1>2. /\ cur = <<>> /\ cur' = <<r>>
        /\ mem' = [b \in Owned(DOMAIN mem, root, rids') |-> mem[b]]
        /\ UNCHANGED <<root, head, marker, status, index, datas, job, feed, blkq, exec, got>>
    BY <1>0 DEF RollState
  <1>3. Running /\ job # "idle" /\ job # "down"
    BY <1>1 DEF SInv, Quiet, IInv, DeadIsEmpty, Running
  <1>4. PICK d \in Points : Rolled(v, d) /\ Chunks(d) /\ Written(d) /\ Follows(d)
    BY <1>3 DEF SInv, DiskHolds
  <1>5. PICK u : u = Moved(d, r)
    OBVIOUS
  <1>6. Now' = Now /\ Now \in Points /\ Saved' = Saved /\ Now.root = root
    BY <1>2 DEF Now, Saved, StoreBlock, Points, IInv, TypeOK
  <1>7. Fits(d, r) /\ u \in Points /\ Leads(u, rids', Now)
    BY <1>0, <1>1, <1>4, <1>5, <1>6, LeadsTail DEF Rolled
  <1>8. /\ Height(u.root) = RealRoot(r) /\ Descends(u.root, d.root) /\ Descends(r.blk, u.root)
        /\ u.root \in Seq(Content) /\ d.root \in Seq(Content)
        /\ Height(u.root) \in Nat /\ Height(d.root) \in Nat /\ Height(d.root) <= Height(u.root)
    BY <1>1, <1>4, <1>5, <1>7, MovedType, HeightType DEF Points, Descends
  <1>9. DOMAIN mem \subseteq Seq(Content) /\ DOMAIN mem' = Owned(DOMAIN mem, root, rids')
        /\ \A b \in DOMAIN mem' : mem'[b] = mem[b]
    BY <1>2 DEF IInv, TypeOK
  <1>10. /\ \A b \in DOMAIN mem : Descends(b, u.root) => b \in DOMAIN mem'
         /\ \A b \in DOMAIN mem' : b \in DOMAIN mem /\ Descends(b, u.root)
    BY <1>1, <1>6, <1>7, <1>9, StartIsOwned
  <1>11. Rolled(v, u)'
    <2>1. v = "exact" => \A k \in Keys : disk'[k] = Replay(u.root, k)
      BY <1>0, <1>1, <1>4, <1>5, <1>7, DiskMoves
    <2>2. Leads(u, rids', Now')
      BY <1>6, <1>7
    <2> QED BY <2>1, <2>2 DEF Rolled, Replay
  <1>12. Chunks(u)'
    <2>1. ASSUME NEW b \in DOMAIN mem'
          PROVE  /\ Descends(b, u.root)
                 /\ \A h \in Height(u.root)..Height(b) : Ancestor(b, h) \in DOMAIN mem'
                 /\ Height(b) > Height(u.root) => DOMAIN mem'[b] = Touch[Payload(b)]
      <3>1. b \in DOMAIN mem /\ b \in Seq(Content) /\ Height(b) \in Nat /\ Descends(b, u.root)
        BY <1>9, <1>10, <2>1, HeightType
      <3>2. ASSUME NEW h \in Height(u.root)..Height(b) PROVE Ancestor(b, h) \in DOMAIN mem'
        <4>1. h \in Height(d.root)..Height(b)
          BY <1>8, <3>1
        <4>2. Ancestor(b, h) \in DOMAIN mem
          BY <1>4, <3>1, <4>1 DEF Chunks
        <4>3. Descends(Ancestor(b, h), u.root)
          BY <1>8, <3>1, <3>2, AncestorDescends
        <4> QED BY <1>10, <4>2, <4>3
      <3>3. Height(b) > Height(u.root) => DOMAIN mem[b] = Touch[Payload(b)]
        BY <1>4, <1>8, <3>1 DEF Chunks
      <3> QED BY <1>9, <2>1, <3>1, <3>2, <3>3
    <2> QED BY <2>1 DEF Chunks, Descends, Ancestor, Height, Payload
  <1>13. \A n \in 0..Len(rids') : Before(n)' = Before(n + 1) /\ Before(0) = {}
    <2> TAKE n \in 0..Len(rids')
    <2>1. Before(n)' = {r.blk} \cup {rids'[j].blk : j \in 1..n}
      BY <1>2 DEF Before
    <2>2. Before(n + 1) = {rids[j].blk : j \in 1..(n + 1)} /\ Before(0) = {}
      BY <1>2 DEF Before
    <2>3. \A j \in 1..n : j + 1 \in 1..(n + 1) /\ rids'[j] = rids[j + 1]
      BY <1>1
    <2>4. \A j \in 1..(n + 1) : j = 1 \/ (j - 1 \in 1..n /\ rids'[j - 1] = rids[j])
      <3> TAKE j \in 1..(n + 1)
      <3>1. j # 1 => j - 1 \in 1..n /\ (j - 1) + 1 = j
        BY <1>1
      <3> QED BY <2>3, <3>1
    <2>5. 1 \in 1..(n + 1) /\ r = rids[1]
      BY <1>1
    <2>6. \A x : x \in Before(n)' <=> (x = r.blk \/ \E j \in 1..n : x = rids'[j].blk)
      BY <2>1
    <2>7. \A x : x \in Before(n + 1) <=> \E j \in 1..(n + 1) : x = rids[j].blk
      BY <2>2
    <2>8. \A x : x \in Before(n)' => x \in Before(n + 1)
      BY <2>3, <2>5, <2>6, <2>7
    <2>9. \A x : x \in Before(n + 1) => x \in Before(n)'
      BY <2>4, <2>5, <2>6, <2>7
    <2>10. Before(n)' = Before(n + 1)
      BY <2>8, <2>9
    <2> QED BY <2>2, <2>10
  <1>14. ASSUME NEW b, NEW bs, ChainStored(d, b, bs), Descends(b, u.root)
         PROVE  ChainStored(u, b, bs)'
    <2>1. b \in DOMAIN mem' /\ b \in Seq(Content) /\ Height(b) \in Nat
      BY <1>9, <1>10, <1>14, HeightType DEF ChainStored
    <2>2. ASSUME NEW h \in 1..(Height(b) - 1), h >= Height(u.root)
          PROVE  Ancestor(b, h) \in datas \cup bs
      BY <1>8, <1>14, <2>1, <2>2 DEF ChainStored
    <2> QED BY <1>2, <2>1, <2>2 DEF ChainStored, Ancestor, Height
  <1>15. Written(u)'
    <2>1. ChainStored(u, r.blk, {})'
      <3>1. 1 \in 1..Len(rids) /\ 1 - 1 = 0 /\ 0 \in 0..Len(rids')
        BY <1>1
      <3>2. ChainStored(d, rids[1].blk, Before(1 - 1))
        BY <1>4, <3>1 DEF Written
      <3>3. ChainStored(d, r.blk, {})
        BY <1>1, <1>13, <3>1, <3>2
      <3> QED BY <1>8, <1>14, <3>3
    <2>2. ASSUME NEW i \in 1..Len(rids') PROVE ChainStored(u, rids[i].blk, Before(i - 1))'
      <3>1. i + 1 \in 1..Len(rids) /\ rids'[i] = rids[i + 1] /\ (i + 1) - 1 = (i - 1) + 1
            /\ i - 1 \in 0..Len(rids')
        BY <1>1
      <3>2. ChainStored(d, rids[i + 1].blk, Before((i + 1) - 1))
        BY <1>4, <3>1 DEF Written
      <3>3. Before(i - 1)' = Before((i + 1) - 1)
        BY <1>13, <3>1
      <3>4. ChainStored(d, rids'[i].blk, Before(i - 1)')
        BY <3>1, <3>2, <3>3
      <3>5. Descends(rids'[i].blk, u.root)
        BY <1>1, <1>6, <1>7, <2>2, LeadsClimbs
      <3> DEFINE b == rids'[i].blk
                 bs == Before(i - 1)'
      <3>6. ASSUME NEW h \in 1..(Height(b) - 1), h >= Height(u.root)
            PROVE  Ancestor(b, h) \in datas \cup bs
        <4>1. b \in DOMAIN mem /\ Height(b) \in Nat
          BY <1>9, <3>4, HeightType DEF ChainStored
        <4> QED BY <1>8, <3>4, <3>6, <4>1 DEF ChainStored
      <3>7. b \in DOMAIN mem'
        BY <1>10, <3>4, <3>5 DEF ChainStored
      <3> QED BY <1>2, <3>6, <3>7 DEF ChainStored, Ancestor, Height
    <2>3. \A i \in 1..Len(cur') : i = 1 /\ cur'[i] = r
      BY <1>2
    <2>4. ASSUME NEW i \in 1..Len(cur') PROVE ChainStored(u, cur[i].blk, {})'
      BY <2>1, <2>3 DEF ChainStored, Ancestor, Height
    <2> QED BY <2>2, <2>4 DEF Written
  <1>16. Follows(u)'
    <2>1. ~Rebuilding' => (Fits(Saved, r) /\ u = Moved(Saved, r))'
      <3> SUFFICES ASSUME ~Rebuilding PROVE Fits(Saved, r) /\ u = Moved(Saved, r)
        BY <1>2, <1>6 DEF Rebuilding, Fits, Moved, NewRoot, Ancestor, Descends, Parent, Height
      <3>1. d = Saved
        BY <1>2, <1>4 DEF Follows
      <3> QED BY <1>5, <1>7, <3>1
    <2>2. ASSUME job = "rebuild" PROVE u.root = Saved.root /\ root = Saved.root
      <3>1. d.root = Saved.root /\ root = d.root
        BY <1>4, <2>2 DEF Follows
      <3>2. Descends(root, u.root)
        BY <1>1, <1>6, <1>7, LeadsClimbs
      <3>3. Height(u.root) <= Height(d.root)
        BY <3>1, <3>2 DEF Descends
      <3>4. r.oldRoot = Height(d.root)
        BY <1>7 DEF Fits
      <3>5. ~r.rootMoves
        BY <1>8, <3>3, <3>4 DEF RealRoot
      <3> QED BY <1>5, <3>1, <3>5 DEF Moved
    <2>3. cur' # <<>> /\ cur'[1] = r
      BY <1>2
    <2> QED BY <1>2, <1>6, <2>1, <2>2, <2>3 DEF Follows, Rebuilding
  <1>17. DiskHolds(v)'
    BY <1>7, <1>11, <1>12, <1>15, <1>16 DEF DiskHolds
  <1>18. StoreLinked' /\ Exact(Saved)'
    BY <1>2, <1>6 DEF SInv, StoreLinked, Exact
  <1>19. Before(Len(rids))' = Before(Len(rids))
    <2>1. Len(rids') \in 0..Len(rids') /\ Len(rids') + 1 = Len(rids)
      BY <1>1
    <2> QED BY <1>13, <2>1
  <1>20. DataKept'
    BY <1>2, <1>10, <1>19 DEF SInv, DataKept, Height
  <1>21. Overlaid(v)'
    BY <1>9, <1>10 DEF SInv, Overlaid, Replay
  <1>22. ReadRight(v)' /\ Quiet' /\ DownDisk(v)' /\ NeverPanics'
    <2>1. ReadRight(v)' /\ DownDisk(v)' /\ NeverPanics'
      BY <1>2, <1>3 DEF SInv, ReadRight, Replay, Parent, Ancestor, Height, DownDisk, NeverPanics
    <2>2. Quiet'
      BY <1>2, <1>3 DEF Quiet, Running
    <2> QED BY <2>1, <2>2
  <1>23. Refeeds'
    BY <1>2, <1>6, <1>19 DEF SInv, Refeeds, Rebuilding, Exact
  <1> QED BY <1>17, <1>18, <1>20, <1>21, <1>22, <1>23 DEF SInv

\* Block b became a chunk with overlay w, and r is its result.
Inserted(b, r, w) ==
    /\ b \in Seq(Content) /\ Height(b) > 0 /\ Payload(b) \in Content
    /\ r.blk = b /\ Fits(Now, r) /\ Now' = Moved(Now, r) /\ Now \in Points
    /\ InTree(Parent(b)) /\ Running
    /\ rids' = Append(rids, r)
    /\ mem' = [x \in Owned(DOMAIN mem \cup {b}, root', rids') |-> IF x = b THEN w ELSE mem[x]]
    /\ DOMAIN w = Touch[Payload(b)] /\ DOMAIN got = Touch[Payload(b)]
    /\ \A k \in DOMAIN w : w[k] = Append(got[k], Payload(b))

(* What Roller::insert does with the executed block b: its result fits the *)
(* tree, and the tree moves by it.                                         *)
LEMMA InsertMoves ==
    ASSUME IInv, Insert, NEW b, b = exec[1]
    PROVE  \E r \in InsertResult : \E w : Inserted(b, r, w)
  <1> DEFINE up   == Height(b) > Height(head)
             roll == up /\ RootFollows(b)
             hm   == IF ~up THEN "none" ELSE IF Parent(b) = head THEN "extend" ELSE "reorg"
             r    == [blk |-> b, oldRoot |-> Height(root), rootMoves |-> roll, headMoves |-> hm]
             w    == [k \in Touch[Payload(b)] |-> Append(got[k], Payload(b))]
  <1>1. b \in Seq(Content) /\ root \in Seq(Content) /\ head \in Seq(Content) /\ Now \in Points
    <2>1. Len(exec) \in Nat /\ Len(exec) # 0
      BY EmptySeq, LenProperties DEF IInv, TypeOK, Insert
    <2> QED BY <2>1, ElementOfSeq DEF IInv, TypeOK, Now, Points
  <1>2. /\ Height(b) \in Nat /\ Height(root) \in Nat /\ Height(head) \in Nat
        /\ Height(b) > Height(root) /\ Height(b) <= Height(head) + 1 /\ InTree(Parent(b))
        /\ Running /\ Descends(Parent(b), root)
    BY <1>1, HeightType DEF IInv, ExecFits, DeadIsEmpty, Insert, InTree
  <1>3. Payload(b) \in Content
    BY <1>1, <1>2, BlockIsAppend
  <1>4. Descends(b, root)
    <2>1. Parent(b) \in Seq(Content) /\ Height(b) - 1 \in 0..Height(b)
      BY <1>1, <1>2, ParentType
    <2>2. Descends(b, Parent(b))
      BY <1>1, <2>1, DescendsAncestor DEF Parent
    <2> QED BY <1>1, <1>2, <2>1, <2>2, DescendsTransitive
  <1>5. hm \in {"none", "extend", "reorg"} /\ roll \in BOOLEAN
        /\ (hm # "none" <=> up) /\ (hm = "extend" => Parent(b) = head)
    OBVIOUS
  <1>6. roll <=> up /\ Height(b) > Height(root) + Level
    BY DEF RootFollows
  <1>7. /\ rids' = Append(rids, r)
        /\ mem' = [x \in Owned(DOMAIN mem \cup {b}, root', rids') |-> IF x = b THEN w ELSE mem[x]]
        /\ head' = IF up THEN b ELSE head
        /\ root' = IF roll THEN Ancestor(b, Height(root) + 1) ELSE root
        /\ DOMAIN got = Touch[Payload(b)]
    BY DEF Insert, InsertChild, NextRoot
  <1>8. DOMAIN w = Touch[Payload(b)] /\ \A k \in DOMAIN w : w[k] = Append(got[k], Payload(b))
    OBVIOUS
  <1>9. r.blk = b /\ r.oldRoot = Height(root) /\ r.rootMoves = roll /\ r.headMoves = hm
    OBVIOUS
  <1>10. Now.root = root /\ Now.head = head
    BY DEF Now
  <1>11. up => Height(b) = Height(head) + 1
    BY <1>2
  <1> HIDE DEF w
  <1>12. r \in InsertResult
    <2> HIDE DEF roll, hm
    <2> QED BY <1>1, <1>2, <1>5 DEF InsertResult
  <1> HIDE DEF r, hm, roll
  <1>13. Fits(Now, r)
    <2>1. r.oldRoot = Height(Now.root) /\ Height(r.blk) > r.oldRoot /\ Descends(r.blk, Now.root)
      BY <1>2, <1>4, <1>9, <1>10
    <2>2. r.headMoves # "none" => Height(r.blk) = Height(Now.head) + 1
      BY <1>5, <1>9, <1>10, <1>11
    <2>3. r.headMoves = "extend" => Parent(r.blk) = Now.head
      BY <1>5, <1>9, <1>10
    <2>4. r.rootMoves <=> (r.headMoves # "none" /\ Height(r.blk) > Height(Now.root) + Level)
      BY <1>5, <1>6, <1>9, <1>10
    <2> QED BY <2>1, <2>2, <2>3, <2>4 DEF Fits
  <1>14. Now' = Moved(Now, r)
    <2>1. root' = IF r.rootMoves THEN NewRoot(r) ELSE Now.root
      BY <1>7, <1>9, <1>10 DEF NewRoot
    <2>2. head' = IF r.headMoves = "none" THEN Now.head ELSE r.blk
      BY <1>5, <1>7, <1>9, <1>10
    <2> QED BY <2>1, <2>2 DEF Now, Moved
  <1>15. Height(b) > 0
    BY <1>2
  <1>16. Inserted(b, r, w)
    BY <1>1, <1>2, <1>3, <1>7, <1>8, <1>9, <1>13, <1>14, <1>15 DEF Inserted
  <1> QED BY <1>12, <1>16

\* A result keeps the root at distance Level from the head.
LEMMA MovedExact ==
    ASSUME NEW s \in Points, NEW r \in InsertResult, Fits(s, r), Exact(s),
           Height(s.head) <= Height(s.root) + Level
    PROVE  Exact(Moved(s, r))
  <1> DEFINE u == Moved(s, r)
  <1>1. Height(s.root) \in Nat /\ Height(s.head) \in Nat
    BY HeightType DEF Points
  <1>2. Height(u.root) = RealRoot(r)
    BY MovedType
  <1>3. CASE r.headMoves = "none"
    <2>1. u.root = s.root /\ u.head = s.head
      BY <1>3 DEF Fits, Moved
    <2> HIDE DEF u
    <2>2. Exact(u)
      BY <2>1 DEF Exact
    <2> QED BY <2>2 DEF u
  <1>4. CASE r.headMoves # "none"
    <2>1. u.head = r.blk /\ Height(r.blk) = Height(s.head) + 1 /\ r.oldRoot = Height(s.root)
          /\ (r.rootMoves <=> Height(r.blk) > Height(s.root) + Level)
      BY <1>4 DEF Fits, Moved
    <2> HIDE DEF u
    <2>2. Height(u.root) = IF r.rootMoves THEN Height(s.root) + 1 ELSE Height(s.root)
      BY <1>2, <2>1 DEF RealRoot
    <2>3. Exact(u)
      BY <1>1, <2>1, <2>2, LevelAssumption DEF Exact
    <2> QED BY <2>3 DEF u
  <1> QED BY <1>3, <1>4

(* A new chunk: its overlay is the replay of its chain, its ancestors'     *)
(* data is stored or on the way, and a restart inserts the indexed chain.  *)
LEMMA InsertStore ==
    ASSUME NEW v, IInv, SInv(v), IInv', Insert
    PROVE  SInv(v)'
  <1>0. PICK b : b = exec[1]
    OBVIOUS
  <1>a. PICK r \in InsertResult : \E w : Inserted(b, r, w)
    BY <1>0, InsertMoves
  <1>b. PICK w : Inserted(b, r, w)
    BY <1>a
  <1>1. /\ b \in Seq(Content) /\ Height(b) > 0 /\ Payload(b) \in Content
        /\ r.blk = b /\ Fits(Now, r) /\ Now' = Moved(Now, r) /\ Now \in Points
        /\ InTree(Parent(b)) /\ Running
        /\ rids' = Append(rids, r)
        /\ mem' = [x \in Owned(DOMAIN mem \cup {b}, root', rids') |-> IF x = b THEN w ELSE mem[x]]
        /\ DOMAIN w = Touch[Payload(b)] /\ DOMAIN got = Touch[Payload(b)]
        /\ \A k \in DOMAIN w : w[k] = Append(got[k], Payload(b))
    BY <1>b DEF Inserted
  <1>c. PICK n : n = Len(rids)
    OBVIOUS
  <1> DEFINE p == Parent(b)
  <1>2. /\ rids' \in Seq(InsertResult) /\ n \in Nat /\ Len(rids') = n + 1
        /\ rids'[n + 1] = r /\ \A i \in 1..n : rids'[i] = rids[i]
    BY <1>1, <1>c, AppendProperties, LenProperties DEF IInv, TypeOK
  <1>3. /\ exec # <<>> /\ exec' = <<>> /\ got' = Empty /\ UNCHANGED <<durable, job, feed, blkq, cur>>
        /\ job # "idle" /\ job # "down"
    BY <1>1 DEF Insert, SInv, Quiet, Running
  <1>4. PICK d \in Points : Rolled(v, d) /\ Chunks(d) /\ Written(d) /\ Follows(d)
    BY <1>1 DEF SInv, DiskHolds
  <1>5. /\ p \in Seq(Content) /\ p \in DOMAIN mem /\ Height(p) = Height(b) - 1 /\ Height(b) \in Nat
        /\ Descends(p, d.root) /\ d.root \in Seq(Content) /\ Height(d.root) \in Nat
        /\ Height(d.root) <= Height(p)
    BY <1>1, <1>4, ParentType, HeightType DEF InTree, Chunks, Points, Descends
  <1>6. Now' \in Points /\ Saved' = Saved /\ Leads(d, rids', Now')
    <2>1. Saved' = Saved
      BY <1>3 DEF Saved, StoreBlock, durable
    <2>2. Now' \in Points
      BY <1>1, MovedType
    <2>3. Leads(d, Append(rids, r), Moved(Now, r))
      BY <1>1, <1>4, LeadsAppend DEF Rolled, IInv, TypeOK
    <2> QED BY <1>1, <2>1, <2>2, <2>3
  <1>7. Descends(b, d.root) /\ \A h \in Height(d.root)..(Height(b) - 1) : Ancestor(b, h) \in DOMAIN mem
    <2>1. Height(b) - 1 \in 0..Height(b)
      BY <1>5
    <2>2. Descends(b, p)
      BY <1>1, <2>1, DescendsAncestor DEF Parent
    <2>3. Descends(b, d.root)
      BY <1>1, <1>5, <2>2, DescendsTransitive
    <2>4. ASSUME NEW h \in Height(d.root)..(Height(b) - 1) PROVE Ancestor(b, h) \in DOMAIN mem
      <3>1. h \in Height(d.root)..Height(p) /\ h \in 0..(Height(b) - 1)
        BY <1>5
      <3>2. Ancestor(p, h) \in DOMAIN mem
        BY <1>4, <1>5, <3>1 DEF Chunks
      <3>3. Ancestor(p, h) = Ancestor(b, h)
        BY <1>1, <2>1, <3>1, AncestorOfAncestor DEF Parent
      <3> QED BY <3>2, <3>3
    <2> QED BY <2>3, <2>4
  <1> HIDE DEF p
  <1>8. /\ DOMAIN mem \cup {b} \subseteq Seq(Content)
        /\ \A x \in DOMAIN mem \cup {b} : Descends(x, d.root)
    BY <1>1, <1>4, <1>7 DEF IInv, TypeOK, Chunks
  <1>9. DOMAIN mem' = DOMAIN mem \cup {b}
    <2>1. Now'.root = root'
      BY DEF Now
    <2>2. DOMAIN mem' = Owned(DOMAIN mem \cup {b}, Now'.root, rids')
      BY <1>1, <2>1
    <2> QED BY <1>2, <1>6, <1>8, <2>2, StartIsOwned
  <1>10. mem'[b] = w /\ \A x \in DOMAIN mem : x # b => mem'[x] = mem[x]
    BY <1>1, <1>9
  <1>11. Rolled(v, d)'
    BY <1>3, <1>4, <1>6 DEF Rolled, Replay, durable
  <1>12. Chunks(d)'
    <2>1. ASSUME NEW x \in DOMAIN mem'
          PROVE  /\ Descends(x, d.root)
                 /\ \A h \in Height(d.root)..Height(x) : Ancestor(x, h) \in DOMAIN mem'
                 /\ Height(x) > Height(d.root) => DOMAIN mem'[x] = Touch[Payload(x)]
      <3>1. CASE x = b
        <4>1. \A h \in Height(d.root)..Height(b) : h = Height(b) \/ h \in Height(d.root)..(Height(b) - 1)
          BY <1>5
        <4>2. Ancestor(b, Height(b)) = b
          BY <1>1, AncestorSelf
        <4>3. \A h \in Height(d.root)..Height(b) : Ancestor(b, h) \in DOMAIN mem'
          BY <1>7, <1>9, <4>1, <4>2
        <4>4. DOMAIN mem'[b] = Touch[Payload(b)]
          BY <1>1, <1>10
        <4> QED BY <1>7, <3>1, <4>3, <4>4
      <3>2. CASE x # b
        BY <1>4, <1>9, <1>10, <2>1, <3>2 DEF Chunks
      <3> QED BY <3>1, <3>2
    <2> QED BY <2>1 DEF Chunks, Descends, Ancestor, Height, Payload
  <1>13. /\ \A i \in 0..n : Before(i)' = Before(i)
         /\ Before(n + 1)' = Before(n) \cup {b}
    <2>1. ASSUME NEW i \in 0..n PROVE Before(i)' = Before(i)
      <3>1. \A j \in 1..i : rids'[j] = rids[j]
        BY <1>2
      <3>2. {rids'[j].blk : j \in 1..i} = {rids[j].blk : j \in 1..i}
        BY <3>1
      <3> QED BY <1>3, <3>2 DEF Before
    <2>2. {rids'[j].blk : j \in 1..(n + 1)} = {rids'[j].blk : j \in 1..n} \cup {b}
      <3>1. 1..(n + 1) = 1..n \cup {n + 1} /\ rids'[n + 1].blk = b
        BY <1>1, <1>2
      <3>2. \A x : (\E j \in 1..(n + 1) : x = rids'[j].blk) <=> ((\E j \in 1..n : x = rids'[j].blk) \/ x = b)
        BY <3>1
      <3> QED BY <3>2
    <2>3. Before(n + 1)' = (IF cur = <<>> THEN {} ELSE {cur[1].blk}) \cup {rids'[j].blk : j \in 1..(n + 1)}
      BY <1>3 DEF Before
    <2>4. Before(n) = (IF cur = <<>> THEN {} ELSE {cur[1].blk}) \cup {rids'[j].blk : j \in 1..n}
      <3>1. {rids'[j].blk : j \in 1..n} = {rids[j].blk : j \in 1..n}
        BY <1>2
      <3> QED BY <3>1 DEF Before
    <2>5. Before(n + 1)' = Before(n) \cup {b}
      BY <2>2, <2>3, <2>4
    <2> QED BY <2>1, <2>5
  <1>14. \A x, bs : ChainStored(d, x, bs) => /\ x \in DOMAIN mem'
                                             /\ \A h \in 1..(Height(x) - 1) : h >= Height(d.root) =>
                                                    Ancestor(x, h) \in datas' \cup bs
    BY <1>3, <1>9 DEF ChainStored, durable
  <1>15. Written(d)'
    <2>1. ASSUME NEW i \in 1..Len(cur') PROVE ChainStored(d, cur[i].blk, {})'
      <3>1. ChainStored(d, cur[i].blk, {}) /\ cur' = cur
        BY <1>3, <1>4, <2>1 DEF Written
      <3> QED BY <1>14, <3>1 DEF ChainStored, Ancestor, Height
    <2>2. ASSUME NEW i \in 1..Len(rids') PROVE ChainStored(d, rids[i].blk, Before(i - 1))'
      <3>1. CASE i # n + 1
        <4>1. i \in 1..n /\ i - 1 \in 0..n
          BY <1>2, <2>2, <3>1
        <4>2. ChainStored(d, rids'[i].blk, Before(i - 1)')
          BY <1>2, <1>4, <1>13, <1>c, <4>1 DEF Written
        <4> QED BY <1>14, <4>2 DEF ChainStored, Ancestor, Height
      <3>2. CASE i = n + 1
        <4>1. rids'[i].blk = b /\ Before(i - 1)' = Before(n)
          <5>1. i - 1 = n /\ n \in 0..n
            BY <1>2, <3>2
          <5> QED BY <1>1, <1>2, <1>13, <3>2, <5>1
        <4>2. ASSUME NEW h \in 1..(Height(b) - 1), h >= Height(d.root)
              PROVE  Ancestor(b, h) \in datas' \cup Before(n)
          <5>1. h \in Height(d.root)..(Height(b) - 1) /\ h \in 0..Height(b) /\ h > 0
            BY <1>5, <4>2
          <5>2. Ancestor(b, h) \in DOMAIN mem /\ Height(Ancestor(b, h)) = h
            BY <1>1, <1>7, <5>1, AncestorType
          <5> QED BY <1>3, <1>c, <5>1, <5>2 DEF SInv, DataKept, durable
        <4>3. b \in DOMAIN mem'
          BY <1>9
        <4> QED BY <4>1, <4>2, <4>3 DEF ChainStored, Ancestor, Height
      <3> QED BY <3>1, <3>2
    <2> QED BY <2>1, <2>2 DEF Written
  <1>16. ASSUME Rebuilding
         PROVE  /\ Height(b) = Height(head) + 1 /\ Descends(Saved.head, b) /\ b \in datas
                /\ Height(b) <= status.last /\ head' = b
                /\ Height(head) \in Nat /\ Len(exec) = 1 /\ Len(blkq) \in Nat /\ Len(feed) \in Nat
    <2>1. /\ Len(exec) = 1 /\ Len(blkq) \in Nat /\ Len(feed) \in Nat /\ Height(head) \in Nat
          /\ 1 \in 1..Len(exec)
      <3>1. Len(exec) \in Nat /\ Len(exec) # 0 /\ Len(exec) <= 1
        BY <1>3, LenProperties, EmptySeq DEF IInv, TypeOK
      <3>2. \A x \in Nat : x # 0 /\ x <= 1 => x = 1
        OBVIOUS
      <3>3. Len(exec) = 1
        BY <3>1, <3>2
      <3> QED BY <3>3, LenProperties, HeightType DEF IInv, TypeOK
    <2>2. exec[1] = Ancestor(Saved.head, Height(head) + 1)
          /\ Height(head) + Len(exec) + Len(blkq) + Len(feed) = status.last
      BY <1>16, <2>1 DEF SInv, Refeeds
    <2>3. Height(head) < status.last
      BY <2>1, <2>2
    <2>4. Height(b) = Height(head) + 1 /\ Descends(Saved.head, b) /\ b \in datas
      BY <1>0, <1>1, <1>16, <2>2, <2>3, RefeedNext
    <2>5. head' = b
      <3>1. head' = IF r.headMoves = "none" THEN head ELSE b
        BY <1>1 DEF Now, Moved
      <3>2. Height(b) <= Height(head')
        <4>1. Height(b) > Height(head)
          BY <2>1, <2>4
        <4>2. b \in DOMAIN mem' /\ InTree(b)'
          <5>1. b \in DOMAIN mem'
            BY <1>9
          <5>2. Descends(b, root')
            <6>1. Now'.root = root' /\ Descends(r.blk, Moved(Now, r).root)
              BY <1>1, MovedType DEF Now
            <6> QED BY <1>1, <6>1
          <5> QED BY <5>1, <5>2 DEF InTree, Descends, Ancestor, Height
        <4>3. Running'
          BY <1>1, <1>3 DEF Running
        <4> QED BY <4>2, <4>3 DEF IInv, TreeShape, Height
      <3> QED BY <2>1, <2>4, <3>1, <3>2
    <2>6. status.last \in Nat
      BY DEF IInv, TypeOK
    <2> QED BY <2>1, <2>3, <2>4, <2>5, <2>6
  <1>17. Follows(d)'
    <2>1. ASSUME job = "rebuild" PROVE root' = Saved.root
      <3>1. root = Saved.root /\ d.root = Saved.root
        BY <1>4, <2>1 DEF Follows
      <3>2. Height(b) <= Height(root) + Level
        <4>1. Height(Saved.root) = status.root /\ status.root \in Nat /\ status.last \in Nat
              /\ status.last <= status.root + Level
          BY SavedType DEF IInv, SInv, StoreLinked
        <4>2. Height(b) <= status.last
          BY <1>16, <2>1 DEF Rebuilding
        <4> QED BY <1>5, <3>1, <4>1, <4>2, LevelAssumption
      <3>3. ~(Height(b) > Height(root) + Level)
        BY <1>5, <3>1, <3>2, LevelAssumption
      <3>4. ~r.rootMoves
        BY <1>1, <3>3 DEF Fits, Now
      <3> QED BY <1>1, <3>1, <3>4 DEF Now, Moved
    <2> QED BY <1>3, <1>4, <1>6, <2>1
            DEF Follows, Rebuilding, Fits, Moved, NewRoot, Ancestor, Descends, Parent, Height
  <1>18. DiskHolds(v)'
    BY <1>4, <1>11, <1>12, <1>15, <1>17 DEF DiskHolds
  <1>19. StoreLinked' /\ Exact(Saved)'
    BY <1>3, <1>6 DEF SInv, StoreLinked, Exact, durable
  <1>20. DataKept'
    <2>1. n \in 0..n /\ Before(Len(rids))' = Before(n) \cup {b}
      BY <1>2, <1>13
    <2>2. datas' = datas
      BY <1>3 DEF durable
    <2>3. \A x \in DOMAIN mem' : Height(x) > 0 => x \in datas \cup (Before(n) \cup {b})
      BY <1>9, <1>c DEF SInv, DataKept
    <2> QED BY <2>1, <2>2, <2>3 DEF DataKept, Height
  <1>21. Overlaid(v)'
    <2> SUFFICES ASSUME v = "exact" PROVE Overlaid(v)'
      BY DEF Overlaid
    <2>1. \A k \in DOMAIN w : w[k] = Replay(b, k)
      <3> TAKE k \in DOMAIN w
      <3>1. w[k] = Append(got[k], Payload(b)) /\ got[k] = Replay(Parent(b), k)
        BY <1>0, <1>1, <1>3 DEF SInv, ReadRight
      <3>2. k \in Touch[Payload(b)]
        BY <1>1
      <3> QED BY <1>1, <3>1, <3>2, ReplayNext
    <2>2. \A x \in DOMAIN mem' : \A k \in DOMAIN mem'[x] : mem'[x][k] = Replay(x, k)
      BY <1>9, <1>10, <2>1 DEF SInv, Overlaid
    <2> QED BY <2>2 DEF Overlaid, Replay
  <1>22. ReadRight(v)' /\ Quiet' /\ DownDisk(v)' /\ NeverPanics'
    BY <1>1, <1>3 DEF SInv, ReadRight, Quiet, Running, DownDisk, NeverPanics
  <1>23. Refeeds'
    <2> SUFFICES ASSUME Rebuilding PROVE Refeeds'
      BY <1>3 DEF Refeeds, Rebuilding
    <2>1. /\ Descends(Saved.head, head)
          /\ \A i \in 1..Len(blkq) : blkq[i] = Ancestor(Saved.head, Height(head) + Len(exec) + i)
          /\ \A i \in 1..Len(feed) : feed[i] = Ancestor(Saved.head, Height(head) + Len(exec) + Len(blkq) + i)
          /\ Height(head) + Len(exec) + Len(blkq) + Len(feed) = status.last
          /\ Before(Len(rids)) \subseteq datas
          /\ job = "rebuild_all" => marker /\ Exact(Now)
      BY DEF SInv, Refeeds
    <2>2. /\ Height(b) = Height(head) + 1 /\ Descends(Saved.head, b) /\ b \in datas /\ head' = b
          /\ Height(head) \in Nat /\ Len(exec) = 1 /\ Len(blkq) \in Nat /\ Len(feed) \in Nat
      BY <1>16
    <2>3. /\ head' = b /\ Len(exec') = 0 /\ blkq' = blkq /\ feed' = feed /\ status' = status
          /\ marker' = marker /\ datas' = datas /\ job' = job
      BY <1>3, <2>2 DEF durable
    <2>4. \A i \in 1..Len(blkq) : blkq[i] = Ancestor(Saved.head, Height(b) + 0 + i)
      <3> TAKE i \in 1..Len(blkq)
      <3>1. Height(head) + Len(exec) + i = Height(b) + 0 + i
        BY <2>2
      <3> QED BY <2>1, <3>1
    <2>5. \A i \in 1..Len(feed) : feed[i] = Ancestor(Saved.head, Height(b) + 0 + Len(blkq) + i)
      <3> TAKE i \in 1..Len(feed)
      <3>1. Height(head) + Len(exec) + Len(blkq) + i = Height(b) + 0 + Len(blkq) + i
        BY <2>2
      <3> QED BY <2>1, <3>1
    <2>6. Height(b) + 0 + Len(blkq) + Len(feed) = status.last
      BY <2>1, <2>2
    <2>7. Before(Len(rids))' \subseteq datas'
      BY <1>2, <1>13, <1>c, <2>1, <2>2, <2>3
    <2>8. job' = "rebuild_all" => marker' /\ Exact(Now)'
      <3> SUFFICES ASSUME job = "rebuild_all" PROVE marker /\ Exact(Now')
        BY <2>3 DEF Exact, Height
      <3>1. marker /\ Exact(Now)
        BY <2>1
      <3>2. Height(Now.head) <= Height(Now.root) + Level
        BY <1>1 DEF IInv, TreeShape, Now
      <3> QED BY <1>1, <3>1, <3>2, MovedExact
    <2>9. Saved.head' = Saved.head /\ Height(head)' = Height(b) /\ Descends(Saved.head, head)'
      BY <1>6, <2>2, <2>3 DEF Descends, Ancestor, Height
    <2>10. /\ \A i \in 1..Len(exec)' : exec'[i] = Ancestor(Saved.head, Height(head) + i)'
           /\ \A i \in 1..Len(blkq)' : blkq'[i] = Ancestor(Saved.head, Height(head) + Len(exec) + i)'
           /\ \A i \in 1..Len(feed)' :
                  feed'[i] = Ancestor(Saved.head, Height(head) + Len(exec) + Len(blkq) + i)'
      BY <2>3, <2>4, <2>5, <2>9 DEF Ancestor
    <2>11. Height(head)' + Len(exec)' + Len(blkq)' + Len(feed)' = status'.last
      BY <2>3, <2>6, <2>9
    <2> QED BY <2>7, <2>8, <2>9, <2>10, <2>11 DEF Refeeds
  <1> QED BY <1>18, <1>19, <1>20, <1>21, <1>22, <1>23 DEF SInv
-----------------------------------------------------------------------------
\* Nothing is stored before the first start.
LEMMA InitSInv == \A v : Init => SInv(v)
  <1> SUFFICES ASSUME NEW v, Init PROVE SInv(v)
    OBVIOUS
  <1>1. /\ job = "down" /\ mem = Empty /\ marker /\ status = [root |-> 0, last |-> 0]
        /\ index = Empty /\ exec = <<>> /\ rids = <<>> /\ cur = <<>>
    BY DEF Init
  <1>2. Saved = [root |-> Genesis, head |-> Genesis]
    BY <1>1 DEF Saved, StoreBlock
  <1>3. StoreLinked
    <2>1. DOMAIN index = {} /\ 1..0 = {}
      BY <1>1 DEF Empty
    <2> QED BY <1>1, <2>1, LevelAssumption DEF StoreLinked
  <1>4. Exact(Saved)
    BY <1>2, GenesisType DEF Exact
  <1>5. DiskHolds(v) /\ Refeeds /\ Quiet /\ DownDisk(v) /\ NeverPanics
    BY <1>1 DEF DiskHolds, Running, Refeeds, Rebuilding, Quiet, DownDisk, NeverPanics
  <1>6. DataKept /\ Overlaid(v) /\ ReadRight(v)
    BY <1>1 DEF DataKept, Overlaid, ReadRight, Empty
  <1> QED BY <1>3, <1>4, <1>5, <1>6 DEF SInv

\* Every step of the engine preserves the invariant of the stores.
LEMMA NextSInv == \A v : IInv /\ SInv(v) /\ [Next]_vars => SInv(v)'
  <1> SUFFICES ASSUME NEW v, IInv, SInv(v), [Next]_vars PROVE SInv(v)'
    OBVIOUS
  <1>0. IInv'
    BY NextIInv
  <1>1. CASE Open
    BY <1>1, OpenStore
  <1>2. CASE \E b \in Chains : Discover(b)
    BY <1>2, DiscoverStore
  <1>3. CASE \E b \in Chains : \E h \in 1..Height(b) : Synchronize(b, h)
    BY <1>3, SynchronizeStore
  <1>4. CASE Parse
    BY <1>4, ParseStore
  <1>5. CASE ExecBegin
    BY <1>5, ExecBeginStore
  <1>6. CASE \E k \in Keys : ExecRead(k)
    BY <1>6, ExecReadStore
  <1>7. CASE Insert
    BY <1>0, <1>7, InsertStore
  <1>8. CASE Refuse
    BY <1>8, RefuseStore
  <1>9. CASE Reject
    BY <1>9, InsertFailStore DEF Reject, Rebuilding, Running
  <1>10. CASE RollState
    BY <1>0, <1>10, RollStateStore
  <1>11. CASE RollStore
    BY <1>11, RollStoreStore
  <1>12. CASE Finish
    BY <1>12, FinishStore
  <1>13. CASE Crash
    BY <1>13, StopStore DEF Crash
  <1>14. CASE LoseState
    BY <1>14, LoseStateStore
  <1>15. CASE UNCHANGED vars
    <2>1. UNCHANGED <<tree, durable, rids, cur, job, feed, blkq, exec, got>>
      BY <1>15 DEF vars, pipeline
    <2>2. StoreLinked' /\ Exact(Saved)' /\ DiskHolds(v)' /\ DataKept' /\ Overlaid(v)'
      BY <2>1, StoreFrame DEF Running, Rebuilding
    <2>3. Saved' = Saved /\ Now' = Now /\ Before(Len(rids))' = Before(Len(rids))
      BY <2>1 DEF Saved, Now, StoreBlock, Before, tree, durable
    <2>4. ReadRight(v)' /\ Quiet' /\ DownDisk(v)' /\ NeverPanics'
      BY <2>1, <2>3 DEF SInv, ReadRight, Quiet, Running, DownDisk, NeverPanics, Replay, Parent, Ancestor, Height, durable
    <2>5. Refeeds'
      BY <2>1, <2>3 DEF SInv, Refeeds, Rebuilding, Exact, tree, durable
    <2> QED BY <2>2, <2>4, <2>5 DEF SInv
  <1> QED BY <1>1, <1>2, <1>3, <1>4, <1>5, <1>6, <1>7, <1>8, <1>9, <1>10, <1>11,
             <1>12, <1>13, <1>14, <1>15 DEF Next, Work, Arrive

\* The inductive invariant of the stores holds in every reachable state.
THEOREM StoreInvariant == Spec => [](IInv /\ SInv("exact"))
  <1>1. Init => IInv /\ SInv("exact")
    BY InitIInv, InitSInv
  <1>2. IInv /\ SInv("exact") /\ [Next]_vars => (IInv /\ SInv("exact"))'
    BY NextIInv, NextSInv
  <1> QED BY <1>1, <1>2, PTL DEF Spec

(* Opening the engine, after any crash, finds every stored block it loads, *)
(* and none of them is refused: the process never has to panic.            *)
THEOREM OpensAlways == Spec => []NeverPanics
  <1>1. IInv /\ SInv("exact") => NeverPanics
    BY DEF SInv
  <1> QED BY <1>1, StoreInvariant, PTL

(* The height index is one chain of stored blocks up to last_height in     *)
(* every reachable state, in the middle of every insertion and after every *)
(* crash.                                                                  *)
THEOREM StoreStaysLinked == Spec => []StoreLinked
  <1>1. IInv /\ SInv("exact") => StoreLinked
    BY DEF SInv
  <1> QED BY <1>1, StoreInvariant, PTL

(* Whatever block of the tree a state is taken of, reading it gives the    *)
(* replay of that block's chain, while the roll thread lags the insert     *)
(* thread and old roots live on only in waiting results.                   *)
THEOREM ViewsAreReplays == Spec => []TreeViews
  <1>1. IInv /\ SInv("exact") => TreeViews
    <2> SUFFICES ASSUME IInv, SInv("exact"), Running, NEW b \in DOMAIN mem, NEW k \in Keys
                 PROVE  View(b, k) = Replay(b, k)
      BY DEF TreeViews
    <2>1. PICK d \in Points : Rolled("exact", d) /\ Chunks(d)
      BY DEF SInv, DiskHolds
    <2> QED BY <2>1, ViewIsReplay DEF IInv, SInv
  <1> QED BY <1>1, StoreInvariant, PTL

(* When no job runs the two databases describe the tree exactly.           *)
THEOREM IdleStoresAgree == Spec => []IdleDurable
  <1>1. IInv /\ SInv("exact") => IdleDurable
    <2> SUFFICES ASSUME IInv, SInv("exact"), job = "idle"
                 PROVE  /\ status = [root |-> Height(root), last |-> Height(head)]
                        /\ status.last > 0 => index[status.last] = head
                        /\ \A k \in Keys : disk[k] = Replay(root, k)
      BY DEF IdleDurable
    <2>1. rids = <<>> /\ cur = <<>> /\ Running /\ ~Rebuilding
      BY DEF SInv, Quiet, Running, Rebuilding
    <2>2. PICK d \in Points : Rolled("exact", d) /\ Follows(d)
      BY <2>1 DEF SInv, DiskHolds
    <2>3. d = Now /\ d = Saved
      BY <2>1, <2>2, LeadsEmpty DEF Rolled, Follows
    <2>4. root = Saved.root /\ head = Saved.head /\ d.root = root
      BY <2>3 DEF Now
    <2>5. /\ status.root \in Nat /\ status.last \in Nat
          /\ Height(Saved.root) = status.root /\ Height(Saved.head) = status.last
      BY SavedType DEF IInv, SInv
    <2>6. status = [root |-> Height(root), last |-> Height(head)]
      BY <2>4, <2>5 DEF IInv, TypeOK
    <2>7. status.last > 0 => index[status.last] = head
      BY <2>4, <2>5 DEF Saved, StoreBlock
    <2>8. \A k \in Keys : disk[k] = Replay(root, k)
      BY <2>2, <2>4 DEF Rolled
    <2> QED BY <2>6, <2>7, <2>8
  <1> QED BY <1>1, StoreInvariant, PTL

(* Only the batch of a result that moves the head writes the status or the *)
(* index, and it moves them from where they are by that result.            *)
LEMMA StatusSteps ==
    ASSUME NEW v, IInv, SInv(v), [CrashNext]_vars
    PROVE  \/ UNCHANGED <<status, index>>
           \/ \E r \in InsertResult :
                  /\ r.headMoves # "none" /\ Fits(Saved, r) /\ Saved' = Moved(Saved, r)
                  /\ status' = [root |-> RealRoot(r), last |-> Height(r.blk)]
                  /\ \A h \in 1..Height(r.blk) : index'[h] = Ancestor(r.blk, h)
  <1>1. CASE RollStore
    <2>1. PICK r : r = cur[1]
      OBVIOUS
    <2>2. CASE Rebuilding \/ r.headMoves = "none"
      BY <1>1, <2>1, <2>2 DEF RollStore
    <2>3. CASE ~Rebuilding /\ r.headMoves # "none"
      <3>1. Running
        BY <1>1 DEF RollStore, SInv, Quiet
      <3>2. PICK d \in Points : Written(d) /\ Follows(d)
        BY <3>1 DEF SInv, DiskHolds
      <3> QED BY <1>1, <2>1, <2>3, <3>2, BatchMoves
    <2> QED BY <2>2, <2>3
  <1>2. CASE ~RollStore
    <2>1. CASE Open
      BY <2>1 DEF Open, durable
    <2>2. CASE Refuse \/ Reject \/ Crash \/ CrashBetweenWrites
      BY <2>2 DEF Refuse, Reject, Crash, CrashBetweenWrites, Stop, Halt, InsertFail, durable
    <2>3. CASE RollState \/ Finish \/ LoseState \/ Insert
      BY <2>3 DEF RollState, Finish, LoseState, Insert, durable
    <2>4. CASE Parse \/ ExecBegin \/ (\E k \in Keys : ExecRead(k))
      BY <2>4 DEF Parse, ExecBegin, ExecRead, durable
    <2>5. CASE Arrive
      BY <2>5 DEF Arrive, Discover, Synchronize, durable
    <2>6. CASE UNCHANGED vars
      BY <2>6 DEF vars, durable
    <2> QED BY <1>2, <2>1, <2>2, <2>3, <2>4, <2>5, <2>6 DEF CrashNext, Next, Work
  <1> QED BY <1>1, <1>2

(* A step that moves the stored chain keeps all of it up to the stored     *)
(* root, and neither the stored root nor the last height goes back.        *)
LEMMA StoreOnlyGrows ==
    ASSUME NEW v, IInv, SInv(v), [CrashNext]_vars
    PROVE  /\ status'.root >= status.root /\ status'.last >= status.last
           /\ \A h \in 1..status.root : index'[h] = index[h]
  <1>1. /\ Saved \in Points /\ status.root \in Nat /\ status.last \in Nat
        /\ Height(Saved.root) = status.root /\ Height(Saved.head) = status.last
        /\ Descends(Saved.head, Saved.root) /\ status.root <= status.last
        /\ \A h \in 1..status.last : index[h] = Ancestor(Saved.head, h)
    BY SavedType DEF IInv, SInv, StoreLinked
  <1>2. CASE UNCHANGED <<status, index>>
    BY <1>1, <1>2
  <1>3. CASE ~(UNCHANGED <<status, index>>)
    <2>1. PICK r \in InsertResult :
                /\ r.headMoves # "none" /\ Fits(Saved, r)
                /\ status' = [root |-> RealRoot(r), last |-> Height(r.blk)]
                /\ \A h \in 1..Height(r.blk) : index'[h] = Ancestor(r.blk, h)
      BY <1>3, StatusSteps
    <2>2. /\ r.oldRoot = status.root /\ Height(r.blk) = status.last + 1 /\ r.blk \in Seq(Content)
          /\ Ancestor(r.blk, status.root) = Saved.root /\ Ancestor(Saved.head, status.root) = Saved.root
      BY <1>1, <2>1 DEF Fits, Descends, InsertResult
    <2>3. status'.root >= status.root /\ status'.last >= status.last
      BY <1>1, <2>1, <2>2 DEF RealRoot
    <2>4. ASSUME NEW h \in 1..status.root PROVE index'[h] = index[h]
      <3>1. /\ h \in 1..status.last /\ h \in 1..Height(r.blk) /\ h \in 0..status.root
            /\ status.root \in 0..Height(r.blk) /\ status.root \in 0..Height(Saved.head)
        BY <1>1, <2>2
      <3>2. Ancestor(Ancestor(r.blk, status.root), h) = Ancestor(r.blk, h)
        BY <2>2, <3>1, AncestorOfAncestor
      <3>3. Ancestor(Ancestor(Saved.head, status.root), h) = Ancestor(Saved.head, h)
        BY <1>1, <3>1, AncestorOfAncestor DEF Points
      <3> QED BY <1>1, <2>1, <2>2, <3>1, <3>2, <3>3
    <2> QED BY <2>3, <2>4
  <1> QED BY <1>2, <1>3

\* Seen through the store, a step adopts one block below the final one or stutters.
LEMMA StoreAdopts ==
    ASSUME NEW v, IInv, SInv(v), [CrashNext]_vars
    PROVE  [Durable!Adopt]_<<StoreBlock(status.root), StoreBlock(status.last)>>
  <1>1. CASE UNCHANGED <<status, index>>
    BY <1>1 DEF StoreBlock
  <1>2. CASE ~(UNCHANGED <<status, index>>)
    <2>1. PICK r \in InsertResult :
                r.headMoves # "none" /\ Fits(Saved, r) /\ Saved' = Moved(Saved, r)
      BY <1>2, StatusSteps
    <2>2. StoreBlock(status.root)' = Saved'.root /\ StoreBlock(status.last)' = Saved'.head
          /\ StoreBlock(status.root) = Saved.root /\ StoreBlock(status.last) = Saved.head
      BY DEF Saved
    <2>3. Saved'.head = r.blk /\ Saved'.root = IF r.rootMoves THEN NewRoot(r) ELSE Saved.root
      BY <2>1 DEF Moved
    <2>4. /\ r.blk \in Seq(Content) /\ Height(r.blk) = Height(Saved.head) + 1
          /\ Descends(r.blk, Saved.root) /\ r.oldRoot = Height(Saved.root)
          /\ (r.rootMoves <=> Height(r.blk) > Height(Saved.root) + Level)
      BY <2>1 DEF Fits, InsertResult
    <2> QED BY <2>2, <2>3, <2>4 DEF Durable!Adopt, Durable!Extends, NewRoot, Descends, Ancestor, Height
  <1> QED BY <1>1, <1>2

(* Finality: neither the stored root nor the last height ever goes back,   *)
(* and the index up to the stored root is never rewritten.                 *)
THEOREM FinalityHolds == Spec => FinalForever
  <1>1. IInv /\ SInv("exact") /\ [Next]_vars
            => /\ status'.root >= status.root /\ status'.last >= status.last
               /\ \A h \in 1..status.root : index'[h] = index[h]
    BY StoreOnlyGrows DEF CrashNext
  <1> QED BY <1>1, StoreInvariant, PTL DEF Spec, FinalForever

\* The empty store is the initial chain of module Finality.
LEMMA FinalityInit == Init => Durable!Init
  BY DEF Init, Durable!Init, StoreBlock, Genesis

(* The engine implements module Finality: seen through the store, every    *)
(* step of any thread, every crash and every restart adopts a block one    *)
(* higher that descends from the final block, or changes nothing.          *)
THEOREM RefinesFinality == Spec => ImplementsFinality
  <1>1. IInv /\ SInv("exact") /\ [Next]_vars
            => [Durable!Adopt]_<<StoreBlock(status.root), StoreBlock(status.last)>>
    BY StoreAdopts DEF CrashNext
  <1> QED BY <1>1, FinalityInit, StoreInvariant, PTL DEF Spec, ImplementsFinality, Durable!Spec
-----------------------------------------------------------------------------
(* The same engine, which may also stop between the two writes of roll_by. *)

\* The stop in the window keeps the order of the blocks, not the states.
LEMMA CrashInvariant == CrashSpec => [](IInv /\ SInv("any"))
  <1>1. Init => IInv /\ SInv("any")
    BY InitIInv, InitSInv
  <1>2. IInv /\ SInv("any") /\ [CrashNext]_vars => (IInv /\ SInv("any"))'
    <2> SUFFICES ASSUME IInv, SInv("any"), [CrashNext]_vars PROVE IInv' /\ SInv("any")'
      OBVIOUS
    <2>1. CASE [Next]_vars
      BY <2>1, NextIInv, NextSInv
    <2>2. CASE CrashBetweenWrites
      BY <2>2, HaltPreserves, StopStore DEF CrashBetweenWrites, Stop
    <2> QED BY <2>1, <2>2 DEF CrashNext
  <1> QED BY <1>1, <1>2, PTL DEF CrashSpec

(* Wherever a stop falls, also between the state db write and the store    *)
(* batch of a result that moves the root, the tree keeps its shape and the *)
(* height index stays one chain of stored blocks.                          *)
THEOREM CrashKeepsChain == CrashSpec => [](TreeShape /\ StoreLinked)
  <1>1. IInv /\ SInv("any") => TreeShape /\ StoreLinked
    BY DEF IInv, SInv
  <1> QED BY <1>1, CrashInvariant, PTL

(* Nor does a stop there undo what is final: the stored root and the last  *)
(* height never go back and the index up to the root is not rewritten.     *)
THEOREM CrashKeepsFinality == CrashSpec => FinalForever
  <1>1. IInv /\ SInv("any") /\ [CrashNext]_vars
            => /\ status'.root >= status.root /\ status'.last >= status.last
               /\ \A h \in 1..status.root : index'[h] = index[h]
    BY StoreOnlyGrows
  <1> QED BY <1>1, CrashInvariant, PTL DEF CrashSpec, FinalForever

(* The engine implements module Finality wherever a stop falls.            *)
THEOREM CrashRefinesFinality == CrashSpec => ImplementsFinality
  <1>1. IInv /\ SInv("any") /\ [CrashNext]_vars
            => [Durable!Adopt]_<<StoreBlock(status.root), StoreBlock(status.last)>>
    BY StoreAdopts
  <1> QED BY <1>1, FinalityInit, CrashInvariant, PTL DEF CrashSpec, ImplementsFinality, Durable!Spec
=============================================================================
