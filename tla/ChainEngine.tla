---------------------------- MODULE ChainEngine ----------------------------
(***************************************************************************)
(* The chain engine of crate `chain`: the fork tree of unstable blocks     *)
(* (forktree/), the per-block state overlays (state.rs), the two durable   *)
(* databases (the state db and the block store), block insertion           *)
(* (insert.rs), the pipelined bulk synchronisation (sync.rs), and opening  *)
(* the engine again after a stop or a crash (engine.rs, init.rs).          *)
(*                                                                         *)
(* A block hash commits to its parent's hash, so a block is identified     *)
(* with the sequence of block contents from genesis up to it: genesis is   *)
(* the empty sequence, the height is the length and the ancestor at height *)
(* h is the prefix of length h.                                            *)
(*                                                                         *)
(* The ledger maps keys to values.  Executing a block reads and rewrites   *)
(* the keys its content touches; a value is the log of the contents that   *)
(* were applied to the key, so that a lost, doubled or foreign application *)
(* is visible in the value.                                                *)
(***************************************************************************)
EXTENDS Integers, Sequences, FiniteSetsExt, Filter

CONSTANTS
    Content,    \* what a block may contain
    Keys,       \* keys of the ledger state
    Touch,      \* Touch[c]: the keys that executing content c rewrites
    Level,      \* cnf.unstable_block: how many blocks above the root stay reorganisable
    ChanSize,   \* capacity of the two channels of a bulk synchronisation
    FastSync,   \* cnf.fast_sync
    MaxHeight   \* bound of the model: no block is higher than this

ASSUME TouchAssumption  == Touch \in [Content -> SUBSET Keys]
ASSUME LevelAssumption  == Level \in Nat \ {0}
ASSUME ChanAssumption   == ChanSize \in Nat \ {0}
ASSUME SyncAssumption   == FastSync \in BOOLEAN
ASSUME HeightAssumption == MaxHeight \in Nat

VARIABLES
    \* the fork tree (Roller) and the chunks that some strong pointer keeps alive
    root,       \* block of the root chunk
    head,       \* block of the head chunk
    mem,        \* live chunk -> the overlay (MemKV) its execution wrote
    \* durable: the state database
    disk,       \* key -> value
    marker,     \* the rebuild marker file exists, or there is no state directory
    \* durable: the block store
    status,     \* ChainStatus: root_height and last_height
    index,      \* height -> hash
    datas,      \* blocks whose data is stored (restricted to tree and index)
    \* the one insertion job that holds the inserting lock
    job,        \* which job it is, "idle", or "down" and "panic" without a process
    feed,       \* blocks the parse thread (or the rebuild loop) has still to hand on
    blkq,       \* channel parse thread -> insert thread
    exec,       \* <<>> or the block being executed
    got,        \* the values its execution has read so far
    rids,       \* channel insert thread -> roll thread of InsertResults
    cur         \* <<>> or the InsertResult being rolled: its state is written, its batch not

tree     == <<root, head, mem>>
durable  == <<disk, marker, status, index, datas>>
pipeline == <<job, feed, blkq, exec, got, rids, cur>>
vars     == <<tree, durable, pipeline>>
-----------------------------------------------------------------------------
(* Blocks.                                                                 *)

Genesis       == <<>>
Height(b)     == Len(b)
Ancestor(b,h) == SubSeq(b, 1, h)
Parent(b)     == Ancestor(b, Height(b) - 1)
Payload(b)    == b[Height(b)]
Descends(b,a) == Height(a) <= Height(b) /\ Ancestor(b, Height(a)) = a
Chains        == UNION {[1..n -> Content] : n \in 1..MaxHeight}

(* The state at block b is what replaying all of b's chain on the initial  *)
(* state gives: for each key, the log of the contents that touch it.       *)
Replay(b, k) == Filter(b, {c \in Content : k \in Touch[c]})
-----------------------------------------------------------------------------
(* The tree and the state overlays.                                        *)

(* Roller::quick_find searches the root and everything below it.           *)
InTree(b) == b \in DOMAIN mem /\ Descends(b, root)

(* StateInst::get looks in the overlay of the block, then in those of its  *)
(* ancestors as long as their weak pointers can be upgraded, then on disk. *)
Overlays(b, k) ==
    {h \in 0..Height(b) : /\ \A i \in h..Height(b) : Ancestor(b, i) \in DOMAIN mem
                          /\ k \in DOMAIN mem[Ancestor(b, h)]}

View(b, k) ==
    IF Overlays(b, k) = {} THEN disk[k]
                           ELSE mem[Ancestor(b, Max(Overlays(b, k)))][k]

(* What an execution has read or written: the values of some of the keys.  *)
IsOverlay(m) == DOMAIN m \subseteq Keys /\ m \in [DOMAIN m -> Seq(Content)]
Empty        == [k \in {} |-> <<>>]

(* An InsertResult.  The new head, when there is one, is the block itself; *)
(* the new root is its ancestor one above the old root.                    *)
InsertResult == [blk : Seq(Content), oldRoot : Nat, rootMoves : BOOLEAN,
                 headMoves : {"none", "extend", "reorg"}]

NewRoot(r) == Ancestor(r.blk, r.oldRoot + 1)

(* Mutant: the status names the root before the insertion.                 *)
MutRealRoot(r) == r.oldRoot

RealRoot(r) == IF r.rootMoves THEN r.oldRoot + 1 ELSE r.oldRoot

(* Mutant: the old root is not carried to roll_by.                         *)
MutOldRootHold(r) == {}

OldRootHold(r) == IF r.rootMoves THEN {Ancestor(r.blk, r.oldRoot)} ELSE {}

(* The chunks among bs kept alive by the tree's root and the old roots     *)
(* that the given InsertResults hold; a chunk owns its children.           *)
Owned(bs, rt, rs) ==
    LET owners == {rt} \cup UNION {OldRootHold(rs[i]) : i \in DOMAIN rs}
    IN  {b \in bs : \E o \in owners : Descends(b, o)}

Rebuilding == job \in {"rebuild", "rebuild_all"}
Pipelined  == job \in {"sync", "rebuild_all"}
SkipChecks == Rebuilding \/ (job = "sync" /\ FastSync)
-----------------------------------------------------------------------------
(* The process ends: everything but the two databases is gone.             *)
Halt(j) ==
    /\ job' = j
    /\ root' = Genesis /\ head' = Genesis /\ mem' = Empty
    /\ datas' = datas \cap {index[h] : h \in DOMAIN index}
    /\ feed' = <<>> /\ blkq' = <<>> /\ exec' = <<>> /\ got' = Empty /\ rids' = <<>> /\ cur' = <<>>
    /\ UNCHANGED <<disk, marker, status, index>>

(* Initially nothing was ever stored and there is no state directory.      *)
InitDisk == [k \in Keys |-> <<>>]

Init ==
    /\ root = Genesis /\ head = Genesis
    /\ mem = Empty
    /\ disk = InitDisk /\ marker = TRUE
    /\ status = [root |-> 0, last |-> 0]
    /\ index = Empty /\ datas = {}
    /\ job = "down"
    /\ feed = <<>> /\ blkq = <<>> /\ exec = <<>> /\ got = Empty /\ rids = <<>> /\ cur = <<>>

(* load_block_by_height: the index names a block whose data is stored.     *)
Loadable(h) == h \in DOMAIN index /\ index[h] \in datas

(* ChainEngine::open: without a state directory, or with one whose rebuild *)
(* was interrupted, the state db starts empty and all blocks are executed  *)
(* again from genesis; otherwise the tree starts at the stored root.  The  *)
(* blocks above are loaded by height up to the first that is missing.  The *)
(* root is loaded in either case.  A stop before the marker is written is  *)
(* left out.                                                               *)
Open ==
    /\ job = "down"
    /\ IF status.root > 0 /\ ~Loadable(status.root)
       THEN job' = "panic" /\ UNCHANGED <<tree, durable, feed>>
       ELSE LET r == IF marker \/ status.root = 0 THEN Genesis ELSE index[status.root]
            IN  /\ root' = r /\ head' = r /\ mem' = [b \in {r} |-> Empty]
                /\ \E n \in DOMAIN index \cup {Height(r)} :
                       /\ \A h \in (Height(r) + 1)..n : Loadable(h)
                       /\ ~Loadable(n + 1)
                       /\ feed' = [i \in 1..(n - Height(r)) |-> index[Height(r) + i]]
                /\ disk' = IF marker THEN InitDisk ELSE disk
                /\ job' = IF marker /\ status.root > 0 THEN "rebuild_all" ELSE "rebuild"
                /\ UNCHANGED <<marker, status, index, datas>>
    /\ UNCHANGED <<blkq, exec, got, rids, cur>>

(* Engine::discover: a new block arrives while the inserting lock is free. *)
Discover(b) ==
    /\ job = "idle"
    /\ job' = "discover" /\ blkq' = <<b>>
    /\ UNCHANGED <<tree, durable, feed, exec, got, rids, cur>>

(* Engine::synchronize: a peer's consecutive blocks, from height h to b.   *)
Synchronize(b, h) ==
    /\ job = "idle"
    /\ h > Height(root) /\ h <= Height(head) + 1
    /\ job' = "sync"
    /\ feed' = [i \in 1..(Height(b) - h + 1) |-> Ancestor(b, h + i - 1)]
    /\ UNCHANGED <<tree, durable, blkq, exec, got, rids, cur>>

(* The parse thread; the rebuild loop of rebuild_unstable_blocks hands on  *)
(* the next block only when the previous one has been rolled.              *)
Parse ==
    /\ feed # <<>>
    /\ Len(blkq) < ChanSize
    /\ Pipelined \/ (blkq = <<>> /\ exec = <<>> /\ rids = <<>> /\ cur = <<>>)
    /\ blkq' = Append(blkq, Head(feed))
    /\ feed' = Tail(feed)
    /\ UNCHANGED <<tree, durable, job, exec, got, rids, cur>>
-----------------------------------------------------------------------------
(* insert_by.                                                              *)

Insertable(b) ==
    /\ Height(b) > Height(root) /\ Height(b) <= Height(head) + 1
    /\ InTree(Parent(b))
    /\ SkipChecks \/ ~InTree(b)

(* Mutant: results are sent without waiting for room in the channel.       *)
MutInsertThreadFree == exec = <<>>

(* The insert thread is free once its previous result fits the channel.    *)
InsertThreadFree == exec = <<>> /\ Len(rids) <= ChanSize

(* Execution starts on a sub state of the parent's state.                  *)
ExecBegin ==
    /\ blkq # <<>> /\ InsertThreadFree
    /\ Insertable(Head(blkq))
    /\ exec' = << Head(blkq) >> /\ got' = Empty
    /\ blkq' = Tail(blkq)
    /\ UNCHANGED <<tree, durable, job, feed, rids, cur>>

(* Execution reads a key through the overlays, at any time relative to the *)
(* steps of the roll thread.                                               *)
ExecRead(k) ==
    /\ exec # <<>>
    /\ k \in Touch[Payload(exec[1])] \ DOMAIN got
    /\ got' = [x \in DOMAIN got \cup {k} |->
                   IF x = k THEN View(Parent(exec[1]), k) ELSE got[x]]
    /\ UNCHANGED <<tree, durable, job, feed, blkq, exec, rids, cur>>

(* Mutant: the root is traced from the old head instead of the new one.    *)
MutNextRoot(b) == Ancestor(head, Height(root) + 1)

(* Roller::trace_parent from the new head to one above the root.           *)
NextRoot(b) == Ancestor(b, Height(root) + 1)

(* Mutant: the root follows one block too early.                           *)
MutRootFollows(b) == Height(b) >= Height(root) + Level

RootFollows(b) == Height(b) > Height(root) + Level

(* The executed block becomes a chunk of the tree (Roller::insert).  Only  *)
(* a block higher than the head becomes the head; the root follows by one  *)
(* along the new head's chain when the head is more than Level above it.   *)
InsertChild(b, writes) ==
    LET up   == Height(b) > Height(head)
        roll == up /\ RootFollows(b)
    IN  /\ head' = IF up THEN b ELSE head
        /\ root' = IF roll THEN NextRoot(b) ELSE root
        /\ rids' = Append(rids, [blk |-> b, oldRoot |-> Height(root), rootMoves |-> roll,
                                 headMoves |-> IF ~up THEN "none"
                                               ELSE IF Parent(b) = head THEN "extend"
                                               ELSE "reorg"])
        /\ mem' = [x \in Owned(DOMAIN mem \cup {b}, root', rids') |->
                       IF x = b THEN writes ELSE mem[x]]

Insert ==
    /\ exec # <<>>
    /\ LET c == Payload(exec[1])
       IN  /\ DOMAIN got = Touch[c]
           /\ InsertChild(exec[1], [k \in Touch[c] |-> Append(got[k], c)])
    /\ exec' = <<>> /\ got' = Empty
    /\ UNCHANGED <<durable, job, feed, blkq, cur>>

(* Mutant: the insert thread ends and leaves its receiver open.            *)
MutInsertFail ==
    /\ exec' = <<>> /\ got' = Empty
    /\ UNCHANGED <<tree, durable, job, feed, blkq, rids, cur>>

(* A block that a gate of insert_by refuses or whose execution fails: the  *)
(* insert thread ends and closes its channels, so that nothing more is     *)
(* parsed; results already sent are still rolled.                          *)
InsertFail ==
    /\ feed' = <<>> /\ blkq' = <<>> /\ exec' = <<>> /\ got' = Empty
    /\ UNCHANGED <<tree, durable, job, rids, cur>>

(* The height, parent and duplicate gates.  A stored block that does not   *)
(* fit into the tree stops a node that is rebuilding.                      *)
Refuse ==
    /\ blkq # <<>> /\ InsertThreadFree
    /\ ~Insertable(Head(blkq))
    /\ IF Rebuilding
       THEN Halt("panic")
       ELSE InsertFail

(* The gates of the minter, block_verify and the execution itself: the     *)
(* verdict on an arriving block is arbitrary, a stored block was accepted. *)
Reject ==
    /\ job \in {"discover", "sync"}
    /\ exec # <<>>
    /\ InsertFail
-----------------------------------------------------------------------------
(* roll_by.                                                                *)

(* When the root moves its overlay is written to the state db; then the    *)
(* hold on the old root is released.                                       *)
RollState ==
    /\ rids # <<>> /\ cur = <<>>
    /\ LET r == Head(rids)
       IN  /\ cur' = <<r>>
           /\ rids' = Tail(rids)
           /\ disk' = IF r.rootMoves
                      THEN [k \in Keys |-> IF k \in DOMAIN mem[NewRoot(r)]
                                           THEN mem[NewRoot(r)][k] ELSE disk[k]]
                      ELSE disk
           /\ mem' = [b \in Owned(DOMAIN mem, root, rids') |-> mem[b]]
    /\ UNCHANGED <<root, head, marker, status, index, datas, job, feed, blkq, exec, got>>

(* Mutant: every change of head is treated as an extension.                *)
MutReindexedHeights(r) == {Height(r.blk)}

(* The heights whose index entry result r writes: a reorganisation goes    *)
(* from the new head down to the root, an extension adds one entry.        *)
ReindexedHeights(r) ==
    IF r.headMoves = "reorg" THEN {h \in RealRoot(r)..Height(r.blk) : h > 0}
                             ELSE {Height(r.blk)}

(* Mutant: only a block that becomes the head is stored.                   *)
MutStored(r) == IF r.headMoves = "none" THEN datas ELSE datas \cup {r.blk}

Stored(r) == datas \cup {r.blk}

(* The block's data, the chain status and the index go to the store in one *)
(* batch; a rebuild writes none.                                           *)
RollStore ==
    /\ cur # <<>>
    /\ LET r == cur[1]
       IN  IF Rebuilding
           THEN UNCHANGED <<status, index, datas>>
           ELSE /\ IF r.headMoves = "none"
                   THEN UNCHANGED <<status, index>>
                   ELSE /\ status' = [root |-> RealRoot(r), last |-> Height(r.blk)]
                        /\ index' = [h \in DOMAIN index \cup ReindexedHeights(r) |->
                                        IF h \in ReindexedHeights(r)
                                        THEN Ancestor(r.blk, h) ELSE index[h]]
                /\ datas' = Stored(r) \cap (DOMAIN mem \cup {index'[h] : h \in DOMAIN index'})
    /\ cur' = <<>>
    /\ UNCHANGED <<tree, disk, marker, job, feed, blkq, exec, got, rids>>

(* All threads have ended: the lock is released.  Opening removes the      *)
(* rebuild marker.                                                         *)
Finish ==
    /\ job \in {"discover", "sync", "rebuild", "rebuild_all"}
    /\ feed = <<>> /\ blkq = <<>> /\ exec = <<>> /\ rids = <<>> /\ cur = <<>>
    /\ job' = "idle"
    /\ marker' = IF Rebuilding THEN FALSE ELSE marker
    /\ UNCHANGED <<tree, disk, status, index, datas, feed, blkq, exec, got, rids, cur>>
-----------------------------------------------------------------------------
(* The process stops, by a crash or an exit at any point.                  *)
Stop == job \notin {"down", "panic"} /\ Halt("down")

(* roll_by is between its two writes, to the state db and to the store.    *)
BetweenWrites == job \in {"discover", "sync"} /\ cur # <<>> /\ cur[1].rootMoves

Crash == ~BetweenWrites /\ Stop

CrashBetweenWrites == BetweenWrites /\ Stop

(* The state directory is removed, or a new database version names another *)
(* one, while the node is down.                                            *)
LoseState ==
    /\ job = "down" /\ ~marker
    /\ marker' = TRUE
    /\ UNCHANGED <<tree, disk, status, index, datas, pipeline>>
-----------------------------------------------------------------------------
Work ==
    \/ Open \/ Parse \/ ExecBegin \/ (\E k \in Keys : ExecRead(k)) \/ Insert
    \/ Refuse \/ RollState \/ RollStore \/ Finish

Arrive ==
    \/ \E b \in Chains : Discover(b)
    \/ \E b \in Chains : \E h \in 1..Height(b) : Synchronize(b, h)

Next == Work \/ Arrive \/ Reject \/ Crash \/ LoseState

Spec     == Init /\ [][Next]_vars
FairSpec == Spec /\ WF_vars(Work)

(* The same engine, whose process may also stop between the two writes.  A *)
(* rebuild on a wrong state may fail and panic: a stop like any other.     *)
CrashNext == Next \/ CrashBetweenWrites
CrashSpec == Init /\ [][CrashNext]_vars
-----------------------------------------------------------------------------
(* Properties.                                                             *)

Running == job \notin {"down", "panic"}

(* The types of the tree, the stores and the queues, and the capacity of   *)
(* the two channels: a sender waits, it never overfills one.               *)
TypeOK ==
    /\ root \in Seq(Content) /\ head \in Seq(Content)
    /\ DOMAIN mem \subseteq Seq(Content) /\ \A b \in DOMAIN mem : IsOverlay(mem[b])
    /\ disk \in [Keys -> Seq(Content)] /\ marker \in BOOLEAN
    /\ status \in [root : Nat, last : Nat]
    /\ DOMAIN index \subseteq Nat /\ index \in [DOMAIN index -> Seq(Content)]
    /\ datas \subseteq Seq(Content)
    /\ job \in {"down", "panic", "idle", "discover", "sync", "rebuild", "rebuild_all"}
    /\ feed \in Seq(Seq(Content)) /\ blkq \in Seq(Seq(Content))
    /\ rids \in Seq(InsertResult)
    /\ exec \in Seq(Seq(Content)) /\ Len(exec) <= 1 /\ IsOverlay(got)
    /\ cur \in Seq(InsertResult) /\ Len(cur) <= 1
    /\ Len(blkq) <= ChanSize /\ Len(rids) <= ChanSize + 1

(* Roller: the head is a chunk below the root, never more than Level above *)
(* it, and the chain of every chunk down to the root consists of chunks.   *)
TreeShape ==
    Running =>
        /\ InTree(root) /\ InTree(head)
        /\ Height(head) <= Height(root) + Level
        /\ \A b \in DOMAIN mem : InTree(b) =>
               /\ Height(b) <= Height(head)
               /\ \A h \in Height(root)..Height(b) : Ancestor(b, h) \in DOMAIN mem

(* Every state the tree can hand out, or execute the next block on, is     *)
(* exactly the replay of its chain: also while the roll thread lags the    *)
(* insert thread and old roots live only through old_root_hold.            *)
TreeViews ==
    Running => \A b \in DOMAIN mem : InTree(b) => \A k \in Keys : View(b, k) = Replay(b, k)

(* The height index is one chain up to last_height whose blocks are all    *)
(* stored: what a restart, a syncing peer and the API read by height.      *)
StoreLinked ==
    /\ DOMAIN index = 1..status.last
    /\ status.root <= status.last /\ status.last <= status.root + Level
    /\ \A h \in DOMAIN index : /\ index[h] = Ancestor(index[status.last], h)
                               /\ index[h] \in datas

(* When no job runs, the store describes the tree and the state db holds   *)
(* the state of the stored root, so that a restart finds the same head and *)
(* the same states.                                                        *)
IdleDurable ==
    job = "idle" =>
        /\ status = [root |-> Height(root), last |-> Height(head)]
        /\ status.last > 0 => index[status.last] = head
        /\ \A k \in Keys : disk[k] = Replay(root, k)

(* Opening never meets a stored root or block that it cannot load.         *)
NeverPanics == job # "panic"

(* A block at or below the stored root is never replaced in the index, and *)
(* neither the root nor the last height ever goes back, crashes included.  *)
FinalForever ==
    [][/\ status'.root >= status.root /\ status'.last >= status.last
       /\ \A h \in 1..status.root : index'[h] = index[h]]_vars

(* Every job releases the inserting lock, whatever the channels hold.      *)
JobEnds == (job \notin {"idle", "down"}) ~> (job \in {"idle", "down"})

(* The chain described by the store behaves as module Finality says: every *)
(* step of any thread, every crash and every restart is an Adopt step or   *)
(* leaves it alone.                                                        *)
StoreBlock(h) == IF h = 0 THEN Genesis ELSE index[h]
Durable == INSTANCE Finality WITH final <- StoreBlock(status.root), tip <- StoreBlock(status.last)
ImplementsFinality == Durable!Spec

(* insert.rs, roll_by: "If a crash happens before batch durability,        *)
(* restart from old store root can replay and reconcile."                  *)
CrashReconciles == job = "idle" => TreeViews
=============================================================================
