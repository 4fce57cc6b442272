------------------------------ MODULE Bidding ------------------------------
(* Diamond bidding in mint/src/check: the book of bids, the fence it puts  *)
(* in front of a block that mints a diamond for less than the best bid     *)
(* seen in time, the cache that holds such blocks and their descendants,   *)
(* and the thread that gives the held branches to the engine after all.    *)
(*                                                                         *)
(* The handler of new blocks, the batch synchronisation and the replay     *)
(* thread interleave.  The engine (module ChainEngine) is kept as the set  *)
(* of stored blocks with a root and a head; discover is one step, because  *)
(* it holds the engine's lock.                                             *)
(*                                                                         *)
(* Time is a tick longer than DELAY_SECS: a bid is "ripe" one tick after   *)
(* it was recorded, and "before" names the blocks that arrived when it was *)
(* ripe, which is all that highest asks of its time.  The age of a group   *)
(* is counted up to LOW_BID_KEEP_SECS.                                     *)
EXTENDS Integers, Sequences, FiniteSets, SequencesExt

CONSTANTS
    Block,        \* blocks, as the rank of their hash; 0 is the genesis block
    Parent,       \* Parent[b]
    Bid,          \* Bid[b]: [by, fee] of the diamond b mints, NoBid: it mints none
    NoBid,
    Bidder,       \* addresses; the hash of a bid leaves the fee out, so a bidder has one
    Bids,         \* the bids that are submitted
    Broke,        \* Broke[b]: the bidders that cannot pay in the state of b
    Cycle,        \* a diamond is minted every Cycle blocks (5)
    Level,        \* unstable_block
    Keep,         \* LOW_BID_KEEP_SECS, in ticks
    MaxShadow,    \* max_shadow_len and max_group_branches
    UniqTopMax, HacdKeep, ArriveKeep,    \* UNIQ_TOP_MAX, HACD_KEEP, BLOCK_ARRIVE_KEEP
    MaxTasks,     \* bound on the handlers of new blocks that wait for the engine
    Budgets       \* bounds on a behaviour's bids and synchronised batches

Genesis == 0
Blocks == Block \cup {Genesis}

ASSUME BiddingAssumption ==
    /\ Block \subseteq Nat \ {0} /\ Parent \in [Block -> Blocks]
    /\ \A b \in Block : Parent[b] < b
    /\ Bids \subseteq [by : Bidder, fee : Nat \ {0}]
    /\ \A b \in Block : Bid[b] = NoBid \/ Bid[b] \in [by : Bidder, fee : Nat \ {0}]
    /\ Broke \in [Blocks -> SUBSET Bidder]
    /\ {Cycle, Keep, MaxShadow, UniqTopMax, HacdKeep, ArriveKeep} \subseteq Nat \ {0}
    /\ {Level, MaxTasks} \subseteq Nat /\ Budgets \subseteq [bids : Nat, syncs : Nat]

VARIABLES
    stored,     \* blocks of the store
    root, head, \* of the fork tree
    syncing,    \* a batch holds the engine's lock
    syncs,      \* batches left
    bids,       \* bids left
    books,      \* books[n]: set of records for diamond n
    latest,     \* highest diamond seen
    arrived,    \* block_arrive_order, oldest first
    tasks,      \* blocks on their way to discover
    groups,     \* low_bid_groups: height of the root -> [age, branches]
    allow,      \* replay_allow
    replay,     \* the replay thread, see Asleep
    held        \* history: roots that were ever held

vars == <<stored, root, head, syncing, syncs, bids, books, latest, arrived, tasks, groups, allow, replay, held>>
engine == <<stored, root, head>>
book == <<books, latest>>
-----------------------------------------------------------------------------
(* Chains of blocks.                                                       *)
Above[b \in Blocks] == IF b = Genesis THEN <<Genesis>> ELSE Append(Above[Parent[b]], b)
Height(b) == Len(Above[b]) - 1
Extends(b, a) == a \in Range(Above[b])
Mints(b) == Height(b) % Cycle = 0 /\ b # Genesis /\ Bid[b] # NoBid

\* The diamond that a mint in b has, or would have.
Number(b) == Cardinality({a \in Range(Above[b]) \ {b} : Mints(a)}) + 1
-----------------------------------------------------------------------------
(* The book of bids.                                                       *)
Record(x, f, curr) ==
    [by |-> x, fee |-> f, tar |-> (curr \div Cycle) * Cycle + Cycle, usable |-> TRUE,
     ripe |-> FALSE, before |-> {}]

BookOf(n) == IF n \in DOMAIN books THEN books[n] ELSE {}

\* A bidder has one record, which a lower fee leaves alone.
Recorded(bk, r) ==
    LET own == {o \in bk : o.by = r.by}
    IN IF \E o \in own : r.fee < o.fee THEN bk ELSE (bk \ own) \cup {r}

\* The best are kept.  A tie at the cut keeps both, where the code drops the bid
\* that is older.
Truncated(bk) == {r \in bk : Cardinality({o \in bk : o.fee > r.fee}) < UniqTopMax}

trim_books(bks, l) == [n \in {k \in DOMAIN bks : k > l - HacdKeep} |-> bks[n]]

record(n, r) ==
    LET l  == IF n > latest THEN n ELSE latest
        bk == Truncated(Recorded(BookOf(n), r))
    IN /\ latest' = l
       /\ books' = trim_books([k \in DOMAIN books \cup {n} |-> IF k = n THEN bk ELSE books[k]], l)

\* highest: the best bid that was ripe when the parent arrived, that its bidder
\* can pay, and that is not used up; 0 when the parent never arrived by itself.
Counts(r, b) ==
    /\ Parent[b] \in r.before
    /\ Height(b) <= r.tar \/ r.usable
    /\ r.by \notin Broke[Parent[b]]

highest(b) ==
    LET fees == {r.fee : r \in {o \in BookOf(Number(b)) : Counts(o, b)}}
    IN IF Parent[b] \in Range(arrived) /\ fees # {} THEN Max(fees) ELSE 0

\* remove_tx, roll: the block that passed the gate uses its bid up.
Spend(b) ==
    LET n == Number(b)
        l == IF n > latest THEN n ELSE latest
        used == [k \in DOMAIN books |->
                    {[r EXCEPT !.usable = @ /\ ~(k = n /\ r.by = Bid[b].by)] : r \in books[k]}]
    IN IF Mints(b) THEN latest' = l /\ books' = trim_books(used, l) ELSE UNCHANGED book

\* mark_block_arrival: only blocks in front of a minting height, the first time.
\* A block that drops out of the order has no arrival time any more.
Mark(b) ==
    IF Height(b) % Cycle # Cycle - 1 \/ b \in Range(arrived) THEN UNCHANGED <<arrived, books>>
    ELSE LET order == Append(arrived, b)
             kept  == IF Len(order) > ArriveKeep THEN Tail(order) ELSE order
         IN /\ arrived' = kept
            /\ books' = [n \in DOMAIN books |->
                   {[r EXCEPT !.before = (@ \cup (IF r.ripe THEN {b} ELSE {})) \cap Range(kept)] :
                        r \in books[n]}]
-----------------------------------------------------------------------------
(* The groups of held blocks.                                              *)
Branch(b) == [fee |-> Bid[b].fee, blocks |-> <<b>>]
HasHash(g, b) == \E i \in DOMAIN g.branches : b \in Range(g.branches[i].blocks)
Tip(br) == Last(br.blocks)
Put(h, g) == groups' = [k \in DOMAIN groups \cup {h} |-> IF k = h THEN g ELSE groups[k]]

\* add_low_bid_root: the first of its height opens a group, the others join it;
\* the group is full at MaxShadow branches.
add_low_bid_root(b) ==
    LET h == Height(b) IN
    IF h \notin DOMAIN groups THEN Put(h, [age |-> 0, branches |-> <<Branch(b)>>])
    ELSE IF HasHash(groups[h], b) \/ Len(groups[h].branches) >= MaxShadow THEN UNCHANGED groups
    ELSE Put(h, [groups[h] EXCEPT !.branches = Append(@, Branch(b))])

\* The branches of group h whose tip is the parent of b.
Tips(h, b) == {i \in DOMAIN groups[h].branches : Tip(groups[h].branches[i]) = Parent[b]}

\* cache_low_bid_child, for a group h that has such a branch.
Cache(h, i, b) ==
    /\ Len(groups[h].branches[i].blocks) < MaxShadow
    /\ Put(h, [groups[h] EXCEPT !.branches[i].blocks = Append(@, b)])

\* take_replay_groups: those outside the window from root_min to head_max are
\* dropped, the others wait.
\* Mutant: the window ends at the head.
MutInWindow(h) == Height(root) < h /\ h <= Height(head)
InWindow(h) == Height(root) < h /\ h <= Height(head) + 1
Due(g) == g.age >= Keep

\* replay_branches: the longest first, then the higher bid, then the lower hash.
Sooner(p, q) ==
    \/ Len(p.blocks) > Len(q.blocks)
    \/ Len(p.blocks) = Len(q.blocks) /\ p.fee > q.fee
    \/ Len(p.blocks) = Len(q.blocks) /\ p.fee = q.fee /\ p.blocks[1] < q.blocks[1]
-----------------------------------------------------------------------------
(* The gate in front of the tree.                                          *)
Insertable(b) ==
    /\ Parent[b] \in stored /\ Extends(Parent[b], root)
    /\ b \notin stored
    /\ Height(root) < Height(b) /\ Height(b) <= Height(head) + 1

Below(b) == Mints(b) /\ Bid[b].fee < highest(b)
Pending(b) == Below(b) /\ b \notin allow

\* insert_by after the gate: the head moves to a higher block, the root follows.
Insert(b) ==
    LET higher == Height(b) > Height(head)
    IN /\ stored' = stored \cup {b}
       /\ head' = IF higher THEN b ELSE head
       /\ root' = IF higher /\ Height(b) > Height(root) + Level
                  THEN Above[b][Height(root) + 2] ELSE root
       /\ Spend(b)
       /\ UNCHANGED <<groups, held>>

\* check_highest_bid_of_block refuses b: it is held, or the group is full.
Hold(b) ==
    /\ add_low_bid_root(b)
    /\ held' = held \cup {b}
    /\ UNCHANGED <<engine, book>>

\* discover: insert_by and its verdict.
discover(b) ==
    IF syncing \/ ~Insertable(b) THEN UNCHANGED <<engine, book, groups, held>>
    ELSE IF Pending(b) THEN Hold(b)
    ELSE Insert(b)

Accepted(b) == ~syncing /\ Insertable(b) /\ ~Pending(b)
-----------------------------------------------------------------------------
(* Bids, blocks and batches arrive.                                        *)
Asleep == [pc |-> "sleep", groups |-> <<>>, chain |-> <<>>, at |-> 0]

Init ==
    /\ stored = {Genesis} /\ root = Genesis /\ head = Genesis
    /\ syncing = FALSE /\ \E k \in Budgets : syncs = k.syncs /\ bids = k.bids
    /\ books = <<>> /\ latest = 0 /\ arrived = <<>> /\ tasks = {}
    /\ groups = <<>> /\ allow = {} /\ replay = Asleep /\ held = {}

\* impl_tx_submit: a bid of a bidder who can pay, not in front of a minting block.
Submit(x, f) ==
    /\ (Height(head) + 1) % Cycle # 0
    /\ x \notin Broke[head]
    /\ bids > 0 /\ bids' = bids - 1
    /\ record(Number(head) + (IF Mints(head) THEN 1 ELSE 0), Record(x, f, Height(head)))
    /\ UNCHANGED <<engine, syncing, syncs, arrived, tasks, groups, allow, replay, held>>

\* handle_new_block, blk_found: the child of a held branch is cached with it.
ArriveCached(b) ==
    \E h \in DOMAIN groups : \E i \in Tips(h, b) :
        /\ Cache(h, i, b)
        /\ Mark(b)
        /\ UNCHANGED <<bids, engine, syncing, syncs, latest, tasks, allow, replay, held>>

\* handle_new_block, the rest of the first half: the height is in the window and
\* blk_arrive passes; discover runs in a blocking task.
Arrive(b) ==
    /\ b \notin tasks /\ Cardinality(tasks) < MaxTasks
    /\ \A h \in DOMAIN groups : Tips(h, b) = {}
    /\ Height(root) < Height(b) /\ Height(b) <= Height(head) + 1
    /\ Mark(b)
    /\ tasks' = tasks \cup {b}
    /\ UNCHANGED <<bids, engine, syncing, syncs, latest, groups, allow, replay, held>>

Discover(b) ==
    /\ b \in tasks
    /\ tasks' = tasks \ {b}
    /\ discover(b)
    /\ UNCHANGED <<bids, syncing, syncs, arrived, allow, replay>>

SyncBegin ==
    /\ ~syncing /\ syncs > 0
    /\ syncing' = TRUE /\ syncs' = syncs - 1
    /\ UNCHANGED <<bids, engine, book, arrived, tasks, groups, allow, replay, held>>

\* The insert thread of a batch, which has no arrival times; a block that is held
\* fails the batch.
SyncBlock(b) ==
    /\ syncing /\ Insertable(b)
    /\ IF Pending(b) THEN Hold(b) /\ syncing' = FALSE
                     ELSE Insert(b) /\ UNCHANGED syncing
    /\ UNCHANGED <<bids, syncs, arrived, tasks, allow, replay>>

SyncEnd ==
    /\ syncing /\ syncing' = FALSE
    /\ UNCHANGED <<bids, engine, syncs, book, arrived, tasks, groups, allow, replay, held>>

Tick ==
    /\ books' = [n \in DOMAIN books |-> {[r EXCEPT !.ripe = TRUE] : r \in books[n]}]
    /\ groups' = [h \in DOMAIN groups |->
                    [groups[h] EXCEPT !.age = IF @ < Keep THEN @ + 1 ELSE @]]
    /\ UNCHANGED <<bids, engine, syncing, syncs, latest, arrived, tasks, allow, replay, held>>
-----------------------------------------------------------------------------
(* The replay thread.                                                      *)
\* low_bid_replay_loop: the due groups leave the map, lowest height first.
ReplayTake ==
    LET live == {h \in DOMAIN groups : InWindow(h)}
        due  == {h \in live : Due(groups[h])}
        hs   == SetToSortSeq(due, <)
    IN /\ replay.pc = "sleep" /\ DOMAIN groups # {}
       /\ groups' = [h \in live \ due |-> groups[h]]
       /\ replay' = IF due = {} THEN replay
                    ELSE [replay EXCEPT !.pc = "next", !.groups =
                             [i \in DOMAIN hs |-> SortSeq(groups[hs[i]].branches, Sooner)]]
       /\ UNCHANGED <<engine, syncing, syncs, bids, book, arrived, tasks, allow, held>>

\* replay_low_bid_group: allow_replay_chain for the next branch.
ReplayNext ==
    LET left == SelectSeq(replay.groups, LAMBDA g : g # <<>>) IN
    /\ replay.pc = "next"
    /\ IF left = <<>> THEN replay' = Asleep /\ UNCHANGED allow
       ELSE LET chain == left[1][1].blocks
            IN /\ replay' = [pc |-> "check", groups |-> [left EXCEPT ![1] = Tail(@)],
                             chain |-> chain, at |-> 1]
               /\ allow' = allow \cup Range(chain)
    /\ UNCHANGED <<engine, syncing, syncs, bids, book, arrived, tasks, groups, held>>

\* clear_replay_chain; after a success the group's other branches are given up.
\* Mutant: only a success clears the permission.
MutCleared(won) == IF won THEN allow \ Range(replay.chain) ELSE allow
Cleared(won) == allow \ Range(replay.chain)

Finished(won) ==
    /\ allow' = Cleared(won)
    /\ replay' = [pc |-> "next", chain |-> <<>>, at |-> 0,
                  groups |-> IF won THEN Tail(replay.groups) ELSE replay.groups]

\* The store is asked before discover is called.
ReplayCheck ==
    /\ replay.pc = "check"
    /\ IF replay.at > Len(replay.chain) THEN Finished(TRUE)
       ELSE /\ replay' = IF replay.chain[replay.at] \in stored
                         THEN [replay EXCEPT !.at = @ + 1]
                         ELSE [replay EXCEPT !.pc = "discover"]
            /\ UNCHANGED allow
    /\ UNCHANGED <<engine, syncing, syncs, bids, book, arrived, tasks, groups, held>>

ReplayDiscover ==
    LET b == replay.chain[replay.at] IN
    /\ replay.pc = "discover"
    /\ discover(b)
    /\ IF Accepted(b)
       THEN replay' = [replay EXCEPT !.pc = "check", !.at = @ + 1] /\ UNCHANGED allow
       ELSE Finished(FALSE)
    /\ UNCHANGED <<syncing, syncs, bids, arrived, tasks>>

Replay == ReplayTake \/ ReplayNext \/ ReplayCheck \/ ReplayDiscover

Next ==
    \/ \E bid \in Bids : Submit(bid.by, bid.fee)
    \/ \E b \in Block : ArriveCached(b) \/ Arrive(b) \/ Discover(b) \/ SyncBlock(b)
    \/ SyncBegin \/ SyncEnd \/ Tick \/ Replay

Spec == Init /\ [][Next]_vars

\* Time goes on and the thread is scheduled; the network owes nothing.
FairSpec == Spec /\ WF_vars(Tick) /\ WF_vars(Replay)
-----------------------------------------------------------------------------
(* A block that mints below the fence enters the tree only while its branch *)
(* is being replayed, never by an arrival or a batch that finds a           *)
(* permission left over: it has waited in its group, or behind its root.    *)
LowBidWaits ==
    [][\A b \in stored' \ stored : Below(b) =>
            replay.pc \in {"check", "discover"} /\ b \in Range(replay.chain)]_vars

(* A node does not shut itself off: when a block of some height is held and *)
(* no batch runs from then on, some block held at that height gets into the *)
(* store, unless the root has left all of them behind.                      *)
HeldAt(h) == {b \in held : Height(b) = h}
HoldEnds ==
    \A h \in {Height(b) : b \in {c \in Block : Mints(c)}} :
        [](h \in DOMAIN groups /\ []~syncing =>
              <>(\/ HeldAt(h) \cap stored # {}
                 \/ \A b \in HeldAt(h) : ~Extends(b, root) \/ b = root))
=============================================================================
