------------------------------- MODULE TxPool -------------------------------
(***************************************************************************)
(* The path of a transaction through a node: handle_new_tx and the API's   *)
(* submit check it against the head state and insert it, a discovered      *)
(* block drains what it contains and cleans what no longer executes        *)
(* (mint/src/check/tx.rs), and the block builder drops what it could not   *)
(* execute (mint/src/check/block_build.rs).  Handlers, the thread that     *)
(* inserts blocks and the builder only share the groups' mutexes, so a     *)
(* transaction is checked against one state and inserted under another.    *)
(*                                                                         *)
(* The chain is the set of confirmed transactions, and a stored block off  *)
(* the head is the set of those its branch confirms.  An executable        *)
(* transaction is one that is not confirmed and, for a diamond mint, bids  *)
(* for the next number; any other may fail for reasons not modelled        *)
(* (balances), which is a choice of the action that executes it.  Heights  *)
(* only matter modulo BidSpan and CleanSpan, so they are counted modulo    *)
(* Cycle.  What knows-tables and fee floors drop never enters a handler.   *)
(***************************************************************************)
EXTENDS TxOrder, FiniteSets, FiniteSetsExt

CONSTANTS
    Tx,          \* transaction hashes
    Diamint,     \* the diamond mint transactions
    Number,      \* the diamond number each of them bids for
    Uncertain,   \* normal transactions of type 3 and above
    MaxSize,     \* the size of each group
    Handlers,    \* threads that submit transactions
    Miner,       \* miner_enable: the node builds blocks
    BidSpan,     \* 5: diamonds are minted in every fifth block
    CleanSpan,   \* 11: normal transactions are rechecked every 11th block
    Depth,       \* bound: how far below the head stored blocks are followed,
                 \* at most the unstable_block of the tree
    MaxStored,   \* bound: how many of them a side block is added to
    Bodies,      \* bound: the sets of transactions that a block may hold
    Cycle        \* a common multiple of the two spans

NORMAL == "normal"
DIAMINT == "diamint"
Groups == {NORMAL, DIAMINT}

ASSUME PoolConstants ==
    /\ Diamint \subseteq Tx /\ Uncertain \subseteq Tx \ Diamint
    /\ Number \in [Diamint -> Nat \ {0}]
    /\ Miner \in BOOLEAN
    /\ MaxSize \in [Groups -> Nat \ {0}]
    /\ Depth \in Nat /\ MaxStored \in Nat /\ Bodies \subseteq SUBSET Tx
    /\ BidSpan \in Nat \ {0} /\ CleanSpan \in Nat \ {0} /\ Cycle \in Nat \ {0}
    /\ Cycle % BidSpan = 0 /\ Cycle % CleanSpan = 0

VARIABLES
    pool,     \* group -> its packages
    chain,    \* the confirmed transactions
    height,   \* the head's height, modulo Cycle
    stored,   \* the blocks other than the head: what is confirmed on each and
              \* how far it lies below the head's height
    hand,     \* handler -> its step and the package it submits
    refresh,  \* tx_pool_refresh: its step, the block's transactions, its height
    pack      \* the builder: the hashes it will drain

vars == <<pool, chain, height, stored, hand, refresh, pack>>
blocks == <<chain, height, stored>>

Pkgs == [tx : Tx, key : Keys]
Idle == [step |-> "idle"]

\* impl_tx_pool_group
Group(tx) == IF tx \in Diamint THEN DIAMINT ELSE NORMAL

InPool == Txs(pool[NORMAL]) \cup Txs(pool[DIAMINT])

Latest(c) == Max({0} \cup {Number[t] : t \in c \cap Diamint})

\* try_execute_tx on a state, as far as what it has confirmed decides it
ExecutableOn(c, tx) ==
    /\ tx \notin c
    /\ tx \in Diamint => Number[tx] = Latest(c) + 1

\* on the head state
Executable(tx) == ExecutableOn(chain, tx)

Init ==
    /\ pool = [g \in Groups |-> <<>>]
    /\ chain = {} /\ height = 0 /\ stored = {}
    /\ hand = [h \in Handlers |-> Idle]
    /\ refresh = Idle
    /\ pack = {}
-----------------------------------------------------------------------------
(* Submission: three steps, each with the state it reads *)

\* handle_new_tx, submit_transaction: the package executes on the head state
Receive(h, p) ==
    /\ hand[h] = Idle
    /\ Executable(p.tx)
    /\ hand' = [hand EXCEPT ![h] = [step |-> "submit", pkg |-> p]]
    /\ UNCHANGED <<pool, blocks, refresh, pack>>

\* impl_tx_submit: no bids for the block that would mint them
TxSubmit(h) ==
    /\ hand[h].step = "submit"
    /\ hand' = [hand EXCEPT ![h] =
           IF hand[h].pkg.tx \in Diamint /\ (height + 1) % BidSpan = 0
           THEN Idle ELSE [@ EXCEPT !.step = "insert"]]
    /\ UNCHANGED <<pool, blocks, refresh, pack>>

\* the package goes into the normal group whatever it is
MutInsertBy(h) ==
    /\ hand[h].step = "insert"
    /\ pool' = [pool EXCEPT ![NORMAL] = InsertResultOf(@, hand[h].pkg, MaxSize[NORMAL])]
    /\ hand' = [hand EXCEPT ![h] = Idle]
    /\ UNCHANGED <<blocks, refresh, pack>>

\* insert_by
InsertBy(h) ==
    /\ hand[h].step = "insert"
    /\ LET p == hand[h].pkg
           g == Group(p.tx)
       IN  pool' = [pool EXCEPT ![g] = InsertResultOf(@, p, MaxSize[g])]
    /\ hand' = [hand EXCEPT ![h] = Idle]
    /\ UNCHANGED <<blocks, refresh, pack>>
-----------------------------------------------------------------------------
(* Blocks.  refresh is not idle while handle_new_block holds the inserting   *)
(* lock, which synchronisation takes as well and the replay of low bids does *)
(* not.                                                                      *)

NextHeight == (height + 1) % Cycle

\* What a block at height hei on top of c can hold: what executes there, and one
\* diamond mint in every BidSpan blocks
BlocksOn(c, hei) ==
    {b \in Bodies :
        /\ \A t \in b : ExecutableOn(c, t)
        /\ Cardinality(b \cap Diamint) <= (IF hei % BidSpan = 0 THEN 1 ELSE 0)}

\* What can carry the next head: the head, or a stored block at its height
Tips == {chain} \cup {s.txs : s \in {x \in stored : x.lag = 0}}

\* The stored blocks a side block can be a child of, and the height it has
Parents == {s \in stored : s.lag > 0}
ChildHeight(s) == (height + (Cycle - 1) * (s.lag - 1)) % Cycle

\* insert_by: block b on the tip c is higher than the head and becomes the head;
\* all others are one block further below it
Adopt(c, b) ==
    /\ chain' = c \cup b
    /\ height' = NextHeight
    /\ stored' = {[s EXCEPT !.lag = @ + 1] :
                     s \in {x \in stored \cup {[txs |-> chain, lag |-> 0]} : x.lag < Depth}}

\* insert_by: block b on s is not higher than the head and is only stored
Store(s, b) ==
    /\ Cardinality(stored) < MaxStored
    /\ stored' = stored \cup {[txs |-> s.txs \cup b, lag |-> s.lag - 1]}
    /\ UNCHANGED <<chain, height>>

RefreshOf(b, hei) == [step |-> "bids", txs |-> b, hei |-> hei]

\* handle_new_block: the block becomes the head, on the head or on a rival of it;
\* the refresh is told of its own transactions only
HeadBlock ==
    /\ refresh = Idle
    /\ \E c \in Tips : \E b \in BlocksOn(c, NextHeight) :
          Adopt(c, b) /\ refresh' = RefreshOf(b, NextHeight)
    /\ UNCHANGED <<pool, hand, pack>>

\* handle_new_block: the block is stored next to the chain, and the pool
\* refreshed all the same
SideBlock ==
    /\ refresh = Idle
    /\ \E s \in Parents : \E b \in BlocksOn(s.txs, ChildHeight(s)) :
          Store(s, b) /\ refresh' = RefreshOf(b, ChildHeight(s))
    /\ UNCHANGED <<pool, hand, pack>>

\* A block that enters the engine without tx_pool_refresh
Undrained ==
    /\ \/ \E c \in Tips : \E b \in BlocksOn(c, NextHeight) : Adopt(c, b)
       \/ \E s \in Parents : \E b \in BlocksOn(s.txs, ChildHeight(s)) : Store(s, b)
    /\ UNCHANGED <<pool, hand, refresh, pack>>

\* receive_blocks: a block of a batch, under the inserting lock
SyncBlock == refresh = Idle /\ Undrained

\* replay_low_bid_group: discover of a held block, at any time
ReplayBlock == Undrained

\* clean_invalid_diamond_mint_txs: bids for the next number stay
StillBid(tx) == Number[tx] = Latest(chain) + 1

\* impl_tx_pool_refresh, first step, every BidSpan blocks
CleanBids ==
    /\ refresh.step = "bids"
    /\ pool' = IF refresh.hei % BidSpan # 0 THEN pool
               ELSE [pool EXCEPT ![DIAMINT] =
                        Retain(@, {t \in Diamint : StillBid(t)})]
    /\ refresh' = [refresh EXCEPT !.step = NORMAL]
    /\ UNCHANGED <<blocks, hand, pack>>

\* the first transaction is taken for the coinbase and left in the pool
MutDrained == IF refresh.txs = {} THEN {}
              ELSE refresh.txs \ {CHOOSE t \in refresh.txs : TRUE}

\* the transactions of the block that are drained
Drained == refresh.txs

\* MemTxPool::drain, one group at a time
Drain ==
    /\ refresh.step \in Groups
    /\ pool' = [pool EXCEPT ![refresh.step] = Retain(@, Tx \ Drained)]
    /\ refresh' = [refresh EXCEPT !.step =
                      IF @ = NORMAL THEN DIAMINT ELSE "clean"]
    /\ UNCHANGED <<blocks, hand, pack>>

\* the sweep keeps everything from the first package that fails
MutCleaned(q, failing) ==
    LET shield == {i \in DOMAIN q : q[i].tx \in failing}
    IN  Retain(q, {q[i].tx : i \in {j \in DOMAIN q :
                     \/ q[j].tx \notin failing
                     \/ \E k \in shield : k <= j}})

\* clean_invalid_normal_txs: the packages that fail are dropped, up to the
\* first one of type 3 or above, which stays with everything behind it
Cleaned(q, failing) ==
    LET shield == {i \in DOMAIN q : q[i].tx \in failing \cap Uncertain}
    IN  Retain(q, {q[i].tx : i \in {j \in DOMAIN q :
                     \/ q[j].tx \notin failing
                     \/ \E k \in shield : k <= j}})

\* impl_tx_pool_refresh, last step, every CleanSpan blocks
CleanNormal ==
    /\ refresh.step = "clean"
    /\ IF refresh.hei % CleanSpan # 0 THEN pool' = pool
       ELSE \E more \in SUBSET Txs(pool[NORMAL]) :
              pool' = [pool EXCEPT ![NORMAL] =
                         Cleaned(@, more \cup {t \in Tx : ~Executable(t)})]
    /\ refresh' = Idle
    /\ UNCHANGED <<blocks, hand, pack>>
-----------------------------------------------------------------------------
(* The block builder *)

\* append_valid_tx_pick_from_txpool: it meets some prefix of each group and
\* remembers the hash of every package that does not execute
PackScan ==
    /\ Miner /\ pack = {}
    /\ \E n \in 0..Len(pool[NORMAL]), d \in 0..Len(pool[DIAMINT]) :
          LET met == Txs(SubSeq(pool[NORMAL], 1, n)) \cup
                     (IF (height + 1) % BidSpan = 0
                      THEN Txs(SubSeq(pool[DIAMINT], 1, d)) ELSE {})
          IN  \E more \in SUBSET met :
                 pack' = more \cup {t \in met : ~Executable(t)}
    /\ pack' # {}
    /\ UNCHANGED <<pool, blocks, hand, refresh>>

\* the drain after the scan, by hash: whatever version is there by now
PackDrain ==
    /\ pack # {}
    /\ pool' = [g \in Groups |-> Retain(pool[g], Tx \ pack)]
    /\ pack' = {}
    /\ UNCHANGED <<blocks, hand, refresh>>
-----------------------------------------------------------------------------
Submission == \E h \in Handlers : TxSubmit(h) \/ InsertBy(h)
Refresh == CleanBids \/ Drain \/ CleanNormal

Next ==
    \/ \E h \in Handlers, p \in Pkgs : Receive(h, p)
    \/ \E h \in Handlers : TxSubmit(h)
    \/ \E h \in Handlers : InsertBy(h)
    \/ HeadBlock
    \/ SideBlock
    \/ SyncBlock
    \/ ReplayBlock
    \/ CleanBids
    \/ Drain
    \/ CleanNormal
    \/ PackScan
    \/ PackDrain

Spec == Init /\ [][Next]_vars

\* Threads that have work go on, and the node does not only synchronise or replay:
\* it keeps discovering blocks at the heights that clean a group.
Fairness ==
    /\ \A h \in Handlers : WF_vars(TxSubmit(h) \/ InsertBy(h))
    /\ WF_vars(Refresh)
    /\ []<><<HeadBlock /\ NextHeight % BidSpan = 0>>_vars
    /\ []<><<HeadBlock /\ NextHeight % CleanSpan = 0>>_vars

FairSpec == Spec /\ Fairness
-----------------------------------------------------------------------------
(* Properties *)

\* Steps carry what their thread reads; groups fit their size and hold their own
\* transactions only, each of them once.
TypeOK ==
    /\ pool \in [Groups -> Seq(Pkgs)]
    /\ \A g \in Groups :
          /\ Len(pool[g]) <= MaxSize[g]
          /\ Cardinality(Txs(pool[g])) = Len(pool[g])
          /\ \A t \in Txs(pool[g]) : Group(t) = g
    /\ chain \subseteq Tx /\ pack \subseteq Tx
    /\ height \in 0..(Cycle - 1)
    /\ \A h \in Handlers :
          \/ hand[h] = Idle
          \/ hand[h] \in [step : {"submit", "insert"}, pkg : Pkgs]
    /\ \/ refresh = Idle
       \/ refresh \in [step : {"bids", "clean"} \cup Groups,
                       txs : SUBSET Tx, hei : 0..(Cycle - 1)]
    /\ stored \subseteq [txs : SUBSET Tx, lag : 0..Depth]

\* drain has not come to this transaction yet
DrainDue(tx) ==
    /\ refresh # Idle
    /\ tx \in refresh.txs
    /\ refresh.step \in {"bids", NORMAL, Group(tx)}

Stale(tx) == tx \in InPool \cap chain /\ ~DrainDue(tx)

\* A confirmed transaction escapes drain in four ways only: a handler checked it
\* before its block and inserts it now; its block is synchronised, or the replay
\* of a low bid, which refresh nothing; or its block was stored on a branch that
\* a child of it now makes the chain, of which only the child is drained.
StaleOnlyByRace ==
    [][\A t \in Tx : Stale(t)' /\ ~Stale(t) =>
          \/ \E h \in Handlers : InsertBy(h) /\ hand[h].pkg.tx = t
          \/ SyncBlock
          \/ ReplayBlock
          \/ HeadBlock /\ \E s \in stored :
                s.lag = 0 /\ t \in s.txs \ chain /\ s.txs \subseteq chain']_vars

\* A package of type 3 or above at or ahead of a transaction's place
Shielded(tx) ==
    LET q == pool[NORMAL]
    IN  \E i, j \in DOMAIN q : i <= j /\ q[i].tx \in Uncertain /\ q[j].tx = tx

\* Whatever raced in, a transaction that is confirmed, and a bid for a number
\* that is minted, is eventually dropped, unless a reorganisation makes it
\* executable again or a type 3 transaction ahead of it shields it from
\* clean_invalid_normal_txs.
StalePurged ==
    \A t \in Tx :
       (t \in InPool /\ ~Executable(t))
          ~> (t \notin InPool \/ Executable(t) \/ Shielded(t))
=============================================================================
