------------------------------ MODULE NodeSync ------------------------------
(* How a node that is behind gets the blocks of its peers: the message     *)
(* handlers of node/src/core/protocol.rs, the sync tracker, the table of   *)
(* known hashes, and what a lost connection does to all of them.           *)
(*                                                                         *)
(* The peers are on one chain, "main", and a block of it is its height.    *)
(* The node holds main up to mainH and may start with a branch of its own, *)
(* which leaves main at fork and ends at own (0: no branch).  What the     *)
(* engine does with a block (module ChainEngine) is kept as far as heights *)
(* tell: the parent must be held, the block must be new and above the root *)
(* and the head moves to a strictly higher block only.                     *)
(*                                                                         *)
(* Every message is handled by a task of its own (transport.rs, on_message *)
(* under tokio::spawn), so messages of one connection overtake each other: *)
(* net is a bag.  A message is lost only with its connection.  A task that *)
(* had already read its message goes on after the connection is gone, with *)
(* a peer that can no longer be sent to ("live" is FALSE then).            *)
EXTENDS Integers, Sequences, FiniteSets, Bags, FiniteSetsExt

CONSTANTS
    Peers,        \* the public nodes this node dials
    Level,        \* unstable_block
    MaxSendNum,   \* maxsendnum: blocks of one batch
    KnowCap,      \* size of the knows table
    MaxHeight,    \* bound on the heights of the peers' chain and of a branch
    Starts,       \* set of starts, see StartOK
    None          \* no active peer

\* The node's chain, the peers' heights and the height they grow to, the height
\* the node has to reach, and how many faults and lost connections there are.
StartOK(st) ==
    /\ {st.main, st.fork, st.own, st.top, st.goal, st.faults, st.drops} \subseteq Nat
    /\ st.heights \in [Peers -> 0..st.top]
    /\ {st.main, st.own, st.top} \subseteq 0..MaxHeight
    /\ st.fork <= st.main /\ (st.own = 0 \/ st.own > st.fork)

ASSUME NodeSyncAssumption ==
    /\ Level \in Nat \ {0} /\ MaxSendNum \in Nat \ {0} /\ KnowCap \in Nat
    /\ MaxHeight \in Nat /\ None \notin Peers /\ IsFiniteSet(Peers)
    /\ \A st \in Starts : StartOK(st)

VARIABLES
    start,      \* the start this behaviour has: its goal, fork and own
    mainH,      \* highest block of main that the node holds
    height,     \* height[p]: latest block of peer p
    conn,       \* conn[p]: p is connected
    closing,    \* peers whose on_disconnect has not run yet
    net,        \* bag of messages
    retries,    \* bag of batches that failed and sleep before they ask again
    tracker,    \* SyncTracker: active_peer, and whether it is under 10 s old
    knows,      \* hashes of announced blocks, newest first
    faults,     \* transient insertion failures left
    drops       \* disconnections left

vars == <<start, mainH, height, conn, closing, net, retries, tracker, knows, faults, drops>>
-----------------------------------------------------------------------------
(* The node's chain.                                                       *)
Forked(m) == start.own # 0 /\ start.own >= m
LatestOf(m) == IF Forked(m) THEN start.own ELSE m
Latest == LatestOf(mainH)
Root == Max({0, Latest - Level})

\* The node's block at height h of its current chain is the peers' block.
SameHash(h) == Forked(mainH) => h <= start.fork

\* insert_by: the parent of block h is in the tree, h is new and above the root.
Insertable(h) ==
    /\ h = mainH + 1
    /\ h > Root
    /\ Forked(mainH) => start.fork >= Root

\* do_synchronize: the first block is between root + 1 and head + 1.
Synchronizable(s, e) == s <= e /\ s \in (Root + 1)..(Latest + 1) /\ Insertable(s)
-----------------------------------------------------------------------------
(* Messages.  A request goes to its peer, the others come from it.         *)
Requests == {"req_status", "req_hash", "req_block"}
Msg(t, p, a, b, l) == [type |-> t, peer |-> p, a |-> a, b |-> b, live |-> l]
Req(t, p, a, b) == Msg(t, p, a, b, TRUE)
ReqStatus(p) == Req("req_status", p, 0, 0)

\* Peer::send: nothing goes out through a closed connection.
Send(m, msgs, l) == net' = (net (-) SetToBag({m})) (+) (IF l THEN SetToBag(msgs) ELSE EmptyBag)
Drop(m) == net' = net (-) SetToBag({m})
-----------------------------------------------------------------------------
(* SyncTracker.                                                            *)
Idle == [peer |-> None, fresh |-> FALSE]
Busy(p) == tracker.peer \notin {None, p} /\ tracker.fresh

\* begin_or_refresh returned true.
Begin(p) == ~Busy(p) /\ tracker' = [peer |-> p, fresh |-> TRUE]

\* begin_or_refresh, its result ignored.
TryBegin(p) == IF Busy(p) THEN UNCHANGED tracker ELSE Begin(p)

finish_if_done(p, next, remote) ==
    tracker' = IF tracker.peer # p THEN tracker
               ELSE IF next > remote THEN Idle ELSE [peer |-> p, fresh |-> TRUE]

clear_peer(p) == tracker' = IF tracker.peer = p THEN Idle ELSE tracker

\* Ten seconds pass without an update.
TrackerExpires ==
    /\ tracker.fresh
    /\ tracker' = [tracker EXCEPT !.fresh = FALSE]
    /\ UNCHANGED <<start, mainH, height, conn, closing, net, retries, knows, faults, drops>>
-----------------------------------------------------------------------------
(* The peer's answers.                                                     *)
send_status(m) ==
    /\ m.type = "req_status"
    /\ Send(m, {Msg("status", m.peer, height[m.peer], 0, TRUE)}, TRUE)

\* The hashes go from end down to end - num, or to 1: b is how many they are.
HashNum(num, end) == IF num >= end THEN end ELSE num + 1

send_hashs(m) ==
    /\ m.type = "req_hash"
    /\ IF m.a > height[m.peer] \/ m.a = 0 THEN Drop(m)
       ELSE Send(m, {Msg("hashs", m.peer, m.a, HashNum(m.b, m.a), TRUE)}, TRUE)

\* The last block of the batch, 0 when there is none to send.
\* Mutant: the batch is not cut at the peer's latest block.
MutBatchEnd(s, latest) == IF s > latest THEN 0 ELSE s + MaxSendNum - 1
BatchEnd(s, latest) == IF s > latest THEN 0 ELSE Min({latest, s + MaxSendNum - 1})

\* A batch: its first and last block and the peer's latest height at the time.
BlocksMsg(p, s, e, latest) ==
    [type |-> "blocks", peer |-> p, a |-> s, b |-> e, latest |-> latest, live |-> TRUE]
send_blocks(m) ==
    /\ m.type = "req_block"
    /\ LET latest == height[m.peer]
       IN Send(m, {BlocksMsg(m.peer, m.a, BatchEnd(m.a, latest), latest)}, TRUE)

PeerHandles(m) ==
    /\ m.type \in Requests
    /\ send_status(m) \/ send_hashs(m) \/ send_blocks(m)
    /\ UNCHANGED <<start, mainH, height, conn, closing, retries, tracker, knows, faults, drops>>
-----------------------------------------------------------------------------
(* The node's handlers.                                                    *)
get_status_try_sync_blocks(m, starthei) ==
    IF Busy(m.peer) THEN Drop(m) /\ UNCHANGED tracker
    ELSE Begin(m.peer) /\ Send(m, {Req("req_block", m.peer, starthei, 0)}, m.live)

receive_status(m) ==
    /\ m.type = "status"
    /\ \/ Latest >= m.a /\ Drop(m) /\ UNCHANGED tracker
       \/ /\ Latest < m.a /\ (Latest = 0 \/ m.a - Latest > Level)
          /\ get_status_try_sync_blocks(m, Latest + 1)
       \/ /\ Latest < m.a /\ Latest # 0 /\ m.a - Latest <= Level
          /\ TryBegin(m.peer)
          /\ Send(m, {Req("req_hash", m.peer, Latest, Level)}, m.live)
    /\ UNCHANGED <<mainH, retries, knows, faults>>

\* The heights receive_hashs compares, and the highest at which they agree.
Walk(end, num) ==
    LET n == Min({num, Level + 1}) IN (IF end <= n THEN 1 ELSE end - n + 1)..end
Agreed(end, num) == {h \in Walk(end, num) : SameHash(h)}

receive_hashs(m) ==
    /\ m.type = "hashs"
    /\ IF m.a > Latest \/ Agreed(m.a, m.b) = {} THEN Drop(m) /\ UNCHANGED tracker
       ELSE get_status_try_sync_blocks(m, Max(Agreed(m.a, m.b)) + 1)
    /\ UNCHANGED <<mainH, retries, knows, faults>>

\* P2PManage::switch_peer: the same node if it is connected, maybe through a
\* newer connection, else the first of the others; with none, the old peer.
Switched(p) == IF conn[p] THEN {p} ELSE {q \in Peers : conn[q]}

\* A whole batch goes in.
BatchOk(m) ==
    /\ Synchronizable(m.a, m.b)
    /\ mainH' = m.b
    /\ finish_if_done(m.peer, m.b + 1, m.latest)
    /\ IF m.b >= m.latest \/ Switched(m.peer) = {} THEN Drop(m)
       ELSE \E q \in Switched(m.peer) : Send(m, {Req("req_block", q, m.b + 1, 0)}, TRUE)
    /\ UNCHANGED <<retries, faults>>

\* Mutant: the retry goes on behind the batch.
MutRetry(m, head) == [peer |-> m.peer, from |-> m.b + 1, live |-> m.live]
\* The retry asks for what follows the head as it is now, after a pause.
Retry(m, head) == [peer |-> m.peer, from |-> head + 1, live |-> m.live]
\* Mutant: the failed batch ends the synchronisation.
MutRetrying(m, head) == UNCHANGED retries
Retrying(m, head) == retries' = retries (+) SetToBag({Retry(m, head)})

\* The batch does not fit, or is empty: nothing goes in.
BatchRefused(m) ==
    /\ ~Synchronizable(m.a, m.b)
    /\ Retrying(m, Latest)
    /\ Drop(m)
    /\ UNCHANGED <<mainH, tracker, faults>>

\* A block of the batch fails for a reason that passes; those before it stay.
BatchFails(m) ==
    /\ Synchronizable(m.a, m.b)
    /\ faults > 0
    /\ faults' = faults - 1
    /\ \E last \in (m.a - 1)..(m.b - 1) :
         /\ mainH' = last
         /\ Retrying(m, LatestOf(last))
    /\ Drop(m)
    /\ UNCHANGED tracker

receive_blocks(m) ==
    /\ m.type = "blocks"
    /\ BatchOk(m) \/ BatchRefused(m) \/ BatchFails(m)
    /\ UNCHANGED knows

\* Knowledge::add: the oldest hash leaves a full table.
AddKnow(h) ==
    IF KnowCap = 0 THEN <<>> ELSE SubSeq(<<h>> \o knows, 1, Min({KnowCap, Len(knows) + 1}))

\* The block is inserted, or does not fit.
DiscoverOk(h) ==
    /\ mainH' = IF Insertable(h) THEN h ELSE mainH
    /\ UNCHANGED faults

\* Or it is refused for a reason that passes: blk_found, blk_arrive, discover.
DiscoverFails ==
    /\ faults > 0
    /\ faults' = faults - 1
    /\ UNCHANGED mainH

\* The hash is remembered first, whatever becomes of the block.
handle_new_block(m) ==
    LET h == m.a IN
    /\ m.type = "discover"
    /\ \/ /\ \E i \in 1..Len(knows) : knows[i] = h
          /\ Drop(m) /\ UNCHANGED <<mainH, tracker, knows, faults>>
       \/ /\ \A i \in 1..Len(knows) : knows[i] # h
          /\ knows' = AddKnow(h)
          /\ \/ /\ h > Latest + Level + 1
                /\ get_status_try_sync_blocks(m, Latest + 1) /\ UNCHANGED <<mainH, faults>>
             \/ /\ h > Latest + 1 /\ h <= Latest + Level + 1
                /\ Send(m, {Req("req_hash", m.peer, Latest, Level + 1)}, m.live)
                /\ UNCHANGED <<mainH, tracker, faults>>
             \/ /\ h <= Latest + 1
                /\ DiscoverOk(h) \/ DiscoverFails
                /\ Drop(m) /\ UNCHANGED tracker
    /\ UNCHANGED retries

NodeHandles(m) ==
    /\ m.type \notin Requests
    /\ receive_status(m) \/ receive_hashs(m) \/ receive_blocks(m) \/ handle_new_block(m)
    /\ UNCHANGED <<start, height, conn, closing, drops>>

Handle == \E m \in BagToSet(net) : PeerHandles(m) \/ NodeHandles(m)

\* The pause of a failed batch is over.
RetryWakes(r) ==
    /\ retries' = retries (-) SetToBag({r})
    /\ net' = IF r.live THEN net (+) SetToBag({Req("req_block", r.peer, r.from, 0)}) ELSE net
    /\ UNCHANGED <<start, mainH, height, conn, closing, tracker, knows, faults, drops>>
-----------------------------------------------------------------------------
(* Connections, and the chain of the peers.                                *)

\* Requests under way and unread messages are lost; the tasks that have read
\* theirs go on.
Disconnect(p) ==
    /\ conn[p] /\ drops > 0 /\ p \notin closing
    /\ drops' = drops - 1
    /\ conn' = [conn EXCEPT ![p] = FALSE]
    /\ closing' = closing \cup {p}
    /\ LET mine == {m \in BagToSet(net) : m.peer = p /\ m.live}
           Cut(m) == [m EXCEPT !.live = FALSE]
       IN \E read \in SUBSET {m \in mine : m.type \notin Requests} :
            net' = [m \in BagToSet(net) \ mine |-> net[m]]
                   (+) SetToBag({Cut(m) : m \in read})
    /\ retries' = BagOfAll(LAMBDA r : IF r.peer = p THEN [r EXCEPT !.live = FALSE] ELSE r, retries)
    /\ UNCHANGED <<start, mainH, height, tracker, knows, faults>>

\* The task that clears the tracker runs on its own.
on_disconnect(p) ==
    /\ p \in closing
    /\ closing' = closing \ {p}
    /\ clear_peer(p)
    /\ UNCHANGED <<start, mainH, height, conn, net, retries, knows, faults, drops>>

\* The reconnect ticker dials while fewer than two peers are left; on_connect.
\* It ticks every few minutes (transport.rs 235, 238): the tasks of the old
\* connection have run by then.
Reconnect(p) ==
    /\ ~conn[p] /\ p \notin closing
    /\ \A m \in BagToSet(net) : m.peer # p
    /\ Cardinality({q \in Peers : conn[q]}) < 2
    /\ conn' = [conn EXCEPT ![p] = TRUE]
    /\ net' = net (+) SetToBag({ReqStatus(p)})
    /\ UNCHANGED <<start, mainH, height, closing, retries, tracker, knows, faults, drops>>

\* A peer gets its next block and announces it.
Grow(p) ==
    /\ height[p] < start.top
    /\ height' = [height EXCEPT ![p] = @ + 1]
    /\ net' = IF conn[p] THEN net (+) SetToBag({Msg("discover", p, height[p] + 1, 0, TRUE)}) ELSE net
    /\ UNCHANGED <<start, mainH, conn, closing, retries, tracker, knows, faults, drops>>
-----------------------------------------------------------------------------
Init ==
    /\ start \in Starts
    /\ mainH = start.main
    /\ height = start.heights
    /\ conn = [p \in Peers |-> TRUE]
    /\ closing = {}
    /\ net = SetToBag({ReqStatus(p) : p \in Peers})
    /\ retries = EmptyBag
    /\ tracker = Idle
    /\ knows = <<>>
    /\ faults = start.faults
    /\ drops = start.drops

Next ==
    \/ Handle
    \/ \E r \in BagToSet(retries) : RetryWakes(r)
    \/ TrackerExpires
    \/ \E p \in Peers : Disconnect(p) \/ on_disconnect(p) \/ Reconnect(p) \/ Grow(p)

Spec == Init /\ [][Next]_vars

\* Every task gets to run, a pause ends and the ticker dials: which message is
\* handled when is the scheduler's business, but no kind of message about a
\* height is put off for ever.
Types == Requests \cup {"status", "hashs", "blocks", "discover"}
Of(t, p, h) == {m \in BagToSet(net) : m.type = t /\ m.peer = p /\ m.a = h}
Fairness ==
    /\ \A p \in Peers, h \in 0..(MaxHeight + 1) :
         /\ \A t \in Types : WF_vars(\E m \in Of(t, p, h) : PeerHandles(m) \/ NodeHandles(m))
         /\ WF_vars(\E r \in BagToSet(retries) : r.peer = p /\ r.from = h /\ RetryWakes(r))
    /\ \A p \in Peers : WF_vars(on_disconnect(p)) /\ WF_vars(Reconnect(p))

FairSpec == Spec /\ Fairness
-----------------------------------------------------------------------------
\* What each message can carry: a and b are its heights, or the length of a walk.
Sent(t, as, bs) == [type : {t}, peer : Peers, a : as, b : bs, live : BOOLEAN]
Blocks == 1..MaxHeight
MsgSet ==
    Sent("req_status", {0}, {0}) \cup Sent("status", 0..MaxHeight, {0})
    \cup Sent("req_hash", 0..MaxHeight, {Level, Level + 1})
    \cup Sent("hashs", Blocks, Blocks)
    \cup Sent("req_block", 1..(MaxHeight + 1), {0})
    \cup Sent("discover", Blocks, {0})
    \cup [type : {"blocks"}, peer : Peers, a : 1..(MaxHeight + 1),
          b : 0..MaxHeight, latest : 0..MaxHeight, live : BOOLEAN]
RetrySet == [peer : Peers, from : 1..(MaxHeight + 1), live : BOOLEAN]

\* The state has its type; the knows table never outgrows its size and no
\* request leaves the range of heights there are (Knowledge::add, send_blocks).
TypeOK ==
    /\ start \in Starts
    /\ mainH \in 0..MaxHeight
    /\ height \in [Peers -> 0..MaxHeight]
    /\ conn \in [Peers -> BOOLEAN] /\ closing \subseteq Peers
    /\ BagToSet(net) \subseteq MsgSet
    /\ BagToSet(retries) \subseteq RetrySet
    /\ tracker \in [peer : Peers \cup {None}, fresh : BOOLEAN]
    /\ knows \in Seq(1..MaxHeight) /\ Len(knows) <= KnowCap
    /\ faults \in Nat /\ drops \in Nat

\* A message asks for or tells of blocks that its sender or its peer has, or the
\* next one.
Timely(m) ==
    CASE m.type \in {"req_hash", "hashs"}    -> m.a <= Latest
      [] m.type = "req_block"                -> m.a <= Latest + 1
      [] m.type \in {"status", "discover"}   -> m.a <= height[m.peer]
      [] m.type = "blocks"                   -> /\ m.a <= Latest + 1
                                                /\ m.b <= m.latest
                                                /\ m.latest <= height[m.peer]
      [] m.type = "req_status"               -> TRUE

\* However late a message or the end of a pause comes, the node asks for blocks
\* from its head + 1 at most and is sent none from further up: the retry of a
\* failed batch resumes "from where the chain ACTUALLY is rather than from this
\* batch's end", of which some blocks may be in, so do_synchronize refuses no
\* batch for its start being too high (receive_blocks, receive_hashs).
NeverAhead ==
    /\ \A m \in BagToSet(net) : Timely(m)
    /\ \A r \in BagToSet(retries) : r.from <= Latest + 1

\* A node that is behind catches up.  Once every peer has reached the goal, the
\* node reaches it too: whatever the order in which messages are handled, though
\* a batch fails half way, the peer that is being asked goes away, a late task
\* takes the tracker for a connection that is gone, or the tracker turns an
\* answer of the other peer down (receive_status, receive_hashs, receive_blocks,
\* handle_new_block, SyncTracker, on_connect and on_disconnect).
CatchesUp == (\A p \in Peers : height[p] >= start.goal) ~> (Latest >= start.goal)
=============================================================================
