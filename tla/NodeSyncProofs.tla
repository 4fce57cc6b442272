--------------------------- MODULE NodeSyncProofs ---------------------------
(***************************************************************************)
(* Theorems about module NodeSync: every message under way is about blocks *)
(* its sender or its peer has, or the next one, and so are the pauses of   *)
(* failed batches, in whatever order messages are handled and whichever    *)
(* connections and batches fail.                                           *)
(***************************************************************************)
EXTENDS NodeSync, DataLemmas

-----------------------------------------------------------------------------
(* Bags, as far as their members go.                                       *)

LEMMA BagPlus ==
    ASSUME NEW B, NEW C
    PROVE  BagToSet(B (+) C) = BagToSet(B) \cup BagToSet(C)
BY DEF BagToSet, (+)

LEMMA BagMinus ==
    ASSUME NEW B, NEW C
    PROVE  BagToSet(B (-) C) \subseteq BagToSet(B)
BY DEF BagToSet, (-)

LEMMA BagOfSet ==
    /\ \A S : BagToSet(SetToBag(S)) = S
    /\ BagToSet(EmptyBag) = {}
BY DEF BagToSet, SetToBag, EmptyBag

\* Members leave for those sent in their place.
LEMMA Exchange ==
    ASSUME NEW B, NEW C, NEW out, NEW in, NEW S,
           C = (B (-) SetToBag(out)) (+) SetToBag(in),
           BagToSet(B) \subseteq S, in \subseteq S
    PROVE  BagToSet(C) \subseteq S
BY BagPlus, BagMinus, BagOfSet

LEMMA SendKeeps ==
    ASSUME NEW m, NEW msgs, NEW l, Send(m, msgs, l),
           NEW S, BagToSet(net) \subseteq S, msgs \subseteq S
    PROVE  BagToSet(net') \subseteq S
<1>1. CASE l
    BY <1>1, Exchange DEF Send
<1>2. CASE ~l
    BY <1>2, Exchange DEF Send, EmptyBag
<1>. QED
    BY <1>1, <1>2

LEMMA DropKeeps ==
    ASSUME NEW m, Drop(m), NEW S, BagToSet(net) \subseteq S
    PROVE  BagToSet(net') \subseteq S
BY BagMinus DEF Drop
-----------------------------------------------------------------------------
(* The least and the greatest of a few heights.                            *)

LEMMA MinOfTwo ==
    ASSUME NEW a \in Int, NEW b \in Int
    PROVE  Min({a, b}) = IF a <= b THEN a ELSE b
<1>1. PICK x \in {a, b} : \A y \in {a, b} : x <= y
  <2>1. CASE a <= b
      BY <2>1
  <2>2. CASE ~(a <= b)
      BY <2>2
  <2>. QED
      BY <2>1, <2>2
<1>2. Min({a, b}) \in {a, b} /\ \A y \in {a, b} : Min({a, b}) <= y
    BY <1>1 DEF Min
<1>. QED
    BY <1>2

LEMMA MaxOfTwo ==
    ASSUME NEW a \in Int, NEW b \in Int
    PROVE  Max({a, b}) = IF a >= b THEN a ELSE b
<1>1. PICK x \in {a, b} : \A y \in {a, b} : x >= y
  <2>1. CASE a >= b
      BY <2>1
  <2>2. CASE ~(a >= b)
      BY <2>2
  <2>. QED
      BY <2>1, <2>2
<1>2. Max({a, b}) \in {a, b} /\ \A y \in {a, b} : Max({a, b}) >= y
    BY <1>1 DEF Max
<1>. QED
    BY <1>2

LEMMA GreatestHeight ==
    ASSUME NEW n \in Nat, NEW S \in SUBSET (1..n), S # {}
    PROVE  Max(S) \in S
<1>1. PICK T : T = {n - x : x \in S}
    OBVIOUS
<1>2. T \in SUBSET Nat /\ T # {}
  <2>1. \A x \in S : x \in Nat /\ n - x \in Nat
      BY SMT
  <2>. QED
      BY <1>1, <2>1
<1>3. PICK k \in T : \A j \in T : k <= j
    BY <1>2, LeastNumber
<1>4. PICK x \in S : k = n - x
    BY <1>1, <1>3
<1>5. ASSUME NEW y \in S PROVE x >= y
  <2>1. n - y \in T
      BY <1>1
  <2>2. k <= n - y
      BY <1>3, <2>1
  <2>. QED
      BY <1>4, <2>2
<1>. QED
    BY <1>4, <1>5 DEF Max
-----------------------------------------------------------------------------
(* The invariant, on values: L is the height of the head, hs the heights   *)
(* of the peers.                                                           *)

OnTime(m, L, hs) ==
    /\ m.type \in {"req_hash", "hashs"} => m.a <= L
    /\ m.type = "req_block" => m.a <= L + 1
    /\ m.type \in {"status", "discover"} => m.a <= hs[m.peer]
    /\ m.type = "blocks" => m.a <= L + 1 /\ m.b <= m.latest /\ m.latest <= hs[m.peer]

Good(L, hs) == {m \in MsgSet : OnTime(m, L, hs)}
Due(L) == {r \in RetrySet : r.from <= L + 1}

Trackers == [peer : Peers \cup {None}, fresh : BOOLEAN]
HeightsOf == [Peers -> 0..MaxHeight]

SyncInv ==
    /\ TypeOK
    /\ BagToSet(net) \subseteq Good(Latest, height)
    /\ BagToSet(retries) \subseteq Due(Latest)

LEMMA MessageIs ==
    ASSUME NEW m \in MsgSet
    PROVE  /\ m.type \in Types /\ m.peer \in Peers /\ m.live \in BOOLEAN
           /\ m.type = "req_hash" => m.a \in 0..MaxHeight /\ m.b \in {Level, Level + 1}
           /\ m.type = "hashs" => m.a \in Blocks /\ m.b \in Blocks
           /\ m.type = "req_block" => m.a \in 1..(MaxHeight + 1)
           /\ m.type = "status" => m.a \in 0..MaxHeight
           /\ m.type = "discover" => m.a \in Blocks
           /\ m.type = "blocks" => /\ m.a \in 1..(MaxHeight + 1)
                                   /\ m.b \in 0..MaxHeight /\ m.latest \in 0..MaxHeight
BY DEF MsgSet, Sent, Types, Requests

\* What the node and its peers send.
LEMMA MessageOf ==
    ASSUME NEW p \in Peers, NEW L \in 0..MaxHeight, NEW hs \in HeightsOf
    PROVE  /\ ReqStatus(p) \in Good(L, hs)
           /\ Msg("status", p, hs[p], 0, TRUE) \in Good(L, hs)
           /\ \A b \in {Level, Level + 1} : Req("req_hash", p, L, b) \in Good(L, hs)
           /\ \A a \in 1..(L + 1) : Req("req_block", p, a, 0) \in Good(L, hs)
           /\ \A a \in Blocks, b \in Blocks :
                 a <= L => Msg("hashs", p, a, b, TRUE) \in Good(L, hs)
           /\ \A a \in Blocks : a <= hs[p] => Msg("discover", p, a, 0, TRUE) \in Good(L, hs)
           /\ \A a \in 1..(L + 1), b \in 0..hs[p] : BlocksMsg(p, a, b, hs[p]) \in Good(L, hs)
<1>1. MaxHeight \in Nat /\ hs[p] \in 0..MaxHeight
    BY NodeSyncAssumption DEF HeightsOf
<1>2. ReqStatus(p) \in Good(L, hs)
    BY DEF ReqStatus, Req, Msg, MsgSet, Sent, Good, OnTime
<1>3. Msg("status", p, hs[p], 0, TRUE) \in Good(L, hs)
    BY <1>1 DEF Msg, MsgSet, Sent, Good, OnTime
<1>4. ASSUME NEW b \in {Level, Level + 1} PROVE Req("req_hash", p, L, b) \in Good(L, hs)
    BY <1>1 DEF Req, Msg, MsgSet, Sent, Good, OnTime
<1>5. ASSUME NEW a \in 1..(L + 1) PROVE Req("req_block", p, a, 0) \in Good(L, hs)
    BY <1>1 DEF Req, Msg, MsgSet, Sent, Good, OnTime
<1>6. ASSUME NEW a \in Blocks, NEW b \in Blocks, a <= L
      PROVE  Msg("hashs", p, a, b, TRUE) \in Good(L, hs)
    BY <1>1, <1>6 DEF Msg, MsgSet, Sent, Good, OnTime
<1>7. ASSUME NEW a \in Blocks, a <= hs[p] PROVE Msg("discover", p, a, 0, TRUE) \in Good(L, hs)
    BY <1>1, <1>7 DEF Msg, MsgSet, Sent, Good, OnTime
<1>8. ASSUME NEW a \in 1..(L + 1), NEW b \in 0..hs[p]
      PROVE  BlocksMsg(p, a, b, hs[p]) \in Good(L, hs)
  <2>1. BlocksMsg(p, a, b, hs[p]) \in MsgSet
      BY <1>1 DEF BlocksMsg, MsgSet
  <2>2. OnTime(BlocksMsg(p, a, b, hs[p]), L, hs)
      BY <1>1 DEF BlocksMsg, OnTime
  <2>. QED
      BY <2>1, <2>2 DEF Good
<1>. QED
    BY <1>2, <1>3, <1>4, <1>5, <1>6, <1>7, <1>8

\* A task that has read its message goes on without the connection.
LEMMA CutKeeps ==
    ASSUME NEW L, NEW hs, NEW m \in Good(L, hs)
    PROVE  [m EXCEPT !.live = FALSE] \in Good(L, hs)
<1>1. PICK c : c = [m EXCEPT !.live = FALSE]
    OBVIOUS
<1>2. c \in MsgSet
  <2>1. ASSUME NEW t, NEW as, NEW bs, m \in Sent(t, as, bs) PROVE c \in Sent(t, as, bs)
      BY <1>1, <2>1 DEF Sent
  <2>2. PICK B : B = [type : {"blocks"}, peer : Peers, a : 1..(MaxHeight + 1),
                      b : 0..MaxHeight, latest : 0..MaxHeight, live : BOOLEAN]
      OBVIOUS
  <2>3. ASSUME m \in B PROVE c \in B
      BY <1>1, <2>2, <2>3
  <2>. QED
      BY <2>1, <2>2, <2>3 DEF Good, MsgSet
<1>3. /\ c.type = m.type /\ c.a = m.a /\ c.peer = m.peer
      /\ m.type = "blocks" => c.b = m.b /\ c.latest = m.latest
    BY <1>1 DEF Good, MsgSet, Sent
<1>4. OnTime(c, L, hs)
    BY <1>3 DEF Good, OnTime
<1>. QED
    BY <1>1, <1>2, <1>4 DEF Good

\* Heads only move up, so what was on time stays so.
LEMMA GoodGrows ==
    ASSUME NEW L \in Int, NEW K \in Int, L <= K,
           NEW hs \in HeightsOf, NEW gs \in HeightsOf, \A p \in Peers : hs[p] <= gs[p]
    PROVE  Good(L, hs) \subseteq Good(K, gs) /\ Due(L) \subseteq Due(K)
<1>1. ASSUME NEW m \in Good(L, hs) PROVE m \in Good(K, gs)
  <2>1. m \in MsgSet /\ OnTime(m, L, hs) /\ m.peer \in Peers
      BY MessageIs DEF Good
  <2>2. hs[m.peer] \in Int /\ gs[m.peer] \in Int /\ hs[m.peer] <= gs[m.peer]
      BY <2>1 DEF HeightsOf
  <2>3. /\ m.type \in {"req_hash", "hashs", "req_block", "status", "discover", "blocks"} => m.a \in Int
        /\ m.type = "blocks" => m.latest \in Int
      BY <2>1, MessageIs DEF Blocks
  <2>4. OnTime(m, K, gs)
      BY <2>1, <2>2, <2>3 DEF OnTime
  <2>. QED
      BY <2>1, <2>4 DEF Good
<1>2. ASSUME NEW r \in Due(L) PROVE r \in Due(K)
    BY NodeSyncAssumption DEF Due, RetrySet
<1>. QED
    BY <1>1, <1>2

\* The property is what Good says.
LEMMA NeverAheadIs ==
    ASSUME SyncInv
    PROVE  NeverAhead
<1>1. ASSUME NEW m \in BagToSet(net) PROVE Timely(m)
  <2>1. m \in MsgSet /\ OnTime(m, Latest, height)
      BY DEF SyncInv, Good
  <2>2. m.type \in {"req_status", "req_hash", "req_block", "status", "hashs", "blocks", "discover"}
      BY <2>1, MessageIs DEF Types, Requests
  <2>. QED
      BY <2>1, <2>2 DEF OnTime, Timely
<1>. QED
    BY <1>1 DEF SyncInv, Due, NeverAhead
-----------------------------------------------------------------------------
(* The node's chain.                                                       *)

LEMMA StartIs ==
    ASSUME TypeOK
    PROVE  /\ start.own \in 0..MaxHeight /\ start.main \in 0..MaxHeight
           /\ start.faults \in Nat /\ start.drops \in Nat
           /\ MaxHeight \in Nat /\ Level \in Nat \ {0} /\ MaxSendNum \in Nat \ {0}
           /\ KnowCap \in Nat
BY NodeSyncAssumption DEF TypeOK, StartOK

LEMMA HeadGrows ==
    ASSUME TypeOK, NEW n \in mainH..MaxHeight
    PROVE  /\ LatestOf(n) \in 0..MaxHeight
           /\ Latest \in 0..MaxHeight
           /\ Latest <= LatestOf(n)
           /\ n <= LatestOf(n)
<1>1. mainH \in 0..MaxHeight /\ start.own \in 0..MaxHeight /\ MaxHeight \in Nat
    BY StartIs DEF TypeOK
<1>. QED
    BY <1>1 DEF LatestOf, Latest, Forked

\* What a handler may do to the state, but for the messages it sends: the head
\* only moves up.
Kept ==
    /\ mainH' \in mainH..MaxHeight
    /\ tracker' \in Trackers
    /\ BagToSet(net') \subseteq Good(LatestOf(mainH'), height)
    /\ BagToSet(retries') \subseteq Due(LatestOf(mainH'))
    /\ knows' \in Seq(Blocks) /\ Len(knows') <= KnowCap
    /\ faults' \in Nat

\* What the invariant says when the head stays.
LEMMA HeadStays ==
    ASSUME SyncInv
    PROVE  /\ mainH \in mainH..MaxHeight /\ LatestOf(mainH) = Latest
           /\ Latest \in 0..MaxHeight
           /\ tracker \in Trackers
           /\ BagToSet(net) \subseteq Good(Latest, height)
           /\ BagToSet(retries) \subseteq Due(Latest)
           /\ knows \in Seq(Blocks) /\ Len(knows) <= KnowCap
           /\ faults \in Nat /\ height \in HeightsOf
<1>1. mainH \in 0..MaxHeight /\ MaxHeight \in Nat
    BY StartIs DEF SyncInv, TypeOK
<1>2. mainH \in mainH..MaxHeight
    BY <1>1
<1>3. Latest \in 0..MaxHeight
    BY <1>2, HeadGrows DEF SyncInv
<1>. QED
    BY <1>2, <1>3 DEF SyncInv, TypeOK, Latest, Trackers, Blocks, HeightsOf

LEMMA BeginKeeps ==
    ASSUME NEW p \in Peers, Begin(p)
    PROVE  tracker' \in Trackers
BY DEF Begin, Trackers

LEMMA TryBeginKeeps ==
    ASSUME NEW p \in Peers, TryBegin(p), tracker \in Trackers
    PROVE  tracker' \in Trackers
BY BeginKeeps DEF TryBegin

\* Asking for blocks from the head + 1 or from further down.
LEMMA AskKeeps ==
    ASSUME SyncInv, NEW m, m.peer \in Peers, NEW s \in 1..(Latest + 1),
           get_status_try_sync_blocks(m, s)
    PROVE  tracker' \in Trackers /\ BagToSet(net') \subseteq Good(Latest, height)
<1>1. /\ Latest \in 0..MaxHeight /\ height \in HeightsOf /\ tracker \in Trackers
      /\ BagToSet(net) \subseteq Good(Latest, height)
    BY HeadStays
<1>2. CASE Busy(m.peer)
    BY <1>1, <1>2, DropKeeps DEF get_status_try_sync_blocks
<1>3. CASE ~Busy(m.peer)
  <2>1. Begin(m.peer) /\ Send(m, {Req("req_block", m.peer, s, 0)}, m.live)
      BY <1>3 DEF get_status_try_sync_blocks
  <2>2. {Req("req_block", m.peer, s, 0)} \subseteq Good(Latest, height)
      BY <1>1, MessageOf
  <2>. QED
      BY <1>1, <2>1, <2>2, BeginKeeps, SendKeeps
<1>. QED
    BY <1>2, <1>3

\* A handler that changes neither the chain nor what is known.
LEMMA KeptSame ==
    ASSUME SyncInv, UNCHANGED <<mainH, retries, knows, faults>>,
           tracker' \in Trackers, BagToSet(net') \subseteq Good(Latest, height)
    PROVE  Kept
BY HeadStays DEF Kept

LEMMA StatusKept ==
    ASSUME SyncInv, NEW m \in BagToSet(net), receive_status(m)
    PROVE  Kept
<1>1. /\ m \in MsgSet /\ m.type = "status" /\ m.peer \in Peers /\ m.a \in 0..MaxHeight
      /\ Latest \in 0..MaxHeight /\ height \in HeightsOf /\ tracker \in Trackers
      /\ BagToSet(net) \subseteq Good(Latest, height)
      /\ Level \in Nat /\ MaxHeight \in Nat
    BY HeadStays, MessageIs, StartIs DEF SyncInv, Good, receive_status
<1>2. UNCHANGED <<mainH, retries, knows, faults>>
    BY DEF receive_status
<1>3. CASE Latest >= m.a /\ Drop(m) /\ UNCHANGED tracker
    BY <1>1, <1>2, <1>3, DropKeeps, KeptSame
<1>4. CASE get_status_try_sync_blocks(m, Latest + 1)
  <2>1. Latest + 1 \in 1..(Latest + 1)
      BY <1>1
  <2>. QED
      BY <1>1, <1>2, <1>4, <2>1, AskKeeps, KeptSame
<1>5. CASE TryBegin(m.peer) /\ Send(m, {Req("req_hash", m.peer, Latest, Level)}, m.live)
  <2>1. {Req("req_hash", m.peer, Latest, Level)} \subseteq Good(Latest, height)
      BY <1>1, MessageOf
  <2>. QED
      BY <1>1, <1>2, <1>5, <2>1, TryBeginKeeps, SendKeeps, KeptSame
<1>. QED
    BY <1>3, <1>4, <1>5 DEF receive_status

LEMMA HashsKept ==
    ASSUME SyncInv, NEW m \in BagToSet(net), receive_hashs(m)
    PROVE  Kept
<1>1. /\ m \in MsgSet /\ m.type = "hashs" /\ m.peer \in Peers
      /\ m.a \in Blocks /\ m.b \in Blocks /\ m.a <= Latest
      /\ Latest \in 0..MaxHeight /\ height \in HeightsOf /\ tracker \in Trackers
      /\ BagToSet(net) \subseteq Good(Latest, height)
      /\ Level \in Nat /\ MaxHeight \in Nat
    BY HeadStays, MessageIs, StartIs DEF SyncInv, Good, OnTime, receive_hashs
<1>2. UNCHANGED <<mainH, retries, knows, faults>>
    BY DEF receive_hashs
<1>3. CASE m.a > Latest \/ Agreed(m.a, m.b) = {}
  <2>1. Drop(m) /\ UNCHANGED tracker
      BY <1>3 DEF receive_hashs
  <2>. QED
      BY <1>1, <1>2, <2>1, DropKeeps, KeptSame
<1>4. CASE ~(m.a > Latest \/ Agreed(m.a, m.b) = {})
  <2>1. PICK S : S = Agreed(m.a, m.b)
      OBVIOUS
  <2>2. get_status_try_sync_blocks(m, Max(S) + 1)
      BY <1>4, <2>1 DEF receive_hashs
  <2>3. S \in SUBSET (1..m.a) /\ S # {}
    <3>1. PICK n : n = Min({m.b, Level + 1})
        OBVIOUS
    <3>2. n \in Nat
        BY <1>1, <3>1, MinOfTwo DEF Blocks
    <3>3. Walk(m.a, m.b) = (IF m.a <= n THEN 1 ELSE m.a - n + 1)..m.a
        BY <3>1 DEF Walk
    <3>4. Walk(m.a, m.b) \subseteq 1..m.a
        BY <1>1, <3>2, <3>3 DEF Blocks
    <3>. QED
        BY <1>4, <2>1, <3>4 DEF Agreed
  <2>4. Max(S) + 1 \in 1..(Latest + 1)
    <3>1. m.a \in Nat
        BY <1>1 DEF Blocks
    <3>2. Max(S) \in 1..m.a
        BY <2>3, <3>1, GreatestHeight
    <3>. QED
        BY <1>1, <3>1, <3>2
  <2>. QED
      BY <1>1, <1>2, <2>2, <2>4, AskKeeps, KeptSame
<1>. QED
    BY <1>3, <1>4
-----------------------------------------------------------------------------
(* Batches of blocks, and announced ones.                                  *)

\* The head moves up to n: what was on time stays so.
LEMMA Grown ==
    ASSUME SyncInv, NEW n \in mainH..MaxHeight
    PROVE  /\ LatestOf(n) \in 0..MaxHeight /\ n \in 0..LatestOf(n)
           /\ BagToSet(net) \subseteq Good(LatestOf(n), height)
           /\ BagToSet(retries) \subseteq Due(LatestOf(n))
<1>1. /\ LatestOf(n) \in 0..MaxHeight /\ Latest \in 0..MaxHeight
      /\ Latest <= LatestOf(n) /\ n <= LatestOf(n)
    BY HeadGrows DEF SyncInv
<1>2. mainH \in Nat /\ MaxHeight \in Nat /\ height \in HeightsOf
    BY StartIs, HeadStays DEF SyncInv, TypeOK
<1>3. \A p \in Peers : height[p] <= height[p]
    BY <1>2 DEF HeightsOf
<1>4. Good(Latest, height) \subseteq Good(LatestOf(n), height) /\ Due(Latest) \subseteq Due(LatestOf(n))
    BY <1>1, <1>2, <1>3, GoodGrows
<1>5. n \in 0..LatestOf(n)
    BY <1>1, <1>2
<1>. QED
    BY <1>1, <1>4, <1>5 DEF SyncInv

LEMMA RetryingKeeps ==
    ASSUME NEW m, m.peer \in Peers, m.live \in BOOLEAN, NEW L \in 0..MaxHeight,
           Retrying(m, L), BagToSet(retries) \subseteq Due(L)
    PROVE  BagToSet(retries') \subseteq Due(L)
<1>1. Retry(m, L) \in Due(L)
    BY NodeSyncAssumption DEF Retry, Due, RetrySet
<1>2. BagToSet(retries') = BagToSet(retries) \cup {Retry(m, L)}
    BY BagPlus, BagOfSet DEF Retrying
<1>. QED
    BY <1>1, <1>2

\* What a batch is: it holds blocks its peer has.
LEMMA BatchIs ==
    ASSUME SyncInv, NEW m \in BagToSet(net), m.type = "blocks"
    PROVE  /\ m.peer \in Peers /\ m.live \in BOOLEAN
           /\ m.a \in Nat /\ m.b \in 0..MaxHeight /\ m.latest \in Int /\ m.b <= m.latest
           /\ mainH \in Nat /\ MaxHeight \in Nat
           /\ Synchronizable(m.a, m.b) => m.a = mainH + 1 /\ m.a <= m.b /\ m.b \in mainH..MaxHeight
<1>1. m \in MsgSet /\ OnTime(m, Latest, height)
    BY DEF SyncInv, Good
<1>2. /\ m.peer \in Peers /\ m.live \in BOOLEAN /\ m.b \in 0..MaxHeight
      /\ m.a \in 1..(MaxHeight + 1) /\ m.latest \in 0..MaxHeight
    BY <1>1, MessageIs
<1>3. m.b <= m.latest
    BY <1>1 DEF OnTime
<1>4. mainH \in Nat /\ MaxHeight \in Nat
    BY StartIs DEF SyncInv, TypeOK
<1>5. ASSUME Synchronizable(m.a, m.b) PROVE m.a = mainH + 1 /\ m.a <= m.b
    BY <1>5 DEF Synchronizable, Insertable
<1>. QED
    BY <1>2, <1>3, <1>4, <1>5

LEMMA BatchOkKept ==
    ASSUME SyncInv, NEW m \in BagToSet(net), m.type = "blocks", BatchOk(m), UNCHANGED knows
    PROVE  Kept
<1>1. /\ m.peer \in Peers /\ m.live \in BOOLEAN /\ m.b \in mainH..MaxHeight
      /\ mainH \in Nat /\ MaxHeight \in Nat
    BY BatchIs DEF BatchOk
<1>2. PICK L : L = LatestOf(m.b)
    OBVIOUS
<1>3. /\ L \in 0..MaxHeight /\ m.b \in 0..L
      /\ BagToSet(net) \subseteq Good(L, height) /\ BagToSet(retries) \subseteq Due(L)
    BY <1>1, <1>2, Grown
<1>4. tracker' \in Trackers
  <2>1. tracker \in Trackers /\ Idle \in Trackers /\ [peer |-> m.peer, fresh |-> TRUE] \in Trackers
      BY <1>1, HeadStays DEF Idle, Trackers
  <2>2. tracker' \in {tracker, Idle, [peer |-> m.peer, fresh |-> TRUE]}
      BY DEF BatchOk, finish_if_done
  <2>. QED
      BY <2>1, <2>2
<1>5. BagToSet(net') \subseteq Good(L, height)
  <2>1. CASE Drop(m)
      BY <1>3, <2>1, DropKeeps
  <2>2. CASE \E q \in Switched(m.peer) : Send(m, {Req("req_block", q, m.b + 1, 0)}, TRUE)
    <3>1. PICK q \in Switched(m.peer) : Send(m, {Req("req_block", q, m.b + 1, 0)}, TRUE)
        BY <2>2
    <3>2. q \in Peers /\ height \in HeightsOf
        BY <1>1, HeadStays DEF Switched
    <3>3. m.b + 1 \in 1..(L + 1)
        BY <1>3
    <3>4. {Req("req_block", q, m.b + 1, 0)} \subseteq Good(L, height)
        BY <1>3, <3>2, <3>3, MessageOf
    <3>5. PICK S : S = {Req("req_block", q, m.b + 1, 0)}
        OBVIOUS
    <3>6. Send(m, S, TRUE) /\ S \subseteq Good(L, height)
        BY <3>1, <3>4, <3>5
    <3>. QED
        BY <1>3, <3>6, SendKeeps
  <2>. QED
      BY <2>1, <2>2 DEF BatchOk
<1>6. mainH' = m.b /\ UNCHANGED <<retries, faults>>
    BY DEF BatchOk
<1>. QED
    BY <1>1, <1>2, <1>3, <1>4, <1>5, <1>6, HeadStays DEF Kept

LEMMA BatchRefusedKept ==
    ASSUME SyncInv, NEW m \in BagToSet(net), m.type = "blocks", BatchRefused(m), UNCHANGED knows
    PROVE  Kept
<1>1. m.peer \in Peers /\ m.live \in BOOLEAN
    BY BatchIs
<1>2. Retrying(m, Latest) /\ Drop(m) /\ UNCHANGED <<mainH, tracker, faults>>
    BY DEF BatchRefused
<1>3. BagToSet(retries') \subseteq Due(Latest)
    BY <1>1, <1>2, HeadStays, RetryingKeeps
<1>4. BagToSet(net') \subseteq Good(Latest, height)
    BY <1>2, HeadStays, DropKeeps
<1>. QED
    BY <1>2, <1>3, <1>4, HeadStays DEF Kept

LEMMA BatchFailsKept ==
    ASSUME SyncInv, NEW m \in BagToSet(net), m.type = "blocks", BatchFails(m), UNCHANGED knows
    PROVE  Kept
<1>1. /\ m.peer \in Peers /\ m.live \in BOOLEAN /\ m.a = mainH + 1 /\ m.b \in mainH..MaxHeight
      /\ mainH \in Nat /\ MaxHeight \in Nat
    BY BatchIs DEF BatchFails
<1>2. PICK last \in (m.a - 1)..(m.b - 1) : mainH' = last /\ Retrying(m, LatestOf(last))
    BY DEF BatchFails
<1>3. last \in mainH..MaxHeight
    BY <1>1, <1>2
<1>4. PICK L : L = LatestOf(last)
    OBVIOUS
<1>5. /\ L \in 0..MaxHeight
      /\ BagToSet(net) \subseteq Good(L, height) /\ BagToSet(retries) \subseteq Due(L)
    BY <1>3, <1>4, Grown
<1>6. Drop(m) /\ UNCHANGED tracker /\ faults' \in Nat
    BY HeadStays DEF BatchFails
<1>7. BagToSet(net') \subseteq Good(L, height)
  <2>1. Drop(m)
      BY DEF BatchFails
  <2>. QED
      BY <1>5, <2>1, DropKeeps
<1>8. BagToSet(retries') \subseteq Due(L)
    BY <1>1, <1>2, <1>4, <1>5, RetryingKeeps
<1>. QED
    BY <1>2, <1>3, <1>4, <1>6, <1>7, <1>8, HeadStays DEF Kept

LEMMA BlocksKept ==
    ASSUME SyncInv, NEW m \in BagToSet(net), receive_blocks(m)
    PROVE  Kept
BY BatchOkKept, BatchRefusedKept, BatchFailsKept DEF receive_blocks

LEMMA AddKnowKeeps ==
    ASSUME SyncInv, NEW h \in Blocks
    PROVE  AddKnow(h) \in Seq(Blocks) /\ Len(AddKnow(h)) <= KnowCap
<1>1. KnowCap \in Nat /\ knows \in Seq(Blocks)
    BY StartIs, HeadStays DEF SyncInv
<1>2. CASE KnowCap = 0
    BY <1>2 DEF AddKnow
<1>3. CASE KnowCap # 0
  <2>1. PICK n : n = Min({KnowCap, Len(knows) + 1})
      OBVIOUS
  <2>2. Len(knows) \in Nat
      BY <1>1
  <2>3. n \in 1..(Len(knows) + 1) /\ n <= KnowCap
      BY <1>1, <1>3, <2>1, <2>2, MinOfTwo
  <2>4. PICK s : s = <<h>> \o knows
      OBVIOUS
  <2>5. s \in Seq(Blocks) /\ Len(s) = Len(knows) + 1
      BY <1>1, <2>4
  <2>6. AddKnow(h) = SubSeq(s, 1, n)
      BY <1>3, <2>1, <2>4 DEF AddKnow
  <2>7. SubSeq(s, 1, n) \in Seq(Blocks) /\ Len(SubSeq(s, 1, n)) = n
      BY <2>2, <2>3, <2>5, SubSeqProperties
  <2>. QED
      BY <2>3, <2>6, <2>7
<1>. QED
    BY <1>2, <1>3

LEMMA NewBlockKept ==
    ASSUME SyncInv, NEW m \in BagToSet(net), handle_new_block(m)
    PROVE  Kept
<1>1. /\ m \in MsgSet /\ m.type = "discover" /\ m.peer \in Peers /\ m.a \in Blocks
      /\ m.a <= height[m.peer] /\ height[m.peer] \in 0..MaxHeight
      /\ height \in HeightsOf /\ Latest \in 0..MaxHeight /\ tracker \in Trackers
      /\ BagToSet(net) \subseteq Good(Latest, height)
    BY HeadStays, MessageIs DEF SyncInv, Good, OnTime, handle_new_block, HeightsOf
<1>2. mainH \in Nat /\ MaxHeight \in Nat /\ LatestOf(mainH) = Latest
    BY StartIs, HeadStays DEF SyncInv, TypeOK
<1>3. retries' = retries /\ faults' \in Nat
  <2>1. retries' = retries /\ (faults' = faults \/ (faults > 0 /\ faults' = faults - 1))
      BY DEF handle_new_block, DiscoverOk, DiscoverFails
  <2>2. faults \in Nat
      BY HeadStays
  <2>. QED
      BY <2>1, <2>2
<1>4. knows' \in Seq(Blocks) /\ Len(knows') <= KnowCap
  <2>1. knows' = knows \/ knows' = AddKnow(m.a)
      BY DEF handle_new_block
  <2>. QED
      BY <1>1, <2>1, HeadStays, AddKnowKeeps
<1>5. CASE Drop(m) /\ UNCHANGED <<mainH, tracker>>
  <2>1. BagToSet(net') \subseteq Good(Latest, height)
      BY <1>1, <1>5, DropKeeps
  <2>. QED
      BY <1>1, <1>3, <1>4, <1>5, <2>1, HeadStays DEF Kept
<1>6. CASE get_status_try_sync_blocks(m, Latest + 1) /\ UNCHANGED mainH
  <2>1. Latest + 1 \in 1..(Latest + 1)
      BY <1>1
  <2>2. tracker' \in Trackers /\ BagToSet(net') \subseteq Good(Latest, height)
      BY <1>1, <1>6, <2>1, AskKeeps
  <2>. QED
      BY <1>3, <1>4, <1>6, <2>2, HeadStays DEF Kept
<1>7. CASE Send(m, {Req("req_hash", m.peer, Latest, Level + 1)}, m.live) /\ UNCHANGED <<mainH, tracker>>
  <2>1. {Req("req_hash", m.peer, Latest, Level + 1)} \subseteq Good(Latest, height)
      BY <1>1, MessageOf
  <2>2. BagToSet(net') \subseteq Good(Latest, height)
      BY <1>1, <1>7, <2>1, SendKeeps
  <2>. QED
      BY <1>1, <1>3, <1>4, <1>7, <2>2, HeadStays DEF Kept
<1>8. CASE mainH' = (IF Insertable(m.a) THEN m.a ELSE mainH) /\ Drop(m) /\ UNCHANGED tracker
  <2>1. CASE ~Insertable(m.a)
      BY <1>5, <1>8, <2>1
  <2>2. CASE Insertable(m.a)
    <3>1. mainH' = m.a /\ m.a = mainH + 1
        BY <1>8, <2>2 DEF Insertable
    <3>2. m.a \in mainH..MaxHeight
        BY <1>1, <1>2, <3>1
    <3>3. PICK L : L = LatestOf(m.a)
        OBVIOUS
    <3>4. BagToSet(net) \subseteq Good(L, height) /\ BagToSet(retries) \subseteq Due(L)
        BY <3>2, <3>3, Grown
    <3>5. BagToSet(net') \subseteq Good(L, height)
        BY <1>8, <3>4, DropKeeps
    <3>. QED
        BY <1>1, <1>3, <1>4, <1>8, <3>1, <3>2, <3>3, <3>4, <3>5, HeadStays DEF Kept
  <2>. QED
      BY <2>1, <2>2
<1>. QED
    BY <1>5, <1>6, <1>7, <1>8 DEF handle_new_block, DiscoverOk, DiscoverFails

\* The same of the whole invariant.
LEMMA HandlerKeeps ==
    ASSUME SyncInv, Kept, UNCHANGED <<start, height, conn, closing, drops>>
    PROVE  SyncInv'
<1>1. Latest' = LatestOf(mainH')
    BY DEF Latest, LatestOf, Forked
<1>2. /\ mainH' \in 0..MaxHeight /\ Good(LatestOf(mainH'), height) \subseteq MsgSet
      /\ Due(LatestOf(mainH')) \subseteq RetrySet
    BY StartIs DEF Kept, SyncInv, TypeOK, Good, Due
<1>3. BagToSet(net') \subseteq Good(Latest', height') /\ BagToSet(retries') \subseteq Due(Latest')
    BY <1>1 DEF Kept
<1>4. TypeOK'
    BY <1>1, <1>2, <1>3 DEF Kept, SyncInv, TypeOK, Trackers, Blocks
<1>. QED
    BY <1>3, <1>4 DEF SyncInv, Good, OnTime, Due

LEMMA NodeHandlesKept ==
    ASSUME SyncInv, NEW m \in BagToSet(net), NodeHandles(m)
    PROVE  SyncInv'
<1>1. Kept
    BY StatusKept, HashsKept, BlocksKept, NewBlockKept DEF NodeHandles
<1>. QED
    BY <1>1, HandlerKeeps DEF NodeHandles
-----------------------------------------------------------------------------
(* The peers, the pauses and the connections.                              *)

\* A step that leaves the chains and the table of hashes alone.
LEMMA RestKeeps ==
    ASSUME SyncInv, UNCHANGED <<start, mainH, height, knows, faults>>,
           conn' \in [Peers -> BOOLEAN], closing' \subseteq Peers,
           tracker' \in Trackers, drops' \in Nat,
           BagToSet(net') \subseteq Good(Latest, height),
           BagToSet(retries') \subseteq Due(Latest)
    PROVE  SyncInv'
<1>1. Latest' = Latest
    BY DEF Latest, LatestOf, Forked
<1>2. BagToSet(net') \subseteq Good(Latest', height') /\ BagToSet(retries') \subseteq Due(Latest')
    BY <1>1
<1>3. Good(Latest, height) \subseteq MsgSet /\ Due(Latest) \subseteq RetrySet
    BY DEF Good, Due
<1>4. TypeOK'
    BY <1>3 DEF SyncInv, TypeOK, Trackers
<1>. QED
    BY <1>2, <1>4 DEF SyncInv, Good, OnTime, Due

LEMMA TypesAre ==
    ASSUME SyncInv
    PROVE  /\ conn \in [Peers -> BOOLEAN] /\ closing \subseteq Peers /\ drops \in Nat
           /\ tracker \in Trackers /\ height \in HeightsOf /\ Latest \in 0..MaxHeight
           /\ BagToSet(net) \subseteq Good(Latest, height)
           /\ BagToSet(retries) \subseteq Due(Latest)
BY HeadStays DEF SyncInv, TypeOK

LEMMA PeerHandlesKeeps ==
    ASSUME SyncInv, NEW m \in BagToSet(net), PeerHandles(m)
    PROVE  SyncInv'
<1>1. m \in MsgSet /\ OnTime(m, Latest, height) /\ m.peer \in Peers
    BY MessageIs DEF SyncInv, Good
<1>2. /\ height \in HeightsOf /\ height[m.peer] \in 0..MaxHeight
      /\ Latest \in 0..MaxHeight /\ Level \in Nat \ {0} /\ MaxSendNum \in Nat \ {0}
      /\ MaxHeight \in Nat
    BY <1>1, HeadStays, StartIs DEF SyncInv, HeightsOf
<1>3. BagToSet(net') \subseteq Good(Latest, height)
  <2>1. CASE send_status(m)
    <3>1. PICK S : S = {Msg("status", m.peer, height[m.peer], 0, TRUE)}
        OBVIOUS
    <3>2. S \subseteq Good(Latest, height)
        BY <1>1, <1>2, <3>1, MessageOf
    <3>3. Send(m, S, TRUE)
        BY <2>1, <3>1 DEF send_status
    <3>. QED
        BY <3>2, <3>3, SendKeeps DEF SyncInv
  <2>2. CASE send_hashs(m)
    <3>1. CASE Drop(m)
        BY <3>1, DropKeeps DEF SyncInv
    <3>2. CASE ~(m.a > height[m.peer] \/ m.a = 0)
      <4>1. PICK a, b : a = m.a /\ b = HashNum(m.b, m.a)
          OBVIOUS
      <4>2. a \in 0..MaxHeight /\ m.b \in {Level, Level + 1} /\ a <= Latest
          BY <1>1, <2>2, <4>1, MessageIs DEF send_hashs, OnTime
      <4>3. a \in Blocks /\ b \in Blocks
          BY <1>2, <3>2, <4>1, <4>2 DEF HashNum, Blocks
      <4>4. PICK S : S = {Msg("hashs", m.peer, a, b, TRUE)}
          OBVIOUS
      <4>5. S \subseteq Good(Latest, height)
        <5>1. Msg("hashs", m.peer, a, b, TRUE) \in Good(Latest, height)
            BY <1>1, <1>2, <4>2, <4>3, MessageOf
        <5>. QED
            BY <4>4, <5>1
      <4>6. Send(m, S, TRUE)
          BY <2>2, <3>2, <4>1, <4>4 DEF send_hashs
      <4>. QED
          BY <4>5, <4>6, SendKeeps DEF SyncInv
    <3>. QED
        BY <2>2, <3>1, <3>2 DEF send_hashs
  <2>3. CASE send_blocks(m)
    <3>1. PICK h, a, b : h = height[m.peer] /\ a = m.a /\ b = BatchEnd(a, h)
        OBVIOUS
    <3>2. a \in 1..(Latest + 1) /\ h \in 0..MaxHeight
      <4>1. m.a \in 1..(MaxHeight + 1) /\ m.a <= Latest + 1
          BY <1>1, <2>3, MessageIs DEF send_blocks, OnTime
      <4>. QED
          BY <1>2, <3>1, <4>1
    <3>3. b \in 0..h
      <4>1. CASE a > h
          BY <3>1, <3>2, <4>1 DEF BatchEnd
      <4>2. CASE ~(a > h)
        <5>1. PICK e : e = a + MaxSendNum - 1
            OBVIOUS
        <5>2. e \in Nat /\ b = Min({h, e})
            BY <1>2, <3>1, <3>2, <4>2, <5>1 DEF BatchEnd
        <5>. QED
            BY <3>2, <5>2, MinOfTwo
      <4>. QED
          BY <4>1, <4>2
    <3>4. PICK S : S = {BlocksMsg(m.peer, a, b, h)}
        OBVIOUS
    <3>5. S \subseteq Good(Latest, height)
      <4>1. BlocksMsg(m.peer, a, b, height[m.peer]) \in Good(Latest, height)
          BY <1>1, <1>2, <3>1, <3>2, <3>3, MessageOf
      <4>. QED
          BY <3>1, <3>4, <4>1
    <3>6. Send(m, S, TRUE)
        BY <2>3, <3>1, <3>4 DEF send_blocks
    <3>. QED
        BY <3>5, <3>6, SendKeeps DEF SyncInv
  <2>. QED
      BY <2>1, <2>2, <2>3 DEF PeerHandles
<1>. QED
    BY <1>3, TypesAre, RestKeeps DEF PeerHandles

LEMMA RetryWakesKeeps ==
    ASSUME SyncInv, NEW r \in BagToSet(retries), RetryWakes(r)
    PROVE  SyncInv'
<1>1. r.peer \in Peers /\ r.from \in 1..(Latest + 1)
  <2>1. r \in RetrySet /\ r.from <= Latest + 1 /\ MaxHeight \in Nat /\ Latest \in 0..MaxHeight
      BY StartIs, TypesAre DEF SyncInv, Due
  <2>2. r.peer \in Peers /\ r.from \in 1..(MaxHeight + 1)
      BY <2>1 DEF RetrySet
  <2>. QED
      BY <2>1, <2>2
<1>2. BagToSet(retries') \subseteq Due(Latest)
    BY TypesAre, BagMinus DEF RetryWakes
<1>3. BagToSet(net') \subseteq Good(Latest, height)
  <2>1. PICK S : S = {Req("req_block", r.peer, r.from, 0)}
      OBVIOUS
  <2>2. S \subseteq Good(Latest, height)
      BY <1>1, <2>1, TypesAre, MessageOf
  <2>3. net' = net \/ net' = net (+) SetToBag(S)
      BY <2>1 DEF RetryWakes
  <2>. QED
      BY <2>2, <2>3, TypesAre, BagPlus, BagOfSet
<1>. QED
    BY <1>2, <1>3, TypesAre, RestKeeps DEF RetryWakes

LEMMA TrackerExpiresKeeps ==
    ASSUME SyncInv, TrackerExpires
    PROVE  SyncInv'
<1>1. tracker' \in Trackers
    BY TypesAre DEF TrackerExpires, Trackers
<1>. QED
    BY <1>1, TypesAre, RestKeeps DEF TrackerExpires

\* The messages the lost connection takes away go, others lose their peer.
LEMMA DisconnectKeeps ==
    ASSUME SyncInv, NEW p \in Peers, Disconnect(p)
    PROVE  SyncInv'
<1>1. /\ conn' \in [Peers -> BOOLEAN] /\ closing' \subseteq Peers /\ drops' \in Nat
      /\ tracker' \in Trackers
    BY TypesAre DEF Disconnect
<1>2. BagToSet(net') \subseteq Good(Latest, height)
  <2> DEFINE mine == {m \in BagToSet(net) : m.peer = p /\ m.live}
             Cut(m) == [m EXCEPT !.live = FALSE]
  <2>1. PICK read \in SUBSET {m \in mine : m.type \notin Requests} :
           net' = [m \in BagToSet(net) \ mine |-> net[m]] (+) SetToBag({Cut(m) : m \in read})
      BY DEF Disconnect
  <2>2. PICK C, B : C = {Cut(m) : m \in read} /\ B = [m \in BagToSet(net) \ mine |-> net[m]]
      OBVIOUS
  <2>3. C \subseteq Good(Latest, height)
      BY <2>2, TypesAre, CutKeeps
  <2>4. BagToSet(B) \subseteq Good(Latest, height)
      BY <2>2, TypesAre DEF BagToSet
  <2>5. net' = B (+) SetToBag(C)
      BY <2>1, <2>2
  <2>. QED
      BY <2>3, <2>4, <2>5, BagPlus, BagOfSet
<1>3. BagToSet(retries') \subseteq Due(Latest)
  <2> DEFINE Asleep(r) == IF r.peer = p THEN [r EXCEPT !.live = FALSE] ELSE r
  <2>1. retries' = BagOfAll(Asleep, retries)
      BY DEF Disconnect
  <2>2. BagToSet(retries') = {Asleep(r) : r \in BagToSet(retries)}
      BY <2>1 DEF BagToSet, BagOfAll
  <2>3. ASSUME NEW r \in Due(Latest) PROVE Asleep(r) \in Due(Latest)
      BY DEF Due, RetrySet
  <2>. QED
      BY <2>2, <2>3, TypesAre
<1>. QED
    BY <1>1, <1>2, <1>3, RestKeeps DEF Disconnect

LEMMA OnDisconnectKeeps ==
    ASSUME SyncInv, NEW p \in Peers, on_disconnect(p)
    PROVE  SyncInv'
<1>1. tracker' \in Trackers
    BY TypesAre DEF on_disconnect, clear_peer, Idle, Trackers
<1>2. closing' \subseteq Peers
    BY TypesAre DEF on_disconnect
<1>. QED
    BY <1>1, <1>2, TypesAre, RestKeeps DEF on_disconnect

LEMMA ReconnectKeeps ==
    ASSUME SyncInv, NEW p \in Peers, Reconnect(p)
    PROVE  SyncInv'
<1>1. BagToSet(net') \subseteq Good(Latest, height)
  <2>1. {ReqStatus(p)} \subseteq Good(Latest, height)
      BY TypesAre, MessageOf
  <2>. QED
      BY <2>1, TypesAre, BagPlus, BagOfSet DEF Reconnect
<1>2. conn' \in [Peers -> BOOLEAN]
    BY TypesAre DEF Reconnect
<1>. QED
    BY <1>1, <1>2, TypesAre, RestKeeps DEF Reconnect

LEMMA GrowKeeps ==
    ASSUME SyncInv, NEW p \in Peers, Grow(p)
    PROVE  SyncInv'
<1>1. /\ height \in HeightsOf /\ start.top \in 0..MaxHeight /\ height[p] < start.top
      /\ MaxHeight \in Nat /\ Latest \in 0..MaxHeight
    BY TypesAre, StartIs, NodeSyncAssumption DEF SyncInv, TypeOK, StartOK, Grow
<1>2. PICK hs : hs = [height EXCEPT ![p] = @ + 1]
    OBVIOUS
<1>3. /\ hs \in HeightsOf /\ hs[p] = height[p] + 1 /\ hs[p] \in Blocks
      /\ \A q \in Peers : height[q] <= hs[q]
    BY <1>1, <1>2 DEF HeightsOf, Blocks
<1>4. Good(Latest, height) \subseteq Good(Latest, hs)
    BY <1>1, <1>3, GoodGrows
<1>5. BagToSet(net') \subseteq Good(Latest, hs)
  <2>1. PICK S : S = {Msg("discover", p, hs[p], 0, TRUE)}
      OBVIOUS
  <2>2. S \subseteq Good(Latest, hs)
    <3>1. hs[p] <= hs[p]
        BY <1>3 DEF Blocks
    <3>2. Msg("discover", p, hs[p], 0, TRUE) \in Good(Latest, hs)
        BY <1>1, <1>3, <3>1, MessageOf
    <3>. QED
        BY <2>1, <3>2
  <2>3. net' = net \/ net' = net (+) SetToBag(S)
      BY <1>3, <2>1 DEF Grow
  <2>. QED
      BY <1>4, <2>2, <2>3, TypesAre, BagPlus, BagOfSet
<1>6. /\ height' = hs
      /\ UNCHANGED <<start, mainH, conn, closing, retries, tracker, knows, faults, drops>>
    BY <1>2 DEF Grow
<1>7. Latest' = Latest
    BY <1>6 DEF Latest, LatestOf, Forked
<1>8. BagToSet(net') \subseteq Good(Latest', height') /\ BagToSet(retries') \subseteq Due(Latest')
    BY <1>5, <1>6, <1>7, TypesAre
<1>9. TypeOK'
    BY <1>3, <1>6, <1>8 DEF SyncInv, TypeOK, Good, Due, HeightsOf
<1>. QED
    BY <1>8, <1>9 DEF SyncInv, Good, OnTime, Due
-----------------------------------------------------------------------------
(* The theorems.                                                           *)

LEMMA SyncStarts ==
    ASSUME Init
    PROVE  SyncInv
<1>1. start \in Starts /\ StartOK(start)
    BY NodeSyncAssumption DEF Init
<1>2. /\ mainH \in 0..MaxHeight /\ start.top \in 0..MaxHeight /\ start.own \in 0..MaxHeight
      /\ MaxHeight \in Nat /\ KnowCap \in Nat /\ height \in [Peers -> 0..start.top]
      /\ faults \in Nat /\ drops \in Nat
    BY <1>1, NodeSyncAssumption DEF Init, StartOK
<1>3. height \in HeightsOf /\ Latest \in 0..MaxHeight
    BY <1>2 DEF HeightsOf, Latest, LatestOf, Forked
<1>4. BagToSet(net) \subseteq Good(Latest, height)
  <2>1. \A p \in Peers : ReqStatus(p) \in Good(Latest, height)
      BY <1>3, MessageOf
  <2>. QED
      BY <2>1, BagOfSet DEF Init
<1>5. BagToSet(retries) \subseteq Due(Latest)
    BY BagOfSet DEF Init
<1>6. knows \in Seq(1..MaxHeight) /\ Len(knows) <= KnowCap
    BY <1>2 DEF Init
<1>7. /\ tracker \in [peer : Peers \cup {None}, fresh : BOOLEAN]
      /\ conn \in [Peers -> BOOLEAN] /\ closing \subseteq Peers
    BY DEF Init, Idle
<1>8. TypeOK
    BY <1>1, <1>2, <1>3, <1>4, <1>5, <1>6, <1>7 DEF TypeOK, Good, Due, HeightsOf
<1>. QED
    BY <1>4, <1>5, <1>8 DEF SyncInv

LEMMA SyncSteps ==
    ASSUME SyncInv, [Next]_vars
    PROVE  SyncInv'
<1>1. CASE Handle
    BY <1>1, PeerHandlesKeeps, NodeHandlesKept DEF Handle
<1>2. ASSUME NEW r \in BagToSet(retries), RetryWakes(r) PROVE SyncInv'
    BY <1>2, RetryWakesKeeps
<1>3. CASE TrackerExpires
    BY <1>3, TrackerExpiresKeeps
<1>4. ASSUME NEW p \in Peers, Disconnect(p) \/ on_disconnect(p) \/ Reconnect(p) \/ Grow(p)
      PROVE  SyncInv'
    BY <1>4, DisconnectKeeps, OnDisconnectKeeps, ReconnectKeeps, GrowKeeps
<1>5. CASE UNCHANGED vars
  <2>1. UNCHANGED <<start, mainH, height, conn, closing, net, retries, tracker, knows, faults, drops>>
      BY <1>5 DEF vars
  <2>. QED
      BY <2>1, TypesAre, RestKeeps
<1>. QED
    BY <1>1, <1>2, <1>3, <1>4, <1>5 DEF Next

\* The inductive invariant of the synchronisation (protocol.rs, every handler,
\* and peer.rs, manage.rs for what happens to a connection).
THEOREM SyncInvariant == Spec => []SyncInv
<1>1. Init => SyncInv
    BY SyncStarts
<1>2. SyncInv /\ [Next]_vars => SyncInv'
    BY SyncSteps
<1>. QED
    BY <1>1, <1>2, PTL DEF Spec

\* Every state of the node, its peers and the messages between them has its
\* type: the knows table stays within its size and no request leaves the range
\* of heights there are (Knowledge::add, send_blocks).
THEOREM NodeSyncIsTyped == Spec => []TypeOK
<1>1. SyncInv => TypeOK
    BY DEF SyncInv
<1>. QED
    BY <1>1, SyncInvariant, PTL

\* However late a message or the end of a pause comes, the node asks for blocks
\* from its head + 1 at most, and no batch it is sent starts further up
\* (receive_status, receive_hashs, receive_blocks and its retry).
THEOREM NothingIsAhead == Spec => []NeverAhead
<1>1. SyncInv => NeverAhead
    BY NeverAheadIs
<1>. QED
    BY <1>1, SyncInvariant, PTL
=============================================================================
