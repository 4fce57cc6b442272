---------------------------- MODULE BiddingProofs ----------------------------
(***************************************************************************)
(* The permission to pass the fence of bids is never left over, for every  *)
(* tree of blocks, every set of bids and every bound.                      *)
(***************************************************************************)
EXTENDS Bidding, TLAPS

(* replay_allow names blocks of the branch under replay and, between two   *)
(* branches, nothing: allow_replay_chain and clear_replay_chain pair up on *)
(* every way through replay_low_bid_group.                                 *)
Replaying == replay.pc \in {"check", "discover"}

IInv ==
    /\ replay = [pc |-> replay.pc, groups |-> replay.groups,
                 chain |-> replay.chain, at |-> replay.at]
    /\ Replaying => allow \subseteq Range(replay.chain)
    /\ ~Replaying => allow = {}

\* The node starts without held branches.
LEMMA InitIInv == Init => IInv
  BY DEF Init, Asleep, IInv, Replaying

\* Only the replay thread gives and takes the permission.
LEMMA NextIInv == IInv /\ [Next]_vars => IInv'
<1> SUFFICES ASSUME IInv, [Next]_vars PROVE IInv'
    OBVIOUS
<1> USE DEF IInv, Replaying
<1>1. CASE UNCHANGED <<allow, replay>>
    BY <1>1
<1>2. CASE ReplayTake
  <2>1. allow' = allow /\ replay.pc = "sleep"
      BY <1>2 DEF ReplayTake
  <2>2. \/ replay' = replay
        \/ \E gs : replay' = [replay EXCEPT !.pc = "next", !.groups = gs]
      BY <1>2 DEF ReplayTake
  <2> QED
      BY <2>1, <2>2
<1>3. CASE ReplayNext
  <2>1. replay.pc = "next"
      BY <1>3 DEF ReplayNext
  <2>2. \/ replay' = Asleep /\ allow' = allow
        \/ \E gs, chain : /\ replay' = [pc |-> "check", groups |-> gs, chain |-> chain, at |-> 1]
                          /\ allow' = allow \cup Range(chain)
      BY <1>3 DEF ReplayNext
  <2> QED
      BY <2>1, <2>2 DEF Asleep
<1>4. ASSUME NEW won, Finished(won), Replaying
      PROVE  IInv'
    BY <1>4 DEF Finished, Cleared
<1>5. CASE ReplayCheck
  <2>1. CASE replay.at > Len(replay.chain)
      BY <1>4, <1>5, <2>1 DEF ReplayCheck
  <2>2. CASE ~(replay.at > Len(replay.chain))
    <3>1. allow' = allow
        BY <1>5, <2>2 DEF ReplayCheck
    <3>2. \/ replay' = [replay EXCEPT !.at = replay.at + 1]
          \/ replay' = [replay EXCEPT !.pc = "discover"]
        BY <1>5, <2>2 DEF ReplayCheck
    <3> QED
        BY <1>5, <3>1, <3>2 DEF ReplayCheck
  <2> QED
      BY <2>1, <2>2
<1>6. CASE ReplayDiscover
  <2> DEFINE ok == Accepted(replay.chain[replay.at])
  <2>1. replay.pc = "discover"
      BY <1>6 DEF ReplayDiscover
  <2>2. CASE ok
      BY <1>6, <2>1, <2>2 DEF ReplayDiscover
  <2>3. CASE ~ok
      BY <1>4, <1>6, <2>1, <2>3 DEF ReplayDiscover
  <2> QED
      BY <2>2, <2>3
<1> HIDE DEF IInv, Replaying
<1>7. CASE \E bid \in Bids : Submit(bid.by, bid.fee)
    BY <1>1, <1>7 DEF Submit
<1>8. CASE \E b \in Block : ArriveCached(b) \/ Arrive(b) \/ Discover(b) \/ SyncBlock(b)
    BY <1>1, <1>8 DEF ArriveCached, Arrive, Discover, SyncBlock
<1>9. CASE SyncBegin \/ SyncEnd \/ Tick \/ UNCHANGED vars
    BY <1>1, <1>9 DEF SyncBegin, SyncEnd, Tick, vars
<1> QED
    BY <1>2, <1>3, <1>5, <1>6, <1>7, <1>8, <1>9 DEF Next, Replay

\* The permissions are those of the branch under replay in every reachable state.
THEOREM PermissionsOfReplay == Spec => []IInv
  BY InitIInv, NextIInv, PTL DEF Spec
-----------------------------------------------------------------------------
\* A block that discover stores is above the fence or has a permission.
LEMMA DiscoverStores ==
    ASSUME NEW b, discover(b), NEW c \in stored' \ stored, Below(c)
    PROVE  c \in allow
<1>1. ~Pending(b) /\ stored' = stored \cup {b}
    BY DEF discover, Hold, Insert, engine
<1> QED
    BY <1>1 DEF Pending

(* A block that mints below the fence enters the tree only while its own   *)
(* branch is being replayed: no arrival, batch or earlier attempt leaves a *)
(* permission behind (check_highest_bid_of_block, replay_low_bid_group).   *)
THEOREM FenceHolds == Spec => LowBidWaits
<1> DEFINE Waits == \A b \in stored' \ stored : Below(b) =>
                       replay.pc \in {"check", "discover"} /\ b \in Range(replay.chain)
<1>1. IInv /\ [Next]_vars => [Waits]_vars
  <2> SUFFICES ASSUME IInv, Next, NEW b \in stored' \ stored, Below(b)
               PROVE  b \in allow
      BY DEF IInv, Replaying
  <2>1. CASE \E c \in Block : Discover(c)
      BY <2>1, DiscoverStores DEF Discover
  <2>2. CASE ReplayDiscover
      BY <2>2, DiscoverStores DEF ReplayDiscover
  <2>3. ASSUME NEW c \in Block, SyncBlock(c)
        PROVE  b \in allow
    <3>1. ~Pending(c) /\ stored' = stored \cup {c}
        BY <2>3 DEF SyncBlock, Hold, Insert, engine
    <3> QED
        BY <3>1 DEF Pending
  <2>4. CASE UNCHANGED stored
      BY <2>4
  <2>5. CASE \E bid \in Bids : Submit(bid.by, bid.fee)
      BY <2>4, <2>5 DEF Submit, engine
  <2>6. CASE \E c \in Block : ArriveCached(c) \/ Arrive(c)
      BY <2>4, <2>6 DEF ArriveCached, Arrive, engine
  <2>7. CASE SyncBegin \/ SyncEnd \/ Tick \/ ReplayTake \/ ReplayNext \/ ReplayCheck
      BY <2>4, <2>7 DEF SyncBegin, SyncEnd, Tick, ReplayTake, ReplayNext, ReplayCheck, engine
  <2> QED
      BY <2>1, <2>2, <2>3, <2>5, <2>6, <2>7 DEF Next, Replay
<1> QED
    BY <1>1, PermissionsOfReplay, PTL DEF Spec, LowBidWaits
=============================================================================
