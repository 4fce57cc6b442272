----------------------------- MODULE MCBidding -----------------------------
(* Blocks 2 and 3 mint at height 2, for the fees 1 and 2, against bids of  *)
(* 2 and 3; blocks 4 and 5 continue 2, and 5 mints the next diamond.       *)
EXTENDS Bidding

CONSTANTS x, y

MCParent == <<0, 1, 1, 2, 4>>
MCBid == <<NoBid, [by |-> x, fee |-> 1], [by |-> y, fee |-> 2], NoBid, [by |-> x, fee |-> 1]>>
MCBids == {[by |-> y, fee |-> 2], [by |-> x, fee |-> 3]}
MCBudgets == {[bids |-> 2, syncs |-> 0], [bids |-> 1, syncs |-> 1]}
MCBroke == [b \in Blocks |-> IF b = 4 THEN {y} ELSE {}]
=============================================================================
