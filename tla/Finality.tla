------------------------------ MODULE Finality ------------------------------
(***************************************************************************)
(* What the chain engine promises of the chain it has durably adopted,     *)
(* without trees, threads, databases or crashes: a tip that only ever      *)
(* grows in height, by one block at a time, and may switch to another      *)
(* branch, and a finalised block on the tip's chain that follows the tip   *)
(* at distance Level and that no switch of branches ever leaves.           *)
(***************************************************************************)
EXTENDS Integers, Sequences

CONSTANTS Content, Level

VARIABLES
    final,      \* the finalised block, as the sequence of contents up to it
    tip         \* the adopted block

Extends(b, a) == Len(a) <= Len(b) /\ SubSeq(b, 1, Len(a)) = a

Init == final = <<>> /\ tip = <<>>

(* A block one higher than the tip, on any branch of the finalised block,  *)
(* becomes the tip.                                                        *)
Adopt ==
    /\ tip' \in Seq(Content)
    /\ Len(tip') = Len(tip) + 1
    /\ Extends(tip', final)
    /\ final' = IF Len(tip') > Len(final) + Level
                THEN SubSeq(tip', 1, Len(final) + 1) ELSE final

Spec == Init /\ [][Adopt]_<<final, tip>>
=============================================================================
