------------------------------- MODULE Filter -------------------------------
(***************************************************************************)
(* The elements of a sequence that lie in a set, in their order: what      *)
(* retain and filter of the Rust standard library leave.  It is SelectSeq  *)
(* with a set for the test, written as a recursive function so that module *)
(* DataLemmas can prove what it computes.                                  *)
(***************************************************************************)
EXTENDS Integers, Sequences

Filter(s, K) ==
    LET kept[n \in 0..Len(s)] ==
          IF n = 0 THEN <<>>
          ELSE IF s[n] \in K THEN Append(kept[n - 1], s[n]) ELSE kept[n - 1]
    IN  kept[Len(s)]
=============================================================================
