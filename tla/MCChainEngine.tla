--------------------------- MODULE MCChainEngine ---------------------------
(* Small instances of ChainEngine: two contents, of which one touches one  *)
(* key and the other both, so that every key is sometimes inherited.       *)
EXTENDS ChainEngine

CONSTANTS c1, c2, k1, k2

MCContent == {c1, c2}
MCKeys    == {k1, k2}
MCTouch   == [c \in MCContent |-> IF c = c1 THEN {k1} ELSE {k1, k2}]
=============================================================================
