---------------------------- MODULE MCPoolServer ----------------------------
(* Small instances of PoolServer: a nonce that makes a share and one that  *)
(* makes a block.  A behaviour gets one of the budgets: a block and a      *)
(* restart around a valuation, two blocks around one, or shares that are   *)
(* sent twice with and without a restart.                                  *)
EXTENDS PoolServer
CONSTANTS share, block, foreign, h1, h2

Budget(ns, nb, r, v) ==
    [share |-> [n \in Nonce |-> IF n = block THEN nb ELSE ns], restart |-> r, valuation |-> v]

MCBudgets == {Budget(0, 1, 1, 1), Budget(0, 2, 1, 0), Budget(2, 1, 0, 0), Budget(2, 0, 1, 0)}
=============================================================================
