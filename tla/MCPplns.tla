------------------------------ MODULE MCPplns ------------------------------
(* Small instances of Pplns: a window of two shares, two workers, buckets  *)
(* of half a horizon, a clock that starts inside a bucket of the longer one.*)
EXTENDS Pplns

Budget(s, r, b, p) == [shares |-> s, restarts |-> r, back |-> b, settles |-> p]

\* Shares around a clock set back, shares around a restart, settlements whose
\* chunks fail.
MCBudgets == {Budget(4, 0, 1, 0), Budget(3, 1, 0, 0), Budget(2, 0, 0, 2)}
=============================================================================
