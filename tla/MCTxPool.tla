------------------------------ MODULE MCTxPool ------------------------------
EXTENDS TxPool

CONSTANTS n1, t3, d1

MCNumber == d1 :> 1
MCMaxSize == [g \in Groups |-> IF g = NORMAL THEN 2 ELSE 1]

\* t3 only waits, at or ahead of n1; a diamond is minted next to n1
MCBodies == {{}, {n1}, {n1, d1}}
=============================================================================
