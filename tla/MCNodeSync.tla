----------------------------- MODULE MCNodeSync -----------------------------
(* Small instances of NodeSync: two peers, batches of two blocks.          *)
EXTENDS NodeSync, TLC
CONSTANTS p1, p2

St(m, f, o, h1, h2, t, g, fl, d) ==
    [main |-> m, fork |-> f, own |-> o, heights |-> (p1 :> h1 @@ p2 :> h2), top |-> t,
     goal |-> g, faults |-> fl, drops |-> d]

\* From genesis, with a batch that fails; a gap too deep for the hash walk, with
\* a failing batch and lost connections; the same while a peer's chain grows; a
\* gap the hash walk closes, with a failing batch and a lost connection; a short
\* branch that the hash walk has to leave; in step with one peer, while both
\* announce new blocks.
MCStarts == {St(0, 0, 0, 3, 4, 4, 3, 1, 0), St(1, 0, 0, 4, 4, 4, 4, 1, 2),
             St(1, 0, 0, 3, 4, 4, 3, 0, 1), St(2, 0, 0, 3, 4, 4, 3, 1, 1),
             St(1, 1, 2, 3, 3, 3, 3, 0, 2), St(3, 0, 0, 3, 4, 5, 4, 1, 0)}

\* The node's last block is on a branch that lost, and the peers are further
\* ahead than the hash walk reaches.
MCForkedBehind == {St(1, 1, 2, 4, 4, 5, 4, 0, 0)}
=============================================================================
