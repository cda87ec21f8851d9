------------------------------- MODULE MCBot -------------------------------
EXTENDS Bot, TLC

CONSTANTS t1, t2, w1, w2, off, keep

SaverTokenPerms == {f @@ g : f \in Permutations({w1, w2}), g \in Permutations({t1, t2})}
=============================================================================
