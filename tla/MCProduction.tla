---------------------------- MODULE MCProduction -----------------------------
(* Three transactions: one below the price of the block, two at it that do  *)
(* not fit into one block together.                                         *)
EXTENDS Production

CONSTANTS cheap, dear, big, NewTxsBound

MCTx == {cheap, dear, big}
MCPrice == [t \in MCTx |-> IF t = cheap THEN 1 ELSE 2]
MCLoadUnits == [t \in MCTx |-> IF t = big THEN 2 ELSE 1]

MCNext == Next /\ Len(newTxs') <= NewTxsBound
MCSpec == Init /\ [][MCNext]_vars
MCFairSpec == MCSpec /\ Fairness
=============================================================================
