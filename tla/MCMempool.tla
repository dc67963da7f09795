------------------------------ MODULE MCMempool ------------------------------
(* Mempool on three transactions, two of them equally priced, in a pool of  *)
(* two; a gossip round carries one large or two small ones.                 *)
EXTENDS Mempool

CONSTANTS cheap, dear, big, NewTxsBound

MCTx == {cheap, dear, big}
MCPrice == [t \in MCTx |-> IF t = dear THEN 2 ELSE 1]
MCLoadUnits == [t \in MCTx |-> IF t = big THEN 2 ELSE 1]

\* newTxs grows with every re-added transaction: at most NewTxsBound entries.
MCNext == PoolNext /\ Len(newTxs') <= NewTxsBound

MCSpec == PoolInit /\ [][MCNext]_mempoolVars /\ GossipFairness
=============================================================================
