------------------------------- MODULE MCChain -------------------------------
(* The block tree on a few blocks and transactions. *)
EXTENDS Chain, TLC

CONSTANT MaxBlockTxs    \* bound: transactions in one block

MCNext == Next /\ \A b \in Block : Cardinality(txs'[b]) <= MaxBlockTxs
MCSpec == Init /\ [][MCNext]_vars

\* Blocks other than the genesis block, and transactions, are interchangeable.
BlockAndTxSymmetry == Permutations(Block \ {Genesis}) \cup Permutations(Tx)
=============================================================================
