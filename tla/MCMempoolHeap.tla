---------------------------- MODULE MCMempoolHeap ----------------------------
(* The two heaps on a few transactions, named by numbers, most of them with *)
(* another one of the same price.                                           *)
EXTENDS MempoolHeap

CONSTANT NumTx

MCTx == 1..NumTx
MCPrice == [t \in MCTx |-> t \div 2]
MCLoadUnits == [t \in MCTx |-> 1]

\* What becomes of the heaps does not depend on what has been gossiped: states
\* with the same heaps have the same heap successors, and the gossip list is
\* changed by Mempool's own actions.
HeapView == heapVars
=============================================================================
