----------------------------- MODULE MempoolBase -----------------------------
(***************************************************************************)
(* What the three views of the mempool have in common: the pool as a set   *)
(* (Mempool), as two heaps (MempoolHeap), and as the goroutines around it  *)
(* use it (Production).                                                    *)
(***************************************************************************)
EXTENDS Integers, Sequences, FiniteSets

CONSTANTS
    Tx,         \* transaction ids
    Price,      \* the price each transaction pays per unit
    LoadUnits,  \* the size each transaction adds to a block
    MaxSize,    \* config.MempoolSize
    TargetBlockSize  \* genesis.TargetBlockSize: the units one gossip round may carry

ASSUME MempoolAssumption ==
    /\ Price \in [Tx -> Nat]
    /\ LoadUnits \in [Tx -> Nat]
    /\ MaxSize \in Nat \ {0}
    /\ TargetBlockSize \in Nat

VARIABLES
    newTxs,     \* newTxs: transactions still to be gossiped, oldest first
    pending     \* the items in the Pending channel, whose capacity is one
=============================================================================
