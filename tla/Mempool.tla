------------------------------- MODULE Mempool -------------------------------
(***************************************************************************)
(* The transaction pool of mempool/mempool.go, as its users see it: a      *)
(* bounded set of transactions from which the best paying one is taken for *)
(* a block and the worst paying one is evicted, the list of transactions   *)
(* waiting to be gossiped, and the one-slot Pending channel that wakes the *)
(* block builder.  Every exported method holds mu for its whole body, so   *)
(* each is one action; Prune is the exception (it drops the lock between   *)
(* the scan and every removal) and is split in its users.                  *)
(*                                                                         *)
(* The order of equally priced transactions is left open: it depends on    *)
(* the shape of the two binary heaps, which MempoolHeap models.            *)
(***************************************************************************)
EXTENDS MempoolBase

VARIABLES
    pool,       \* the ids in maxHeap.lookup (and in minHeap.lookup)
    handedOut   \* history: transactions NewTxs has returned to the gossiper

poolVars == <<pool, newTxs, pending>>
mempoolVars == <<pool, newTxs, pending, handedOut>>

PoolInit ==
    /\ pool = {}
    /\ newTxs = <<>>
    /\ pending = 0
    /\ handedOut = {}

PoolTypeOK ==
    /\ pool \in SUBSET Tx
    /\ newTxs \in Seq(Tx)
    /\ pending \in 0..1
    /\ handedOut \in SUBSET Tx

-----------------------------------------------------------------------------
BestPaying(S) == {t \in S : \A u \in S : Price[u] <= Price[t]}
WorstPaying(S) == {t \in S : \A u \in S : Price[t] <= Price[u]}

FullOffByOne == Cardinality(pool) > MaxSize

Full == Cardinality(pool) >= MaxSize

\* The tail of Add: the transaction stays, so it is listed for gossip and the
\* builder is woken (addPending does nothing when the channel is occupied).
Announce(t) ==
    /\ newTxs' = Append(newTxs, t)
    /\ pending' = 1

AddDuplicate(t) ==
    /\ t \in pool
    /\ UNCHANGED poolVars

AddWithRoom(t) ==
    /\ t \notin pool
    /\ ~Full
    /\ pool' = pool \cup {t}
    /\ Announce(t)

\* Pushed first, then the worst paying of all is popped: possibly t itself,
\* and then Add returns before it announces anything.
AddEvicting(t) ==
    /\ t \notin pool
    /\ Full
    /\ \E evicted \in WorstPaying(pool \cup {t}) :
          /\ pool' = (pool \cup {t}) \ {evicted}
          /\ IF evicted = t THEN UNCHANGED <<newTxs, pending>> ELSE Announce(t)

Add(t) == AddDuplicate(t) \/ AddWithRoom(t) \/ AddEvicting(t)

\* PopMax and PopMin index items[0]: on an empty pool they panic, which is a
\* step of the users' modules and not of this one.
PopMax(t) ==
    /\ t \in BestPaying(pool)
    /\ pool' = pool \ {t}
    /\ UNCHANGED <<newTxs, pending>>

PopMin(t) ==
    /\ t \in WorstPaying(pool)
    /\ pool' = pool \ {t}
    /\ UNCHANGED <<newTxs, pending>>

Remove(t) ==
    /\ pool' = pool \ {t}
    /\ UNCHANGED <<newTxs, pending>>

-----------------------------------------------------------------------------
\* The units of the transactions among the first n of newTxs that are still in
\* the pool: the running total of NewTxs' loop after n iterations.
UnitsUpTo ==
    LET units[n \in Nat] ==
          IF n = 0 THEN 0
          ELSE units[n - 1] +
               (IF newTxs[n] \in pool THEN LoadUnits[newTxs[n]] ELSE 0)
    IN  units

PassesStrictly(i, maxUnits) ==
    newTxs[i] \in pool => LoadUnits[newTxs[i]] < maxUnits - UnitsUpTo[i - 1]

\* The loop of NewTxs passes entry i: it is gone from the pool, or it fits.
Passes(i, maxUnits) ==
    newTxs[i] \in pool => LoadUnits[newTxs[i]] <= maxUnits - UnitsUpTo[i - 1]

\* The loop stops at the first entry that does not fit; that entry and all
\* after it stay in newTxs, the earlier ones are returned or forgotten.
StopsAt(i, maxUnits) ==
    /\ \A j \in 1..(i - 1) : Passes(j, maxUnits)
    /\ i <= Len(newTxs) => ~Passes(i, maxUnits)

NewTxsDropsOneMore(i) ==
    /\ newTxs' = SubSeq(newTxs, i + 1, Len(newTxs))
    /\ UNCHANGED <<pool, pending>>

NewTxsUpTo(i) ==
    /\ newTxs' = SubSeq(newTxs, i, Len(newTxs))
    /\ UNCHANGED <<pool, pending>>

\* The gossip loop takes what NewTxs returns.
NewTxs(maxUnits) ==
    \E i \in 1..(Len(newTxs) + 1) :
        /\ StopsAt(i, maxUnits)
        /\ NewTxsUpTo(i)
        /\ handedOut' = handedOut \cup
              {newTxs[j] : j \in {k \in 1..(i - 1) : newTxs[k] \in pool}}

\* The build loop's receive from Pending.
ReceivePending ==
    /\ pending = 1
    /\ pending' = 0
    /\ UNCHANGED <<pool, newTxs>>
-----------------------------------------------------------------------------
PoolNext ==
    \/ /\ \E t \in Tx : Add(t) \/ PopMax(t) \/ PopMin(t) \/ Remove(t)
       /\ UNCHANGED handedOut
    \/ NewTxs(TargetBlockSize)
    \/ ReceivePending /\ UNCHANGED handedOut

PoolSpec == PoolInit /\ [][PoolNext]_mempoolVars

\* The gossip ticker fires for as long as the node runs.
GossipFairness == WF_mempoolVars(NewTxs(TargetBlockSize))

-----------------------------------------------------------------------------
\* Add (mempool.go:76) evicts as soon as the limit is passed: the pool never
\* holds more than MaxSize transactions, whatever the order of calls.
WithinLimit == IsFiniteSet(pool) /\ Cardinality(pool) <= MaxSize

\* Every transaction in the pool is either still listed in newTxs or has been
\* handed to the gossiper: the entries NewTxs forgets (mempool.go:189-191)
\* and the ones it cuts off (mempool.go:193-196) never include one that is in
\* the pool and was not returned, also when it was removed and added again.
GossipCoversPool == \A t \in pool : t \in handedOut \/ \E i \in DOMAIN newTxs : newTxs[i] = t

\* A gossip round always gets past the head of newTxs when every transaction
\* fits in a round by itself: each pooled transaction is eventually handed to
\* the gossiper or leaves the pool.
EventuallyHandedOut == \A t \in Tx : t \in pool ~> (t \in handedOut \/ t \notin pool)
=============================================================================
