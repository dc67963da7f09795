----------------------------- MODULE MempoolHeap -----------------------------
(***************************************************************************)
(* The pool as mempool.go and tx_heap.go implement it: a max-heap and a    *)
(* min-heap over the same transactions, each with a lookup from id to the  *)
(* entry, and every entry remembering its own position so that an          *)
(* arbitrary transaction can be removed.  The promise this implementation  *)
(* makes is the specification of Mempool, where the pool is a set.         *)
(*                                                                         *)
(* Positions count from 1 here and from 0 in the code: the children of     *)
(* position i are 2i and 2i+1.                                             *)
(***************************************************************************)
EXTENDS MempoolBase

VARIABLES
    maxHeap, minHeap,
    gossiped        \* history: transactions NewTxs has returned to the gossiper

heapVars == <<maxHeap, minHeap>>
mempoolHeapVars == <<maxHeap, minHeap, newTxs, pending, gossiped>>

\* A heap: the entries in array order, and for every id in lookup the
\* position its entry believes it has.
EmptyHeap(isMin) == [isMinHeap |-> isMin, items |-> <<>>, index |-> <<>>]

Has(h, t) == t \in DOMAIN h.index

LessIgnoringKind(h, i, j) == Price[h.items[i]] > Price[h.items[j]]

Less(h, i, j) ==
    IF h.isMinHeap THEN Price[h.items[i]] < Price[h.items[j]]
                   ELSE Price[h.items[i]] > Price[h.items[j]]

SwapItemsOnly(h, i, j) ==
    [h EXCEPT !.items = [@ EXCEPT ![i] = h.items[j], ![j] = h.items[i]]]

Swap(h, i, j) ==
    [h EXCEPT !.items = [@ EXCEPT ![i] = h.items[j], ![j] = h.items[i]],
              !.index = [@ EXCEPT ![h.items[j]] = i, ![h.items[i]] = j]]

Push(h, t, position) ==
    IF Has(h, t) THEN h
    ELSE [h EXCEPT !.items = Append(@, t),
                   !.index = [u \in DOMAIN @ \cup {t} |-> IF u = t THEN position ELSE @[u]]]

Pop(h) ==
    LET n == Len(h.items)
    IN  [h EXCEPT !.items = SubSeq(@, 1, n - 1),
                  !.index = [t \in DOMAIN @ \ {h.items[n]} |-> @[t]]]

-----------------------------------------------------------------------------
\* container/heap: up, down, Push and Remove.  A round of up or down swaps the
\* entry with its parent, or with the better of its children, or is the last.
UpStep(r) ==
    LET parent == r.at \div 2
    IN  IF r.at > 1 /\ Less(r.heap, r.at, parent)
        THEN [heap |-> Swap(r.heap, parent, r.at), at |-> parent] ELSE r

Up(h, j) ==
    LET rounds[k \in 0..j] == IF k = 0 THEN [heap |-> h, at |-> j] ELSE UpStep(rounds[k - 1])
    IN  rounds[j].heap

BetterChild(h, i, n) ==
    IF 2 * i + 1 <= n /\ Less(h, 2 * i + 1, 2 * i) THEN 2 * i + 1 ELSE 2 * i

DownStep(r, n) ==
    LET child == BetterChild(r.heap, r.at, n)
    IN  IF 2 * r.at <= n /\ Less(r.heap, child, r.at)
        THEN [heap |-> Swap(r.heap, r.at, child), at |-> child] ELSE r

Down(h, i, n) ==
    LET rounds[k \in 0..n] == IF k = 0 THEN [heap |-> h, at |-> i] ELSE DownStep(rounds[k - 1], n)
    IN  rounds[n].heap

HeapPush(h, t, position) ==
    LET pushed == Push(h, t, position) IN Up(pushed, Len(pushed.items))

\* down leaves the heap as it is exactly when it did not move the entry, and
\* only then is up tried.
HeapRemove(h, i) ==
    LET n       == Len(h.items)
        swapped == Swap(h, i, n)
        sunk    == Down(swapped, i, n - 1)
    IN  Pop(IF i = n THEN h ELSE IF sunk = swapped THEN Up(swapped, i) ELSE sunk)

-----------------------------------------------------------------------------
\* The heaps after mempool.remove(t).
RemovedFrom(h, t) == IF Has(h, t) THEN HeapRemove(h, h.index[t]) ELSE h

\* Add's heap.Push: both entries are given the length of the max-heap as index.
Pushed(h, t, position) == HeapPush(h, t, position)

Pool == INSTANCE Mempool WITH pool <- DOMAIN maxHeap.index, handedOut <- gossiped

HeapsInit ==
    /\ maxHeap = EmptyHeap(FALSE)
    /\ minHeap = EmptyHeap(TRUE)
    /\ newTxs = <<>>
    /\ pending = 0
    /\ gossiped = {}

HeapsAddDuplicate(t) ==
    /\ Has(maxHeap, t)
    /\ UNCHANGED mempoolHeapVars

HeapsAddNew(t) ==
    /\ ~Has(maxHeap, t)
    /\ LET position  == Len(maxHeap.items) + 1
           pushedMax == Pushed(maxHeap, t, position)
           pushedMin == Pushed(minHeap, t, position)
           worst     == pushedMin.items[1]
       IN  IF Len(pushedMax.items) > MaxSize
           THEN /\ maxHeap' = RemovedFrom(pushedMax, worst)
                /\ minHeap' = RemovedFrom(pushedMin, worst)
                /\ IF worst = t THEN UNCHANGED <<newTxs, pending>> ELSE Pool!Announce(t)
           ELSE /\ maxHeap' = pushedMax
                /\ minHeap' = pushedMin
                /\ Pool!Announce(t)
    /\ UNCHANGED gossiped

HeapsRemove(t) ==
    /\ maxHeap' = RemovedFrom(maxHeap, t)
    /\ minHeap' = RemovedFrom(minHeap, t)
    /\ UNCHANGED <<newTxs, pending, gossiped>>

HeapsPopMax == Len(maxHeap.items) > 0 /\ HeapsRemove(maxHeap.items[1])

HeapsPopMin == Len(minHeap.items) > 0 /\ HeapsRemove(minHeap.items[1])

HeapsNewTxs == UNCHANGED heapVars /\ Pool!NewTxs(TargetBlockSize)

HeapsReceivePending == UNCHANGED <<heapVars, gossiped>> /\ Pool!ReceivePending

HeapsNext ==
    \/ \E t \in Tx : HeapsAddDuplicate(t) \/ HeapsAddNew(t) \/ HeapsRemove(t)
    \/ HeapsPopMax
    \/ HeapsPopMin
    \/ HeapsNewTxs
    \/ HeapsReceivePending

HeapsSpec == HeapsInit /\ [][HeapsNext]_mempoolHeapVars

-----------------------------------------------------------------------------
\* "This should never happen, as that would mean the heaps are out of sync"
\* (mempool.go:220): both heaps and both lookups hold the same transactions,
\* each exactly once.
HeapsInSync ==
    /\ DOMAIN maxHeap.index = DOMAIN minHeap.index
    /\ \A h \in {maxHeap, minHeap} :
          /\ {h.items[i] : i \in DOMAIN h.items} = DOMAIN h.index
          /\ Len(h.items) = Cardinality(DOMAIN h.index)

\* Every entry knows where it is: the index that remove (mempool.go:216,224)
\* trusts is the entry's position after any sequence of swaps.
IndexesExact ==
    \A h \in {maxHeap, minHeap} : \A t \in DOMAIN h.index : h.items[h.index[t]] = t

\* No entry is better than its parent in its heap's order, so items[0] is the
\* best paying of the max-heap and the worst paying of the min-heap also after
\* removals from the middle.
HeapOrder ==
    \A h \in {maxHeap, minHeap} :
        \A i \in 2..Len(h.items) : ~Less(h, i, i \div 2)

\* The two heaps implement the set of Mempool: every call has an outcome that
\* the abstract pool allows.
ImplementsMempool == Pool!PoolSpec

\* The heaps are sound after any sequence of calls (mempool.go:210): both hold the
\* same transactions, every entry knows its place, and the order of each heap holds.
HeapInvariant == HeapsInSync /\ IndexesExact /\ HeapOrder
=============================================================================
