--------------------------- MODULE ProductionProofs ---------------------------
(***************************************************************************)
(* Proofs about what one node does between a submitted transaction and a   *)
(* block: the pool (Mempool), the two heaps that implement it              *)
(* (MempoolHeap), block production with its goroutines (Production) and    *)
(* the timer of the builder (Timer).  The first three are about the same   *)
(* transactions, for every price and size of them and every limit.         *)
(***************************************************************************)
EXTENDS Mempool, MempoolHeap, Production, Timer, FiniteSetTheorems, FunctionTheorems,
        SequenceTheorems, WellFoundedInduction, NaturalsInduction, TLAPS

-----------------------------------------------------------------------------
(* The pool.                                                                *)

\* Every action of the pool keeps its variables in their types.
THEOREM TypeCorrect == PoolSpec => []PoolTypeOK
<1> USE MempoolAssumption
<1>1. PoolInit => PoolTypeOK
  BY DEF PoolInit, PoolTypeOK
<1>2. PoolTypeOK /\ [PoolNext]_mempoolVars => PoolTypeOK'
  <2> SUFFICES ASSUME PoolTypeOK, [PoolNext]_mempoolVars
               PROVE  PoolTypeOK'
    OBVIOUS
  <2>1. ASSUME NEW t \in Tx, Add(t), UNCHANGED handedOut
        PROVE  PoolTypeOK'
    <3>1. CASE AddDuplicate(t)
      BY <2>1, <3>1 DEF AddDuplicate, poolVars, PoolTypeOK
    <3>2. CASE AddWithRoom(t)
      BY <2>1, <3>2 DEF AddWithRoom, Announce, PoolTypeOK
    <3>3. CASE AddEvicting(t)
      <4>1. PICK evicted \in WorstPaying(pool \cup {t}) :
              /\ pool' = (pool \cup {t}) \ {evicted}
              /\ IF evicted = t THEN UNCHANGED <<newTxs, pending>> ELSE Announce(t)
        BY <3>3 DEF AddEvicting
      <4>2. pool' \in SUBSET Tx /\ handedOut' \in SUBSET Tx
        BY <2>1, <4>1 DEF PoolTypeOK
      <4>3. newTxs' \in Seq(Tx) /\ pending' \in 0..1
        <5>1. CASE evicted = t
          BY <4>1, <5>1 DEF PoolTypeOK
        <5>2. CASE evicted # t
          <6>1. Announce(t)
            BY <4>1, <5>2
          <6>2. QED
            BY <6>1 DEF Announce, PoolTypeOK
        <5>3. QED
          BY <5>1, <5>2
      <4>4. QED
        BY <4>2, <4>3 DEF PoolTypeOK
    <3>4. QED
      BY <2>1, <3>1, <3>2, <3>3 DEF Add
  <2>2. ASSUME NEW t \in Tx, PopMax(t) \/ PopMin(t) \/ Remove(t), UNCHANGED handedOut
        PROVE  PoolTypeOK'
    BY <2>2 DEF PopMax, PopMin, Remove, PoolTypeOK
  <2>3. CASE NewTxs(TargetBlockSize)
    <3>1. PICK i \in 1..(Len(newTxs) + 1) :
            /\ NewTxsUpTo(i)
            /\ handedOut' = handedOut \cup
                  {newTxs[j] : j \in {k \in 1..(i - 1) : newTxs[k] \in pool}}
      BY <2>3 DEF NewTxs
    <3>2. newTxs' \in Seq(Tx)
      BY <3>1, SubSeqProperties DEF NewTxsUpTo, PoolTypeOK
    <3>3. handedOut' \in SUBSET Tx
      BY <3>1 DEF NewTxsUpTo, PoolTypeOK
    <3>4. QED
      BY <3>1, <3>2, <3>3 DEF NewTxsUpTo, PoolTypeOK
  <2>4. CASE ReceivePending /\ UNCHANGED handedOut
    BY <2>4 DEF ReceivePending, PoolTypeOK
  <2>5. CASE UNCHANGED mempoolVars
    BY <2>5 DEF mempoolVars, PoolTypeOK
  <2>6. QED
    BY <2>1, <2>2, <2>3, <2>4, <2>5 DEF PoolNext
<1>3. QED
  BY <1>1, <1>2, PTL DEF PoolSpec

\* The pool never holds more than MaxSize transactions: Add makes room in the
\* same critical section in which it goes over the limit.
THEOREM SizeBounded == PoolSpec => []WithinLimit
<1> USE MempoolAssumption
<1>1. PoolInit => WithinLimit
  BY FS_EmptySet DEF PoolInit, WithinLimit
<1>2. PoolTypeOK /\ WithinLimit /\ [PoolNext]_mempoolVars => WithinLimit'
  <2> SUFFICES ASSUME PoolTypeOK, WithinLimit, [PoolNext]_mempoolVars
               PROVE  WithinLimit'
    OBVIOUS
  <2>0. IsFiniteSet(pool) /\ Cardinality(pool) \in Nat /\ Cardinality(pool) <= MaxSize
    BY FS_CardinalityType DEF WithinLimit
  <2>1. ASSUME NEW t \in Tx, AddWithRoom(t)
        PROVE  WithinLimit'
    <3>1. /\ IsFiniteSet(pool \cup {t})
          /\ Cardinality(pool \cup {t}) = Cardinality(pool) + 1
      BY <2>0, <2>1, FS_AddElement DEF AddWithRoom
    <3>2. QED
      BY <2>0, <2>1, <3>1 DEF AddWithRoom, Full, WithinLimit
  <2>2. ASSUME NEW t \in Tx, AddEvicting(t)
        PROVE  WithinLimit'
    <3>1. PICK evicted \in WorstPaying(pool \cup {t}) :
              pool' = (pool \cup {t}) \ {evicted}
      BY <2>2 DEF AddEvicting
    <3>2. /\ IsFiniteSet(pool \cup {t})
          /\ Cardinality(pool \cup {t}) = Cardinality(pool) + 1
      BY <2>0, <2>2, FS_AddElement DEF AddEvicting
    <3>3. evicted \in pool \cup {t}
      BY <3>1 DEF WorstPaying
    <3>4. /\ IsFiniteSet(pool')
          /\ Cardinality(pool') = Cardinality(pool \cup {t}) - 1
      BY <3>1, <3>2, <3>3, FS_RemoveElement
    <3>5. QED
      BY <2>0, <3>2, <3>4 DEF WithinLimit
  <2>3. ASSUME pool' \subseteq pool
        PROVE  WithinLimit'
    <3>1. IsFiniteSet(pool') /\ Cardinality(pool') <= Cardinality(pool) /\ Cardinality(pool') \in Nat
      BY <2>0, <2>3, FS_Subset, FS_CardinalityType
    <3>2. QED
      BY <2>0, <3>1 DEF WithinLimit
  <2>4. ASSUME NEW t \in Tx, AddDuplicate(t) \/ PopMax(t) \/ PopMin(t) \/ Remove(t)
        PROVE  pool' \subseteq pool
    BY <2>4 DEF AddDuplicate, PopMax, PopMin, Remove, poolVars
  <2>5. CASE NewTxs(TargetBlockSize) \/ ReceivePending \/ UNCHANGED mempoolVars
    <3>1. pool' \subseteq pool
      BY <2>5 DEF NewTxs, NewTxsUpTo, ReceivePending, mempoolVars
    <3>2. QED
      BY <2>3, <3>1
  <2>6. QED
    BY <2>1, <2>2, <2>3, <2>4, <2>5 DEF PoolNext, Add
<1>3. QED
  BY <1>1, <1>2, TypeCorrect, PTL DEF PoolSpec

\* Gossip misses nothing: whatever is in the pool is listed in newTxs or has
\* been returned by NewTxs, across evictions, removals and re-additions.
THEOREM GossipMissesNothing == PoolSpec => []GossipCoversPool
<1> USE MempoolAssumption
<1>1. PoolInit => GossipCoversPool
  BY DEF PoolInit, GossipCoversPool
<1>2. PoolTypeOK /\ GossipCoversPool /\ [PoolNext]_mempoolVars => GossipCoversPool'
  <2> SUFFICES ASSUME PoolTypeOK, GossipCoversPool, [PoolNext]_mempoolVars,
                      NEW u \in pool'
               PROVE  (u \in handedOut \/ \E i \in DOMAIN newTxs : newTxs[i] = u)'
    BY DEF GossipCoversPool
  <2>1. ASSUME NEW t \in Tx, Announce(t), pool' \subseteq pool \cup {t}, UNCHANGED handedOut
        PROVE  (u \in handedOut \/ \E i \in DOMAIN newTxs : newTxs[i] = u)'
    <3>1. /\ newTxs' \in Seq(Tx)
          /\ Len(newTxs') = Len(newTxs) + 1
          /\ \A i \in 1..Len(newTxs) : newTxs'[i] = newTxs[i]
          /\ newTxs'[Len(newTxs) + 1] = t
      BY <2>1, AppendProperties DEF Announce, PoolTypeOK
    <3>2. Len(newTxs) \in Nat /\ DOMAIN newTxs = 1..Len(newTxs) /\ DOMAIN newTxs' = 1..(Len(newTxs) + 1)
      BY <3>1, LenProperties DEF PoolTypeOK
    <3>3. CASE u = t
      BY <3>1, <3>2, <3>3
    <3>4. CASE u # t
      <4>1. u \in pool
        BY <2>1, <3>4
      <4>2. CASE u \in handedOut
        BY <2>1, <4>2
      <4>3. CASE \E i \in DOMAIN newTxs : newTxs[i] = u
        BY <3>1, <3>2, <4>3
      <4>4. QED
        BY <4>1, <4>2, <4>3 DEF GossipCoversPool
    <3>5. QED
      BY <3>3, <3>4
  <2>2. ASSUME pool' \subseteq pool, UNCHANGED <<newTxs, handedOut>>
        PROVE  (u \in handedOut \/ \E i \in DOMAIN newTxs : newTxs[i] = u)'
    BY <2>2 DEF GossipCoversPool
  <2>3. ASSUME NEW t \in Tx, Add(t), UNCHANGED handedOut
        PROVE  (u \in handedOut \/ \E i \in DOMAIN newTxs : newTxs[i] = u)'
    <3>1. CASE AddDuplicate(t)
      BY <2>2, <2>3, <3>1 DEF AddDuplicate, poolVars
    <3>2. CASE AddWithRoom(t)
      BY <2>1, <2>3, <3>2 DEF AddWithRoom
    <3>3. CASE AddEvicting(t)
      <4>1. PICK evicted \in WorstPaying(pool \cup {t}) :
              /\ pool' = (pool \cup {t}) \ {evicted}
              /\ IF evicted = t THEN UNCHANGED <<newTxs, pending>> ELSE Announce(t)
        BY <3>3 DEF AddEvicting
      <4>2. UNCHANGED handedOut
        BY <2>3
      <4>3. CASE evicted = t
        <5>1. pool' \subseteq pool
          BY <4>1, <4>3
        <5>2. QED
          BY <2>2, <4>1, <4>2, <4>3, <5>1
      <4>4. CASE evicted # t
        <5>1. pool' \subseteq pool \cup {t}
          BY <4>1
        <5>2. QED
          BY <2>1, <4>1, <4>2, <4>4, <5>1
      <4>5. QED
        BY <4>3, <4>4
    <3>4. QED
      BY <2>3, <3>1, <3>2, <3>3 DEF Add
  <2>4. ASSUME NEW t \in Tx, PopMax(t) \/ PopMin(t) \/ Remove(t), UNCHANGED handedOut
        PROVE  (u \in handedOut \/ \E i \in DOMAIN newTxs : newTxs[i] = u)'
    BY <2>2, <2>4 DEF PopMax, PopMin, Remove
  <2>5. CASE NewTxs(TargetBlockSize)
    <3>1. PICK i \in 1..(Len(newTxs) + 1) :
            /\ NewTxsUpTo(i)
            /\ handedOut' = handedOut \cup
                  {newTxs[j] : j \in {k \in 1..(i - 1) : newTxs[k] \in pool}}
      BY <2>5 DEF NewTxs
    <3>2. u \in pool
      BY <3>1 DEF NewTxsUpTo
    <3>3. CASE u \in handedOut
      BY <3>1, <3>3 DEF NewTxsUpTo
    <3>4. ASSUME NEW k \in DOMAIN newTxs, newTxs[k] = u
          PROVE  (u \in handedOut \/ \E j \in DOMAIN newTxs : newTxs[j] = u)'
      <4>1. k \in 1..Len(newTxs) /\ Len(newTxs) \in Nat
        BY LenProperties DEF PoolTypeOK
      <4>2. CASE k < i
        <5>1. k \in {j \in 1..(i - 1) : newTxs[j] \in pool}
          BY <3>2, <3>4, <4>1, <4>2
        <5>2. QED
          BY <3>1, <3>4, <5>1 DEF NewTxsUpTo
      <4>3. CASE k >= i
        <5>1. newTxs' = SubSeq(newTxs, i, Len(newTxs))
          BY <3>1 DEF NewTxsUpTo
        <5>2. /\ Len(newTxs') = Len(newTxs) - i + 1
              /\ DOMAIN newTxs' = 1..(Len(newTxs) - i + 1)
              /\ \A j \in 1..(Len(newTxs) - i + 1) : newTxs'[j] = newTxs[i + j - 1]
          <6>1. \A j \in i..Len(newTxs) : newTxs[j] \in Tx
            BY <4>1, ElementOfSeq DEF PoolTypeOK
          <6>2. /\ newTxs' \in Seq(Tx)
                /\ Len(newTxs') = Len(newTxs) - i + 1
                /\ \A j \in 1..(Len(newTxs) - i + 1) : newTxs'[j] = newTxs[i + j - 1]
            BY <4>1, <4>3, <5>1, <6>1, SubSeqProperties
          <6>3. QED
            BY <6>2, LenProperties
        <5>3. (k - i + 1) \in 1..(Len(newTxs) - i + 1) /\ i + (k - i + 1) - 1 = k
          BY <4>1, <4>3
        <5>4. newTxs'[k - i + 1] = u
          BY <3>4, <5>2, <5>3
        <5>5. QED
          BY <5>2, <5>3, <5>4
      <4>4. QED
        BY <4>1, <4>2, <4>3
    <3>5. QED
      BY <3>2, <3>3, <3>4 DEF GossipCoversPool
  <2>6. CASE (ReceivePending /\ UNCHANGED handedOut) \/ UNCHANGED mempoolVars
    BY <2>2, <2>6 DEF ReceivePending, mempoolVars
  <2>7. QED
    BY <2>3, <2>4, <2>5, <2>6 DEF PoolNext
<1>3. QED
  BY <1>1, <1>2, TypeCorrect, PTL DEF PoolSpec

-----------------------------------------------------------------------------
(* The two heaps.                                                           *)

\* The positions of a binary tree.
LEMMA Halves ==
  \A k \in Nat : k >= 2 =>
     /\ k \div 2 \in Nat /\ 1 <= k \div 2 /\ k \div 2 < k
     /\ k = 2 * (k \div 2) \/ k = 2 * (k \div 2) + 1
OBVIOUS

LEMMA Children ==
  \A i \in Nat, k \in Nat : i >= 1 /\ (k = 2 * i \/ k = 2 * i + 1) => k \div 2 = i
OBVIOUS

Index == UNION {[D -> Nat] : D \in SUBSET Tx}

\* A heap whose entries are distinct and know their places.
Heaps ==
    {h \in [isMinHeap : BOOLEAN, items : Seq(Tx), index : Index] :
        /\ \A i \in 1..Len(h.items) : h.items[i] \in DOMAIN h.index /\ h.index[h.items[i]] = i
        /\ \A t \in DOMAIN h.index : h.index[t] \in 1..Len(h.items) /\ h.items[h.index[t]] = t}

\* The smaller the key, the nearer to the root.
Key(h, i) == IF h.isMinHeap THEN Price[h.items[i]] ELSE -Price[h.items[i]]

LEMMA HeapParts ==
  ASSUME NEW h \in Heaps
  PROVE  /\ h \in [isMinHeap : BOOLEAN, items : Seq(Tx), index : Index]
         /\ h.items \in Seq(Tx) /\ Len(h.items) \in Nat /\ DOMAIN h.items = 1..Len(h.items)
         /\ h.index \in [DOMAIN h.index -> Nat] /\ DOMAIN h.index \in SUBSET Tx
         /\ \A i \in 1..Len(h.items) :
              h.items[i] \in Tx /\ h.items[i] \in DOMAIN h.index /\ h.index[h.items[i]] = i
         /\ \A t \in DOMAIN h.index : h.index[t] \in 1..Len(h.items) /\ h.items[h.index[t]] = t
<1>1. h \in [isMinHeap : BOOLEAN, items : Seq(Tx), index : Index]
  BY DEF Heaps
<1>2. h.items \in Seq(Tx) /\ Len(h.items) \in Nat /\ DOMAIN h.items = 1..Len(h.items)
  BY <1>1
<1>3. h.index \in [DOMAIN h.index -> Nat] /\ DOMAIN h.index \in SUBSET Tx
  BY <1>1 DEF Index
<1>4. \A i \in 1..Len(h.items) : h.items[i] \in Tx
  BY <1>2
<1> QED
  BY <1>1, <1>2, <1>3, <1>4 DEF Heaps

LEMMA KeyOrder ==
  ASSUME NEW h \in Heaps, NEW i \in 1..Len(h.items), NEW j \in 1..Len(h.items)
  PROVE  /\ Key(h, i) \in Int
         /\ Less(h, i, j) <=> Key(h, i) < Key(h, j)
<1>1. h.items[i] \in Tx /\ h.items[j] \in Tx
  BY HeapParts
<1>2. Price[h.items[i]] \in Nat /\ Price[h.items[j]] \in Nat
  BY <1>1, MempoolAssumption
<1> QED
  BY <1>2 DEF Key, Less

LEMMA TwoUpdates ==
  ASSUME NEW D, NEW f \in [D -> Nat], NEW a \in D, NEW b \in D, a # b, NEW x \in Nat, NEW y \in Nat
  PROVE  LET g == [f EXCEPT ![a] = x, ![b] = y]
         IN  g \in [D -> Nat] /\ g[a] = x /\ g[b] = y /\ \A t \in D : t # a /\ t # b => g[t] = f[t]
OBVIOUS

\* What Swap (tx_heap.go:47) leaves behind.
LEMMA SwapEffect ==
  ASSUME NEW h \in Heaps, NEW i \in 1..Len(h.items), NEW j \in 1..Len(h.items), i # j
  PROVE  LET s == Swap(h, i, j)
         IN  /\ s \in Heaps /\ s.isMinHeap = h.isMinHeap
             /\ DOMAIN s.index = DOMAIN h.index /\ Len(s.items) = Len(h.items)
             /\ s.items[i] = h.items[j] /\ s.items[j] = h.items[i]
             /\ \A k \in 1..Len(h.items) : k # i /\ k # j => s.items[k] = h.items[k]
<1> DEFINE s == Swap(h, i, j)
           n == Len(h.items)
           its == [h.items EXCEPT ![i] = h.items[j], ![j] = h.items[i]]
           ind == [h.index EXCEPT ![h.items[j]] = i, ![h.items[i]] = j]
<1>1. s = [h EXCEPT !.items = its, !.index = ind]
  BY DEF Swap
<1>2. /\ \A k \in 1..n : h.items[k] \in DOMAIN h.index /\ h.index[h.items[k]] = k
      /\ h.items[i] # h.items[j]
  BY HeapParts
<1>3. its \in Seq(Tx) /\ Len(its) = n /\ its[i] = h.items[j] /\ its[j] = h.items[i]
      /\ \A k \in 1..n : k # i /\ k # j => its[k] = h.items[k]
  BY HeapParts
<1>4. /\ ind \in [DOMAIN h.index -> Nat]
      /\ ind[h.items[j]] = i /\ ind[h.items[i]] = j
      /\ \A t \in DOMAIN h.index : t # h.items[i] /\ t # h.items[j] => ind[t] = h.index[t]
  <2>1. h.index \in [DOMAIN h.index -> Nat] /\ i \in Nat /\ j \in Nat
    BY HeapParts
  <2> QED
    BY <1>2, <2>1, TwoUpdates
<1> HIDE DEF s, its, ind
<1>5. s.items = its /\ s.index = ind /\ s.isMinHeap = h.isMinHeap
      /\ s \in [isMinHeap : BOOLEAN, items : Seq(Tx), index : Index]
  <2>1. DOMAIN h.index \in SUBSET Tx
    BY HeapParts
  <2>2. ind \in Index
    BY <1>4, <2>1 DEF Index
  <2> QED
    BY <1>1, <1>3, <2>2, HeapParts
<1>6. \A k \in 1..n : its[k] \in DOMAIN ind /\ ind[its[k]] = k
  <2> SUFFICES ASSUME NEW k \in 1..n PROVE its[k] \in DOMAIN ind /\ ind[its[k]] = k
    OBVIOUS
  <2>1. CASE k = i \/ k = j
    BY <1>2, <1>3, <1>4, <2>1
  <2>2. CASE k # i /\ k # j
    <3>1. h.items[k] # h.items[i] /\ h.items[k] # h.items[j]
      BY <1>2, <2>2
    <3> QED
      BY <1>2, <1>3, <1>4, <2>2, <3>1
  <2> QED
    BY <2>1, <2>2
<1>7. \A t \in DOMAIN ind : ind[t] \in 1..n /\ its[ind[t]] = t
  <2> SUFFICES ASSUME NEW t \in DOMAIN ind PROVE ind[t] \in 1..n /\ its[ind[t]] = t
    OBVIOUS
  <2>1. CASE t = h.items[i] \/ t = h.items[j]
    BY <1>3, <1>4, <2>1
  <2>2. CASE t # h.items[i] /\ t # h.items[j]
    <3>1. ind[t] = h.index[t] /\ h.index[t] \in 1..n /\ h.items[h.index[t]] = t
      BY <1>4, <2>2, HeapParts
    <3> QED
      BY <1>3, <2>2, <3>1
  <2> QED
    BY <2>1, <2>2
<1>8. s \in Heaps
  BY <1>3, <1>5, <1>6, <1>7 DEF Heaps
<1> QED
  BY <1>3, <1>4, <1>5, <1>8 DEF s

\* What a Push (tx_heap.go:53) of a new entry, told its own place, leaves behind.
LEMMA PushEffect ==
  ASSUME NEW h \in Heaps, NEW t \in Tx, t \notin DOMAIN h.index
  PROVE  LET n == Len(h.items)
             s == Push(h, t, n + 1)
         IN  /\ s \in Heaps /\ s.isMinHeap = h.isMinHeap
             /\ DOMAIN s.index = DOMAIN h.index \cup {t} /\ Len(s.items) = n + 1
             /\ \A k \in 1..n : s.items[k] = h.items[k]
<1> DEFINE n == Len(h.items)
           s == Push(h, t, n + 1)
           its == Append(h.items, t)
           ind == [u \in DOMAIN h.index \cup {t} |-> IF u = t THEN n + 1 ELSE h.index[u]]
<1>1. s = [h EXCEPT !.items = its, !.index = ind]
  BY DEF Push, Has
<1>2. n \in Nat /\ h.items \in Seq(Tx)
      /\ \A k \in 1..n : h.items[k] \in DOMAIN h.index /\ h.index[h.items[k]] = k
  BY HeapParts
<1>3. its \in Seq(Tx) /\ Len(its) = n + 1 /\ its[n + 1] = t /\ \A k \in 1..n : its[k] = h.items[k]
  BY <1>2
<1>4. /\ ind \in [DOMAIN h.index \cup {t} -> Nat] /\ ind[t] = n + 1
      /\ \A u \in DOMAIN h.index : ind[u] = h.index[u] /\ u # t
  <2>1. h.index \in [DOMAIN h.index -> Nat] /\ n + 1 \in Nat
    BY <1>2, HeapParts
  <2> HIDE DEF n
  <2> QED
    BY <2>1
<1>5. \A u \in DOMAIN h.index : h.index[u] \in 1..n /\ h.items[h.index[u]] = u
  BY HeapParts
<1> HIDE DEF s, its, ind
<1>6. s.items = its /\ s.index = ind /\ s.isMinHeap = h.isMinHeap
      /\ s \in [isMinHeap : BOOLEAN, items : Seq(Tx), index : Index]
  <2>1. DOMAIN h.index \cup {t} \in SUBSET Tx
    BY HeapParts
  <2>2. ind \in Index
    BY <1>4, <2>1 DEF Index
  <2> QED
    BY <1>1, <1>3, <2>2, HeapParts
<1> HIDE DEF n
<1>7. \A k \in 1..n + 1 : its[k] \in DOMAIN ind /\ ind[its[k]] = k
  <2> SUFFICES ASSUME NEW k \in 1..n + 1 PROVE its[k] \in DOMAIN ind /\ ind[its[k]] = k
    OBVIOUS
  <2>1. CASE k = n + 1
    BY <1>3, <1>4, <2>1
  <2>2. CASE k \in 1..n
    BY <1>2, <1>3, <1>4, <2>2
  <2> QED
    BY <1>2, <2>1, <2>2
<1>8. \A u \in DOMAIN ind : ind[u] \in 1..n + 1 /\ its[ind[u]] = u
  <2> SUFFICES ASSUME NEW u \in DOMAIN ind PROVE ind[u] \in 1..n + 1 /\ its[ind[u]] = u
    OBVIOUS
  <2>1. CASE u = t
    BY <1>2, <1>3, <1>4, <2>1
  <2>2. CASE u \in DOMAIN h.index
    <3>1. ind[u] = h.index[u] /\ h.index[u] \in 1..n /\ h.items[h.index[u]] = u
      BY <1>4, <1>5, <2>2
    <3> QED
      BY <1>2, <1>3, <3>1
  <2> QED
    BY <1>4, <2>1, <2>2
<1>9. s \in Heaps
  BY <1>3, <1>6, <1>7, <1>8 DEF Heaps
<1> QED
  BY <1>3, <1>4, <1>6, <1>9 DEF s, n

\* What Pop (tx_heap.go:65) leaves behind.
LEMMA PopEffect ==
  ASSUME NEW h \in Heaps, Len(h.items) >= 1
  PROVE  LET n == Len(h.items)
             s == Pop(h)
         IN  /\ s \in Heaps /\ s.isMinHeap = h.isMinHeap
             /\ DOMAIN s.index = DOMAIN h.index \ {h.items[n]} /\ Len(s.items) = n - 1
             /\ \A k \in 1..n - 1 : s.items[k] = h.items[k]
<1> DEFINE n == Len(h.items)
           s == Pop(h)
           its == SubSeq(h.items, 1, n - 1)
           ind == [u \in DOMAIN h.index \ {h.items[n]} |-> h.index[u]]
<1>1. s = [h EXCEPT !.items = its, !.index = ind]
  BY DEF Pop
<1>2. n \in Nat /\ n >= 1 /\ h.items \in Seq(Tx)
      /\ \A k \in 1..n : h.items[k] \in DOMAIN h.index /\ h.index[h.items[k]] = k
  BY HeapParts
<1>3. its \in Seq(Tx) /\ Len(its) = n - 1 /\ \A k \in 1..n - 1 : its[k] = h.items[k]
  BY <1>2
<1>4. /\ ind \in [DOMAIN h.index \ {h.items[n]} -> Nat]
      /\ \A u \in DOMAIN h.index \ {h.items[n]} : ind[u] = h.index[u]
  <2>1. h.index \in [DOMAIN h.index -> Nat]
    BY HeapParts
  <2> QED
    BY <2>1
<1>5. \A u \in DOMAIN h.index : h.index[u] \in 1..n /\ h.items[h.index[u]] = u
  BY HeapParts
<1> HIDE DEF s, its, ind
<1>6. s.items = its /\ s.index = ind /\ s.isMinHeap = h.isMinHeap
      /\ s \in [isMinHeap : BOOLEAN, items : Seq(Tx), index : Index]
  <2>1. DOMAIN h.index \ {h.items[n]} \in SUBSET Tx
    BY HeapParts
  <2>2. ind \in Index
    BY <1>4, <2>1 DEF Index
  <2> QED
    BY <1>1, <1>3, <2>2, HeapParts
<1> HIDE DEF n
<1>7. \A k \in 1..n - 1 : its[k] \in DOMAIN ind /\ ind[its[k]] = k
  <2> SUFFICES ASSUME NEW k \in 1..n - 1 PROVE its[k] \in DOMAIN ind /\ ind[its[k]] = k
    OBVIOUS
  <2>1. k \in 1..n /\ n \in 1..n /\ k # n
    BY <1>2
  <2>2. h.items[k] # h.items[n]
    BY <1>2, <2>1
  <2> QED
    BY <1>2, <1>3, <1>4, <2>1, <2>2
<1>8. \A u \in DOMAIN ind : ind[u] \in 1..n - 1 /\ its[ind[u]] = u
  <2> SUFFICES ASSUME NEW u \in DOMAIN ind PROVE ind[u] \in 1..n - 1 /\ its[ind[u]] = u
    OBVIOUS
  <2>1. ind[u] = h.index[u] /\ h.index[u] \in 1..n /\ h.items[h.index[u]] = u /\ u # h.items[n]
    BY <1>4, <1>5
  <2>2. h.index[u] # n
    BY <2>1
  <2> QED
    BY <1>2, <1>3, <2>1, <2>2
<1>9. s \in Heaps
  BY <1>3, <1>6, <1>7, <1>8 DEF Heaps
<1> QED
  BY <1>3, <1>4, <1>6, <1>9 DEF s, n

-----------------------------------------------------------------------------
(* Loops.                                                                   *)

\* A set that holds 0 and with every number below N the next one holds all up to N.
LEMMA UpToN ==
  ASSUME NEW N \in Nat, NEW Q \in SUBSET Nat, 0 \in Q, \A n \in Q : n < N => n + 1 \in Q
  PROVE  0..N \subseteq Q
<1> DEFINE Below == {ss \in Nat \X Nat : ss[1] < ss[2]}
           R == (0..N) \ Q
<1>1. IsWellFoundedOn(Below, Nat)
  BY NatLessThanWellFounded, Zenon DEF OpToRel
<1>2. SUFFICES ASSUME R # {} PROVE FALSE
  OBVIOUS
<1>3. PICK n \in R : \A m \in R : ~(<<m, n>> \in Below)
  <2>1. R \subseteq Nat
    OBVIOUS
  <2> HIDE DEF Below, R
  <2> QED
    BY <1>1, <1>2, <2>1, WFMin
<1>4. n # 0 /\ n - 1 \in 0..N /\ n - 1 < N /\ n \in Nat /\ n - 1 \in Nat
  BY <1>3
<1>5. <<n - 1, n>> \in Below
  <2>1. <<n - 1, n>> \in Nat \X Nat /\ n - 1 < n
    BY <1>4
  <2> QED
    BY <2>1
<1>6. n - 1 \in Q
  BY <1>3, <1>4, <1>5
<1>7. n - 1 + 1 \in Q
  BY <1>4, <1>6
<1> QED
  BY <1>3, <1>4, <1>7

\* N rounds of a step from s0.
Rounds(f, N, s0, step) == f[0] = s0 /\ \A n \in 1..N : f[n] = step[f[n - 1]]

LEMMA RoundsExist ==
  ASSUME NEW S, NEW s0 \in S, NEW N \in Nat, NEW step \in [S -> S]
  PROVE  \E f \in [0..N -> S] : Rounds(f, N, s0, step)
<1> USE DEF Rounds
<1> DEFINE Fits(f, n) == Rounds(f, n, s0, step)
           Q == {n \in Nat : n <= N => \E f \in [0..n -> S] : Fits(f, n)}
<1>1. 0 \in Q
  <2> DEFINE f == [i \in 0..0 |-> s0]
  <2>1. f \in [0..0 -> S] /\ Fits(f, 0)
    OBVIOUS
  <2> QED
    BY <2>1
<1>2. ASSUME NEW n \in Nat, n \in Q, n < N PROVE n + 1 \in Q
  <2>1. PICK f \in [0..n -> S] : Fits(f, n)
    BY <1>2
  <2> DEFINE s == step[f[n]]
             g == [i \in 0..n + 1 |-> IF i <= n THEN f[i] ELSE s]
  <2>2. s \in S
    BY <1>2
  <2> HIDE DEF s
  <2>3. g \in [0..n + 1 -> S] /\ g[n + 1] = s /\ \A i \in 0..n : g[i] = f[i]
    BY <1>2, <2>2
  <2> HIDE DEF g
  <2>4. ASSUME NEW i \in 1..n + 1 PROVE g[i] = step[g[i - 1]]
    <3>1. CASE i <= n
      BY <1>2, <2>1, <2>3, <3>1
    <3>2. CASE i = n + 1
      BY <1>2, <2>3, <3>2 DEF s
    <3> QED
      BY <1>2, <3>1, <3>2
  <2>5. Fits(g, n + 1)
    BY <1>2, <2>1, <2>3, <2>4
  <2> QED
    BY <1>2, <2>3, <2>5
<1>3. N \in Q
  <2>1. Q \subseteq Nat /\ N \in 0..N
    OBVIOUS
  <2> HIDE DEF Q
  <2>2. 0..N \subseteq Q
    BY <1>1, <1>2, <2>1, UpToN
  <2> QED
    BY <2>1, <2>2
<1> QED
  BY <1>3

RoundsIn(f, N, s0, S, step) == f[0] = s0 /\ \A n \in 0..N - 1 : f[n] \in S => f[n + 1] = step[f[n]]
Lessens(step, S, m) == \A s \in S : step[s] = s \/ m[step[s]] < m[s]

\* When every round that changes anything lessens the measure m, no more than m[s0]
\* rounds do.
LEMMA RoundsEnd ==
  ASSUME NEW S, NEW s0 \in S, NEW N \in Nat, NEW step \in [S -> S], NEW m \in [S -> Nat], m[s0] <= N,
         Lessens(step, S, m), NEW f, RoundsIn(f, N, s0, S, step)
  PROVE  f[N] \in S /\ step[f[N]] = f[N]
<1> USE DEF Lessens, RoundsIn
<1> DEFINE Done(s) == step[s] = s
           Q == {n \in Nat : n <= N => f[n] \in S /\ (Done(f[n]) \/ m[f[n]] <= N - n)}
<1>1. 0 \in Q
  OBVIOUS
<1>2. ASSUME NEW n \in Nat, n \in Q, n < N PROVE n + 1 \in Q
  <2>1. f[n] \in S /\ (Done(f[n]) \/ m[f[n]] <= N - n)
    BY <1>2
  <2>2. f[n + 1] = step[f[n]] /\ f[n + 1] \in S
    <3>1. n \in 0..N - 1
      BY <1>2
    <3> QED
      BY <2>1, <3>1
  <2>3. CASE Done(f[n])
    BY <2>1, <2>2, <2>3
  <2>4. CASE ~Done(f[n])
    <3>1. m[f[n + 1]] < m[f[n]] /\ m[f[n]] <= N - n /\ m[f[n]] \in Nat /\ m[f[n + 1]] \in Nat
      BY <2>1, <2>2, <2>4
    <3>2. m[f[n + 1]] <= N - (n + 1)
      BY <1>2, <3>1
    <3> QED
      BY <2>2, <3>2
  <2> QED
    BY <2>3, <2>4
<1>3. N \in Q
  <2>1. Q \subseteq Nat /\ N \in 0..N
    OBVIOUS
  <2> HIDE DEF Q
  <2>2. 0..N \subseteq Q
    BY <1>1, <1>2, <2>1, UpToN
  <2> QED
    BY <2>1, <2>2
<1>4. f[N] \in S /\ (Done(f[N]) \/ m[f[N]] <= 0)
  BY <1>3
<1>5. CASE ~Done(f[N])
  <2>1. m[f[N]] = 0 /\ step[f[N]] \in S /\ m[step[f[N]]] < m[f[N]] /\ m[step[f[N]]] \in Nat
    BY <1>4, <1>5
  <2> QED
    BY <2>1
<1> QED
  BY <1>4, <1>5

\* up ends where a round changes nothing; it keeps to whatever its rounds keep to.
LEMMA UpEnds ==
  ASSUME NEW h, NEW j \in Nat, NEW S, [heap |-> h, at |-> j] \in S,
         \A s \in S : /\ UpStep(s) \in S /\ s.at \in 0..j
                      /\ UpStep(s) = s \/ UpStep(s).at < s.at
  PROVE  \E s \in S : UpStep(s) = s /\ Up(h, j) = s.heap
<1> DEFINE s0 == [heap |-> h, at |-> j]
           step == [s \in S |-> UpStep(s)]
           m == [s \in S |-> s.at]
           Fits(g) == g = [k \in 0..j |-> IF k = 0 THEN s0 ELSE UpStep(g[k - 1])]
           f == CHOOSE g : Fits(g)
<1>1. step \in [S -> S] /\ m \in [S -> Nat] /\ s0 \in S /\ m[s0] <= j
  OBVIOUS
<1>2. Lessens(step, S, m)
  BY DEF Lessens
<1>3. \A s \in S : step[s] = UpStep(s)
  OBVIOUS
<1>4. Up(h, j) = f[j].heap
  BY DEF Up
<1> HIDE DEF s0, step, m
<1>5. \E g : Fits(g)
  <2>1. PICK g \in [0..j -> S] : Rounds(g, j, s0, step)
    BY <1>1, RoundsExist
  <2>2. ASSUME NEW k \in 0..j PROVE g[k] = IF k = 0 THEN s0 ELSE UpStep(g[k - 1])
    <3>1. CASE k = 0
      BY <2>1, <3>1 DEF Rounds
    <3>2. CASE k # 0
      <4>1. k \in 1..j /\ k - 1 \in 0..j
        BY <3>2
      <4>2. g[k] = step[g[k - 1]] /\ g[k - 1] \in S
        BY <2>1, <4>1 DEF Rounds
      <4> QED
        BY <1>3, <3>2, <4>2
    <3> QED
      BY <3>1, <3>2
  <2>3. Fits(g)
    BY <2>2
  <2> QED
    BY <2>3
<1>6. Fits(f)
  BY <1>5, Zenon
<1> HIDE DEF f
<1>7. f[0] = s0 /\ \A n \in 0..j - 1 : f[n + 1] = UpStep(f[n])
  <2>1. ASSUME NEW n \in 0..j - 1 PROVE f[n + 1] = UpStep(f[n])
    <3>1. n + 1 \in 0..j /\ n + 1 # 0 /\ (n + 1) - 1 = n
      OBVIOUS
    <3>2. f[n + 1] = UpStep(f[(n + 1) - 1])
      BY <1>6, <3>1
    <3> QED
      BY <3>1, <3>2
  <2>2. f[0] = s0
    BY <1>6
  <2> QED
    BY <2>1, <2>2
<1>8. RoundsIn(f, j, s0, S, step)
  BY <1>3, <1>7 DEF RoundsIn
<1>9. f[j] \in S /\ step[f[j]] = f[j]
  BY <1>1, <1>2, <1>8, RoundsEnd
<1> QED
  BY <1>3, <1>4, <1>9

\* The same for down.
LEMMA DownEnds ==
  ASSUME NEW h, NEW n \in Nat, NEW i \in 0..n, NEW S, [heap |-> h, at |-> i] \in S,
         \A s \in S : /\ DownStep(s, n) \in S /\ s.at \in 0..n
                      /\ DownStep(s, n) = s \/ DownStep(s, n).at > s.at
  PROVE  \E s \in S : DownStep(s, n) = s /\ Down(h, i, n) = s.heap
<1> DEFINE s0 == [heap |-> h, at |-> i]
           step == [s \in S |-> DownStep(s, n)]
           m == [s \in S |-> n - s.at]
           Fits(g) == g = [k \in 0..n |-> IF k = 0 THEN s0 ELSE DownStep(g[k - 1], n)]
           f == CHOOSE g : Fits(g)
<1>1. step \in [S -> S] /\ m \in [S -> Nat] /\ s0 \in S /\ m[s0] <= n
  OBVIOUS
<1>2. Lessens(step, S, m)
  BY DEF Lessens
<1>3. \A s \in S : step[s] = DownStep(s, n)
  OBVIOUS
<1>4. Down(h, i, n) = f[n].heap
  BY DEF Down
<1> HIDE DEF s0, step, m
<1>5. \E g : Fits(g)
  <2>1. PICK g \in [0..n -> S] : Rounds(g, n, s0, step)
    BY <1>1, RoundsExist
  <2>2. ASSUME NEW k \in 0..n PROVE g[k] = IF k = 0 THEN s0 ELSE DownStep(g[k - 1], n)
    <3>1. CASE k = 0
      BY <2>1, <3>1 DEF Rounds
    <3>2. CASE k # 0
      <4>1. k \in 1..n /\ k - 1 \in 0..n
        BY <3>2
      <4>2. g[k] = step[g[k - 1]] /\ g[k - 1] \in S
        BY <2>1, <4>1 DEF Rounds
      <4> QED
        BY <1>3, <3>2, <4>2
    <3> QED
      BY <3>1, <3>2
  <2>3. Fits(g)
    BY <2>2
  <2> QED
    BY <2>3
<1>6. Fits(f)
  BY <1>5, Zenon
<1> HIDE DEF f
<1>7. f[0] = s0 /\ \A k \in 0..n - 1 : f[k + 1] = DownStep(f[k], n)
  <2>1. ASSUME NEW k \in 0..n - 1 PROVE f[k + 1] = DownStep(f[k], n)
    <3>1. k + 1 \in 0..n /\ k + 1 # 0 /\ (k + 1) - 1 = k
      OBVIOUS
    <3>2. f[k + 1] = DownStep(f[(k + 1) - 1], n)
      BY <1>6, <3>1
    <3> QED
      BY <3>1, <3>2
  <2>2. f[0] = s0
    BY <1>6
  <2> QED
    BY <2>1, <2>2
<1>8. RoundsIn(f, n, s0, S, step)
  BY <1>3, <1>7 DEF RoundsIn
<1>9. f[n] \in S /\ step[f[n]] = f[n]
  BY <1>1, <1>2, <1>8, RoundsEnd
<1> QED
  BY <1>3, <1>4, <1>9

-----------------------------------------------------------------------------
(* up and down restore the order.                                           *)

\* s holds what h does, and beyond lim at the same places.
Alike(s, h, lim) ==
    /\ s \in Heaps /\ s.isMinHeap = h.isMinHeap
    /\ DOMAIN s.index = DOMAIN h.index /\ Len(s.items) = Len(h.items)
    /\ \A k \in lim + 1..Len(h.items) : s.items[k] = h.items[k]

\* The first lim entries are in order.
Ordered(h, lim) == \A k \in 2..lim : Key(h, k \div 2) <= Key(h, k)

\* The parent of entry j comes before the children of j.
Spanned(h, j, lim) == j >= 2 => \A k \in 2..lim : k \div 2 = j => Key(h, j \div 2) <= Key(h, k)

\* Only entry j may be out of order with its parent.
Rising(h, j, lim) ==
    /\ \A k \in 2..lim : k # j => Key(h, k \div 2) <= Key(h, k)
    /\ Spanned(h, j, lim)

\* Only the children of entry j may be out of order with it.
Sinking(h, j, lim) ==
    /\ \A k \in 2..lim : k \div 2 # j => Key(h, k \div 2) <= Key(h, k)
    /\ Spanned(h, j, lim)

LEMMA SwapKeys ==
  ASSUME NEW h \in Heaps, NEW lim \in 0..Len(h.items), NEW i \in 1..lim, NEW j \in 1..lim, i # j
  PROVE  LET s == Swap(h, i, j)
         IN  /\ Alike(s, h, lim)
             /\ Key(s, i) = Key(h, j) /\ Key(s, j) = Key(h, i)
             /\ \A k \in 1..lim : k # i /\ k # j => Key(s, k) = Key(h, k)
<1>1. Len(h.items) \in Nat /\ lim \in Nat /\ lim <= Len(h.items)
      /\ i \in 1..Len(h.items) /\ j \in 1..Len(h.items)
  BY HeapParts
<1> DEFINE s == Swap(h, i, j)
<1>2. /\ s \in Heaps /\ s.isMinHeap = h.isMinHeap
      /\ DOMAIN s.index = DOMAIN h.index /\ Len(s.items) = Len(h.items)
      /\ s.items[i] = h.items[j] /\ s.items[j] = h.items[i]
      /\ \A k \in 1..Len(h.items) : k # i /\ k # j => s.items[k] = h.items[k]
  BY <1>1, SwapEffect
<1> HIDE DEF s
<1>3. Alike(s, h, lim)
  <2>1. \A k \in lim + 1..Len(h.items) : k \in 1..Len(h.items) /\ k # i /\ k # j
    BY <1>1
  <2> QED
    BY <1>2, <2>1 DEF Alike
<1>4. \A k \in 1..lim : k \in 1..Len(h.items)
  BY <1>1
<1>5. /\ Key(s, i) = Key(h, j) /\ Key(s, j) = Key(h, i)
      /\ \A k \in 1..lim : k # i /\ k # j => Key(s, k) = Key(h, k)
  BY <1>2, <1>4 DEF Key
<1> QED
  BY <1>3, <1>5 DEF s

LEMMA RiseStep ==
  ASSUME NEW h \in Heaps, NEW lim \in 0..Len(h.items), NEW j \in 1..lim, Rising(h, j, lim),
         j > 1, Less(h, j, j \div 2)
  PROVE  LET s == Swap(h, j \div 2, j)
         IN  Alike(s, h, lim) /\ Rising(s, j \div 2, lim) /\ j \div 2 \in 1..lim /\ j \div 2 < j
<1> DEFINE p == j \div 2
           s == Swap(h, p, j)
<1>1. lim \in Nat /\ p \in 1..lim /\ p < j /\ p # j /\ Len(h.items) \in Nat /\ lim <= Len(h.items)
  BY HeapParts, Halves
<1>2. \A k \in 1..lim : Key(h, k) \in Int
  BY <1>1, KeyOrder
<1>3. Key(h, j) < Key(h, p)
  BY <1>1, KeyOrder
<1>4. /\ Alike(s, h, lim)
      /\ Key(s, p) = Key(h, j) /\ Key(s, j) = Key(h, p)
      /\ \A k \in 1..lim : k # p /\ k # j => Key(s, k) = Key(h, k)
  BY <1>1, SwapKeys
<1>5. /\ \A k \in 2..lim : k # j => Key(h, k \div 2) <= Key(h, k)
      /\ \A k \in 2..lim : k \div 2 = j => Key(h, p) <= Key(h, k)
  BY DEF Rising, Spanned
<1>6. \A k \in 2..lim : k \in 1..lim /\ k \div 2 \in 1..lim /\ k \div 2 < k
  BY <1>1, Halves
<1>7. j \in 2..lim /\ j \in 1..lim /\ j \div 2 = p
  BY <1>1
<1> HIDE DEF s, p
<1>8. ASSUME NEW k \in 2..lim, k # p PROVE Key(s, k \div 2) <= Key(s, k)
  <2>1. CASE k = j
    BY <1>1, <1>2, <1>3, <1>4, <1>7, <2>1
  <2>2. CASE k # j /\ k \div 2 = p
    BY <1>1, <1>2, <1>3, <1>4, <1>5, <1>6, <1>8, <2>2
  <2>3. CASE k # j /\ k \div 2 = j
    BY <1>1, <1>2, <1>4, <1>5, <1>6, <1>8, <2>3
  <2>4. CASE k # j /\ k \div 2 # j /\ k \div 2 # p
    BY <1>4, <1>5, <1>6, <1>8, <2>4
  <2> QED
    BY <2>1, <2>2, <2>3, <2>4
<1>9. ASSUME p >= 2, NEW k \in 2..lim, k \div 2 = p PROVE Key(s, p \div 2) <= Key(s, k)
  <2>1. p \in 2..lim /\ p \div 2 \in 1..lim /\ p \div 2 # p /\ p \div 2 # j
    BY <1>1, <1>6, <1>9
  <2>2. Key(s, p \div 2) = Key(h, p \div 2) /\ Key(h, p \div 2) <= Key(h, p)
    BY <1>1, <1>4, <1>5, <2>1
  <2>3. CASE k = j
    BY <1>4, <2>2, <2>3
  <2>4. CASE k # j
    <3>1. k # p /\ Key(s, k) = Key(h, k) /\ Key(h, p) <= Key(h, k)
      BY <1>4, <1>5, <1>6, <1>9, <2>4
    <3> QED
      BY <1>1, <1>2, <1>6, <2>1, <2>2, <3>1
  <2> QED
    BY <2>3, <2>4
<1>10. Rising(s, p, lim)
  BY <1>8, <1>9 DEF Rising, Spanned
<1> QED
  BY <1>1, <1>4, <1>10 DEF s, p

LEMMA AlikeAgain ==
  ASSUME NEW h, NEW s, NEW u, NEW lim, Alike(s, h, lim), Alike(u, s, lim)
  PROVE  Alike(u, h, lim)
BY DEF Alike

\* A heap in which one entry may come before its parent is in order when up returns.
LEMMA UpRestores ==
  ASSUME NEW h \in Heaps, NEW lim \in 0..Len(h.items), NEW j \in 1..lim, Rising(h, j, lim)
  PROVE  Alike(Up(h, j), h, lim) /\ Ordered(Up(h, j), lim)
<1> DEFINE Loop == [heap : Heaps, at : 1..j]
           S == {r \in Loop : Alike(r.heap, h, lim) /\ Rising(r.heap, r.at, lim)}
<1>1. j \in Nat /\ lim \in Nat /\ j >= 1 /\ j <= lim /\ Len(h.items) \in Nat
  BY HeapParts
<1>2. [heap |-> h, at |-> j] \in S
  BY <1>1 DEF Alike
<1>3. ASSUME NEW r \in S
      PROVE  /\ UpStep(r) \in S /\ r.at \in 0..j
             /\ UpStep(r) = r \/ UpStep(r).at < r.at
             /\ UpStep(r) = r => ~(r.at > 1 /\ Less(r.heap, r.at, r.at \div 2))
  <2>1. /\ r.heap \in Heaps /\ r.at \in 1..j /\ r.at \in 1..lim /\ lim \in 0..Len(r.heap.items)
        /\ Alike(r.heap, h, lim) /\ Rising(r.heap, r.at, lim)
    BY <1>1 DEF Alike
  <2>2. CASE r.at > 1 /\ Less(r.heap, r.at, r.at \div 2)
    <3> DEFINE p == r.at \div 2
               s == Swap(r.heap, p, r.at)
               q == [heap |-> s, at |-> p]
    <3>1. Alike(s, r.heap, lim) /\ Rising(s, p, lim) /\ p \in 1..lim /\ p < r.at
      BY <2>1, <2>2, RiseStep
    <3>2. UpStep(r) = q
      BY <2>2 DEF UpStep
    <3> HIDE DEF s, p
    <3>3. Alike(s, h, lim) /\ s \in Heaps
      <4>1. Alike(s, h, lim)
        BY <2>1, <3>1, AlikeAgain
      <4> QED
        BY <4>1 DEF Alike
    <3>4. q \in S /\ q.at < r.at
      BY <1>1, <2>1, <3>1, <3>3
    <3> QED
      BY <2>1, <3>2, <3>4
  <2>3. CASE ~(r.at > 1 /\ Less(r.heap, r.at, r.at \div 2))
    <3>1. UpStep(r) = r
      BY <2>3 DEF UpStep
    <3> QED
      BY <2>1, <2>3, <3>1
  <2> QED
    BY <2>2, <2>3
<1>4. PICK r \in S : UpStep(r) = r /\ Up(h, j) = r.heap
  <2> HIDE DEF S
  <2> QED
    BY <1>1, <1>2, <1>3, UpEnds
<1>5. Alike(r.heap, h, lim) /\ Rising(r.heap, r.at, lim) /\ r.heap \in Heaps /\ r.at \in 1..lim
      /\ lim <= Len(r.heap.items) /\ Len(r.heap.items) \in Nat
  BY <1>1 DEF Alike
<1>6. r.at > 1 => Key(r.heap, r.at \div 2) <= Key(r.heap, r.at)
  <2> SUFFICES ASSUME r.at > 1 PROVE Key(r.heap, r.at \div 2) <= Key(r.heap, r.at)
    OBVIOUS
  <2>1. r.at \in 1..Len(r.heap.items) /\ r.at \div 2 \in 1..Len(r.heap.items)
    BY <1>1, <1>5, Halves
  <2>2. ~Less(r.heap, r.at, r.at \div 2)
    BY <1>3, <1>4
  <2> QED
    BY <1>5, <2>1, <2>2, KeyOrder
<1>7. Ordered(r.heap, lim)
  BY <1>1, <1>5, <1>6 DEF Ordered, Rising
<1> QED
  BY <1>4, <1>5, <1>7

LEMMA ChildFacts ==
  ASSUME NEW h \in Heaps, NEW lim \in 0..Len(h.items), NEW i \in 1..lim, 2 * i <= lim
  PROVE  LET c == BetterChild(h, i, lim)
         IN  /\ c \in 2..lim /\ c \div 2 = i /\ c > i
             /\ \A k \in 2..lim : k \div 2 = i => Key(h, c) <= Key(h, k)
<1> DEFINE c == BetterChild(h, i, lim)
<1>1. lim \in Nat /\ i \in Nat /\ i >= 1 /\ Len(h.items) \in Nat /\ lim <= Len(h.items)
  BY HeapParts
<1>2. \A k \in 2..lim : k \div 2 = i => k = 2 * i \/ k = 2 * i + 1
  BY Halves
<1>3. (2 * i) \div 2 = i /\ (2 * i + 1) \div 2 = i
  BY <1>1, Children
<1>4. \A k \in 1..lim, l \in 1..lim :
        Key(h, k) \in Int /\ (Less(h, k, l) <=> Key(h, k) < Key(h, l))
  BY <1>1, KeyOrder
<1>5. CASE 2 * i + 1 <= lim /\ Less(h, 2 * i + 1, 2 * i)
  <2>1. c = 2 * i + 1
    BY <1>5 DEF BetterChild
  <2> HIDE DEF c
  <2>2. c \in 2..lim /\ c \div 2 = i /\ c > i
    BY <1>1, <1>3, <1>5, <2>1
  <2>3. Key(h, c) < Key(h, 2 * i) /\ Key(h, c) \in Int /\ Key(h, 2 * i) \in Int
    BY <1>1, <1>4, <1>5, <2>1
  <2>4. ASSUME NEW k \in 2..lim, k \div 2 = i PROVE Key(h, c) <= Key(h, k)
    BY <1>2, <2>1, <2>3, <2>4
  <2> QED
    BY <2>2, <2>4 DEF c
<1>6. CASE ~(2 * i + 1 <= lim /\ Less(h, 2 * i + 1, 2 * i))
  <2>1. c = 2 * i
    BY <1>6 DEF BetterChild
  <2> HIDE DEF c
  <2>2. c \in 2..lim /\ c \div 2 = i /\ c > i
    BY <1>1, <1>3, <2>1
  <2>3. ASSUME NEW k \in 2..lim, k \div 2 = i PROVE Key(h, c) <= Key(h, k)
    <3>1. CASE k = c
      BY <1>4, <3>1
    <3>2. CASE k = 2 * i + 1
      <4>1. ~Less(h, k, c) /\ k \in 1..lim /\ c \in 1..lim
        BY <1>1, <1>6, <2>1, <2>2, <3>2
      <4> QED
        BY <1>4, <4>1
    <3> QED
      BY <1>2, <2>1, <2>3, <3>1, <3>2
  <2> QED
    BY <2>2, <2>3 DEF c
<1> QED
  BY <1>5, <1>6

LEMMA SinkStep ==
  ASSUME NEW h \in Heaps, NEW lim \in 0..Len(h.items), NEW i \in 1..lim, Sinking(h, i, lim),
         2 * i <= lim, Less(h, BetterChild(h, i, lim), i)
  PROVE  LET c == BetterChild(h, i, lim)
             s == Swap(h, i, c)
         IN  Alike(s, h, lim) /\ Sinking(s, c, lim) /\ c \in 1..lim /\ c > i
<1> DEFINE c == BetterChild(h, i, lim)
           s == Swap(h, i, c)
<1>1. /\ c \in 2..lim /\ c \div 2 = i /\ c > i
      /\ \A k \in 2..lim : k \div 2 = i => Key(h, c) <= Key(h, k)
  BY ChildFacts
<1>2. lim \in Nat /\ i \in Nat /\ i >= 1 /\ Len(h.items) \in Nat /\ lim <= Len(h.items)
  BY HeapParts
<1>3. \A k \in 1..lim : Key(h, k) \in Int
  BY <1>2, KeyOrder
<1> HIDE DEF c
<1>4. c \in 1..lim /\ c # i
  BY <1>1, <1>2
<1>5. Key(h, c) < Key(h, i)
  <2>1. Less(h, c, i)
    BY DEF c
  <2>2. c \in 1..Len(h.items) /\ i \in 1..Len(h.items)
    BY <1>2, <1>4
  <2> QED
    BY <2>1, <2>2, KeyOrder
<1>6. /\ Alike(s, h, lim)
      /\ Key(s, i) = Key(h, c) /\ Key(s, c) = Key(h, i)
      /\ \A k \in 1..lim : k # i /\ k # c => Key(s, k) = Key(h, k)
  BY <1>4, SwapKeys
<1>7. /\ \A k \in 2..lim : k \div 2 # i => Key(h, k \div 2) <= Key(h, k)
      /\ i >= 2 => \A k \in 2..lim : k \div 2 = i => Key(h, i \div 2) <= Key(h, k)
  BY DEF Sinking, Spanned
<1>8. \A k \in 2..lim : k \in 1..lim /\ k \div 2 \in 1..lim /\ k \div 2 < k
  BY <1>2, Halves
<1> HIDE DEF s
<1>9. ASSUME NEW k \in 2..lim, k \div 2 # c PROVE Key(s, k \div 2) <= Key(s, k)
  <2>1. CASE k = i
    <3>1. i >= 2 /\ i \in 2..lim /\ i \div 2 \in 1..lim /\ i \div 2 # i
      BY <1>8, <2>1
    <3>2. Key(s, i \div 2) = Key(h, i \div 2)
      BY <1>6, <1>9, <2>1, <3>1, <1>1, <1>8
    <3> QED
      BY <1>1, <1>6, <1>7, <2>1, <3>1, <3>2
  <2>2. CASE k = c
    BY <1>1, <1>2, <1>3, <1>4, <1>5, <1>6, <2>2
  <2>3. CASE k # c /\ k \div 2 = i
    BY <1>1, <1>6, <1>8, <2>3
  <2>4. CASE k # c /\ k # i /\ k \div 2 # i
    BY <1>6, <1>7, <1>8, <1>9, <2>4
  <2> QED
    BY <2>1, <2>2, <2>3, <2>4
<1>10. ASSUME c >= 2, NEW k \in 2..lim, k \div 2 = c PROVE Key(s, c \div 2) <= Key(s, k)
  <2>1. k \in 1..lim /\ k # c /\ k # i /\ k \div 2 # i
    BY <1>1, <1>4, <1>8, <1>10
  <2> QED
    BY <1>1, <1>6, <1>7, <1>10, <2>1
<1>11. Sinking(s, c, lim)
  BY <1>9, <1>10 DEF Sinking, Spanned
<1> QED
  BY <1>1, <1>4, <1>6, <1>11 DEF s, c

\* A heap in which one entry may come after its children is in order when down returns.
LEMMA DownRestores ==
  ASSUME NEW h \in Heaps, NEW lim \in 0..Len(h.items), NEW i \in 1..lim, Sinking(h, i, lim)
  PROVE  Alike(Down(h, i, lim), h, lim) /\ Ordered(Down(h, i, lim), lim)
<1> DEFINE Loop == [heap : Heaps, at : 1..lim]
           S == {r \in Loop : Alike(r.heap, h, lim) /\ Sinking(r.heap, r.at, lim)}
           Moves(r) == 2 * r.at <= lim /\ Less(r.heap, BetterChild(r.heap, r.at, lim), r.at)
<1>1. lim \in Nat /\ i \in 0..lim /\ Len(h.items) \in Nat
  BY HeapParts
<1>2. [heap |-> h, at |-> i] \in S
  BY <1>1 DEF Alike
<1>3. ASSUME NEW r \in S
      PROVE  /\ DownStep(r, lim) \in S /\ r.at \in 0..lim
             /\ DownStep(r, lim) = r \/ DownStep(r, lim).at > r.at
             /\ DownStep(r, lim) = r => ~Moves(r)
  <2>1. /\ r.heap \in Heaps /\ r.at \in 1..lim /\ lim \in 0..Len(r.heap.items)
        /\ Alike(r.heap, h, lim) /\ Sinking(r.heap, r.at, lim)
    BY <1>1 DEF Alike
  <2>2. CASE Moves(r)
    <3> DEFINE c == BetterChild(r.heap, r.at, lim)
               s == Swap(r.heap, r.at, c)
               q == [heap |-> s, at |-> c]
    <3>1. Alike(s, r.heap, lim) /\ Sinking(s, c, lim) /\ c \in 1..lim /\ c > r.at
      BY <2>1, <2>2, SinkStep
    <3>2. DownStep(r, lim) = q
      BY <2>2 DEF DownStep
    <3> HIDE DEF s, c
    <3>3. Alike(s, h, lim) /\ s \in Heaps
      <4>1. Alike(s, h, lim)
        BY <2>1, <3>1, AlikeAgain
      <4> QED
        BY <4>1 DEF Alike
    <3>4. q \in S /\ q.at > r.at
      BY <1>1, <2>1, <3>1, <3>3
    <3> QED
      BY <1>1, <2>1, <3>2, <3>4
  <2>3. CASE ~Moves(r)
    <3>1. DownStep(r, lim) = r
      BY <2>3 DEF DownStep
    <3> QED
      BY <1>1, <2>1, <2>3, <3>1
  <2> QED
    BY <2>2, <2>3
<1>4. PICK r \in S : DownStep(r, lim) = r /\ Down(h, i, lim) = r.heap
  <2> HIDE DEF S, Moves
  <2> QED
    BY <1>1, <1>2, <1>3, DownEnds
<1>5. Alike(r.heap, h, lim) /\ Sinking(r.heap, r.at, lim) /\ r.heap \in Heaps /\ r.at \in 1..lim
      /\ lim \in 0..Len(r.heap.items) /\ Len(r.heap.items) \in Nat
  BY <1>1 DEF Alike
<1>6. ~Moves(r)
  BY <1>3, <1>4
<1> DEFINE g == r.heap
           a == r.at
<1>7. ASSUME NEW k \in 2..lim, k \div 2 = a PROVE Key(g, a) <= Key(g, k)
  <2>1. 2 * a <= lim
    BY <1>1, <1>7, Halves
  <2>2. LET c == BetterChild(g, a, lim)
        IN  c \in 2..lim /\ \A l \in 2..lim : l \div 2 = a => Key(g, c) <= Key(g, l)
    BY <1>5, <2>1, ChildFacts
  <2> DEFINE c == BetterChild(g, a, lim)
  <2>3. ~Less(g, c, a)
    BY <1>6, <2>1
  <2>4. c \in 1..Len(g.items) /\ a \in 1..Len(g.items) /\ k \in 1..Len(g.items) /\ Key(g, c) <= Key(g, k)
    BY <1>1, <1>5, <1>7, <2>2
  <2> HIDE DEF c, g, a
  <2>5. g \in Heaps
    BY <1>5 DEF g
  <2>6. Key(g, a) <= Key(g, c) /\ Key(g, a) \in Int /\ Key(g, c) \in Int /\ Key(g, k) \in Int
    BY <2>3, <2>4, <2>5, KeyOrder
  <2> QED
    BY <2>4, <2>6
<1>8. Ordered(r.heap, lim)
  BY <1>5, <1>7 DEF Ordered, Sinking
<1> QED
  BY <1>4, <1>5, <1>8

\* An entry put in the place of another: down moves it below its children, or leaves it,
\* and then only its parent may be wrong.
LEMMA DownOrNot ==
  ASSUME NEW h \in Heaps, NEW lim \in 0..Len(h.items), NEW i \in 1..lim, Spanned(h, i, lim),
         \A k \in 2..lim : k # i /\ k \div 2 # i => Key(h, k \div 2) <= Key(h, k)
  PROVE  LET d == Down(h, i, lim)
         IN  \/ d = h /\ Rising(h, i, lim)
             \/ Alike(d, h, lim) /\ Ordered(d, lim)
<1> DEFINE r0 == [heap |-> h, at |-> i]
           c == BetterChild(h, i, lim)
           Moves == 2 * i <= lim /\ Less(h, c, i)
<1>1. lim \in Nat /\ i \in 0..lim /\ i \in 1..Len(h.items) /\ Len(h.items) \in Nat /\ lim <= Len(h.items)
  BY HeapParts
<1>2. \A k \in 1..lim : k \in 1..Len(h.items) /\ Key(h, k) \in Int
  BY <1>1, KeyOrder
<1>3. CASE ~Moves
  <2>1. DownStep(r0, lim) = r0
    BY <1>3 DEF DownStep
  <2>2. Down(h, i, lim) = h
    <3> DEFINE S == {r0}
    <3>1. r0 \in S
      OBVIOUS
    <3>2. \A s \in S : /\ DownStep(s, lim) \in S /\ s.at \in 0..lim
                       /\ DownStep(s, lim) = s \/ DownStep(s, lim).at > s.at
      BY <1>1, <2>1
    <3> HIDE DEF S
    <3>3. \E s \in S : DownStep(s, lim) = s /\ Down(h, i, lim) = s.heap
      BY <1>1, <3>1, <3>2, DownEnds
    <3> QED
      BY <3>3 DEF S
  <2>3. ASSUME NEW k \in 2..lim, k \div 2 = i PROVE Key(h, i) <= Key(h, k)
    <3>1. 2 * i <= lim
      BY <1>1, <2>3, Halves
    <3>2. c \in 2..lim /\ Key(h, c) <= Key(h, k)
      BY <2>3, <3>1, ChildFacts
    <3>3. ~Less(h, c, i)
      BY <1>3, <3>1
    <3> HIDE DEF c
    <3>4. c \in 1..Len(h.items) /\ k \in 1..Len(h.items)
      BY <1>1, <3>2
    <3>5. Key(h, i) <= Key(h, c) /\ Key(h, i) \in Int /\ Key(h, c) \in Int /\ Key(h, k) \in Int
      BY <1>1, <3>3, <3>4, KeyOrder
    <3> QED
      BY <3>2, <3>5
  <2>4. Rising(h, i, lim)
    BY <2>3 DEF Rising
  <2> QED
    BY <2>2, <2>4
<1>4. CASE Moves
  <2>1. c \in 2..lim /\ c \div 2 = i /\ c > i
    BY <1>4, ChildFacts
  <2>2. Less(h, c, i)
    BY <1>4
  <2> HIDE DEF c
  <2>3. Key(h, c) < Key(h, i) /\ Key(h, c) \in Int /\ Key(h, i) \in Int
    BY <1>1, <1>2, <2>1, <2>2, KeyOrder
  <2>4. i >= 2 => Key(h, i \div 2) <= Key(h, i)
    <3> SUFFICES ASSUME i >= 2 PROVE Key(h, i \div 2) <= Key(h, i)
      OBVIOUS
    <3>1. Key(h, i \div 2) <= Key(h, c)
      BY <2>1 DEF Spanned
    <3>2. Key(h, i \div 2) \in Int
      BY <1>1, <1>2, Halves
    <3> QED
      BY <2>3, <3>1, <3>2
  <2>5. Sinking(h, i, lim)
    BY <1>1, <2>4 DEF Sinking
  <2> QED
    BY <2>5, DownRestores
<1> QED
  BY <1>3, <1>4

\* heap.Push keeps a heap in order.
LEMMA HeapPushEffect ==
  ASSUME NEW h \in Heaps, NEW t \in Tx, t \notin DOMAIN h.index, Ordered(h, Len(h.items))
  PROVE  LET n == Len(h.items)
             s == HeapPush(h, t, n + 1)
         IN  /\ s \in Heaps /\ s.isMinHeap = h.isMinHeap
             /\ DOMAIN s.index = DOMAIN h.index \cup {t} /\ Len(s.items) = n + 1
             /\ Ordered(s, n + 1)
<1> DEFINE n == Len(h.items)
           q == Push(h, t, n + 1)
<1>1. n \in Nat
  BY HeapParts
<1>2. /\ q \in Heaps /\ q.isMinHeap = h.isMinHeap
      /\ DOMAIN q.index = DOMAIN h.index \cup {t} /\ Len(q.items) = n + 1
      /\ \A k \in 1..n : q.items[k] = h.items[k]
  BY PushEffect
<1>3. HeapPush(h, t, n + 1) = Up(q, Len(q.items))
  BY DEF HeapPush
<1> HIDE DEF q
<1>4. Rising(q, n + 1, n + 1)
  <2>1. ASSUME NEW k \in 2..n + 1, k # n + 1 PROVE Key(q, k \div 2) <= Key(q, k)
    <3>1. k \in 2..n /\ k \in 1..n /\ k \div 2 \in 1..n
      BY <1>1, <2>1, Halves
    <3>2. Key(h, k \div 2) <= Key(h, k)
      BY <3>1 DEF Ordered
    <3>3. Key(q, k \div 2) = Key(h, k \div 2) /\ Key(q, k) = Key(h, k)
      BY <1>2, <3>1 DEF Key
    <3> QED
      BY <3>2, <3>3
  <2>2. \A k \in 2..n + 1 : k \div 2 # n + 1
    BY <1>1, Halves
  <2> QED
    BY <2>1, <2>2 DEF Rising, Spanned
<1> DEFINE l == n + 1
<1>5. l \in 0..Len(q.items) /\ l \in 1..l /\ Rising(q, l, l) /\ Len(q.items) = l
  BY <1>1, <1>2, <1>4
<1> HIDE DEF l
<1>6. Alike(Up(q, l), q, l) /\ Ordered(Up(q, l), l)
  BY <1>2, <1>5, UpRestores
<1> QED
  BY <1>2, <1>3, <1>5, <1>6 DEF Alike, l

\* heap.Remove, from any place, keeps a heap in order.
LEMMA HeapRemoveEffect ==
  ASSUME NEW h \in Heaps, NEW i \in 1..Len(h.items), Ordered(h, Len(h.items))
  PROVE  LET n == Len(h.items)
             s == HeapRemove(h, i)
         IN  /\ s \in Heaps /\ s.isMinHeap = h.isMinHeap
             /\ DOMAIN s.index = DOMAIN h.index \ {h.items[i]} /\ Len(s.items) = n - 1
             /\ Ordered(s, n - 1)
<1> DEFINE n == Len(h.items)
           m == n - 1
           w == Swap(h, i, n)
           d == Down(w, i, m)
           g == IF i = n THEN h ELSE IF d = w THEN Up(w, i) ELSE d
<1>1. n \in Nat /\ n >= 1 /\ m \in Nat /\ n \in 1..n
  BY HeapParts
<1>2. HeapRemove(h, i) = Pop(g)
  BY DEF HeapRemove
<1>3. /\ g \in Heaps /\ g.isMinHeap = h.isMinHeap /\ DOMAIN g.index = DOMAIN h.index
      /\ Len(g.items) = n /\ g.items[n] = h.items[i] /\ Ordered(g, m)
  <2>1. CASE i = n
    <3>1. g = h
      BY <2>1
    <3>2. Ordered(h, m)
      BY <1>1 DEF Ordered
    <3> QED
      BY <2>1, <3>1, <3>2
  <2>2. CASE i # n
    <3>1. i \in 1..m /\ m \in 0..n /\ n \in m + 1..n
      BY <1>1, <2>2
    <3>2. /\ w \in Heaps /\ w.isMinHeap = h.isMinHeap
          /\ DOMAIN w.index = DOMAIN h.index /\ Len(w.items) = n
          /\ w.items[n] = h.items[i]
          /\ \A k \in 1..n : k # i /\ k # n => w.items[k] = h.items[k]
      BY <1>1, <2>2, SwapEffect
    <3> HIDE DEF w
    <3>3. \A k \in 2..m : /\ k \in 2..n /\ k \in 1..m /\ k \div 2 \in 1..m /\ k \div 2 < k
                          /\ k \in 1..n /\ k # n
      BY <1>1, Halves
    <3>4. \A k \in 1..m : Key(h, k) \in Int
      BY <1>1, KeyOrder
    <3>5. \A k \in 1..m : k # i => Key(w, k) = Key(h, k)
      <4>1. \A k \in 1..m : k \in 1..n /\ k # n
        BY <1>1
      <4> QED
        BY <3>2, <4>1 DEF Key
    <3>6. \A k \in 2..m : Key(h, k \div 2) <= Key(h, k)
      BY <3>3 DEF Ordered
    <3>7. \A k \in 2..m : k # i /\ k \div 2 # i => Key(w, k \div 2) <= Key(w, k)
      BY <3>3, <3>5, <3>6
    <3>8. Spanned(w, i, m)
      <4> SUFFICES ASSUME i >= 2, NEW k \in 2..m, k \div 2 = i PROVE Key(w, i \div 2) <= Key(w, k)
        BY DEF Spanned
      <4>1. i \in 2..m /\ i \div 2 \in 1..m /\ i \div 2 # i /\ k # i /\ k \in 1..m /\ i \in 1..m
        BY <3>1, <3>3
      <4>2. Key(h, i \div 2) <= Key(h, i) /\ Key(h, i) <= Key(h, k)
        BY <3>6, <4>1
      <4>3. Key(h, i \div 2) <= Key(h, k)
        BY <3>4, <4>1, <4>2
      <4> QED
        BY <3>5, <4>1, <4>3
    <3> HIDE DEF m, n
    <3>9. (d = w /\ Rising(w, i, m)) \/ (Alike(d, w, m) /\ Ordered(d, m))
      BY <3>1, <3>2, <3>7, <3>8, DownOrNot
    <3>10. Alike(g, w, m) /\ Ordered(g, m)
      <4>1. CASE d # w
        BY <2>2, <3>9, <4>1
      <4>2. CASE d = w
        <5>1. Rising(w, i, m)
          <6>1. CASE Ordered(w, m)
            BY <3>8, <6>1 DEF Ordered, Rising
          <6> QED
            BY <3>9, <4>2, <6>1
        <5>2. g = Up(w, i)
          BY <2>2, <4>2
        <5> QED
          BY <3>1, <3>2, <5>1, <5>2, UpRestores
      <4> QED
        BY <4>1, <4>2
    <3> HIDE DEF g
    <3> QED
      BY <3>1, <3>2, <3>10 DEF Alike
  <2> QED
    BY <2>1, <2>2
<1> HIDE DEF g
<1>4. LET s == Pop(g)
      IN  /\ s \in Heaps /\ s.isMinHeap = g.isMinHeap
          /\ DOMAIN s.index = DOMAIN g.index \ {g.items[n]} /\ Len(s.items) = m
          /\ \A k \in 1..m : s.items[k] = g.items[k]
  BY <1>1, <1>3, PopEffect
<1> DEFINE s == Pop(g)
<1> HIDE DEF s
<1>5. /\ s \in Heaps /\ s.isMinHeap = g.isMinHeap
      /\ DOMAIN s.index = DOMAIN g.index \ {g.items[n]} /\ Len(s.items) = m
      /\ \A k \in 1..m : s.items[k] = g.items[k]
  BY <1>4 DEF s
<1>6. Ordered(s, m)
  <2> SUFFICES ASSUME NEW k \in 2..m PROVE Key(s, k \div 2) <= Key(s, k)
    BY DEF Ordered
  <2>1. k \in 1..m /\ k \div 2 \in 1..m
    BY <1>1, Halves
  <2>2. Key(s, k \div 2) = Key(g, k \div 2) /\ Key(s, k) = Key(g, k)
    BY <1>5, <2>1 DEF Key
  <2>3. Key(g, k \div 2) <= Key(g, k)
    BY <1>3 DEF Ordered
  <2> QED
    BY <2>2, <2>3
<1>7. s = HeapRemove(h, i)
  BY <1>2 DEF s
<1> QED
  BY <1>3, <1>5, <1>6, <1>7

-----------------------------------------------------------------------------
(* The pool that the two heaps are.                                         *)

\* A heap counts what it holds.
LEMMA HeapCount ==
  ASSUME NEW h \in Heaps
  PROVE  IsFiniteSet(DOMAIN h.index) /\ Cardinality(DOMAIN h.index) = Len(h.items)
<1> DEFINE D == DOMAIN h.index
           n == Len(h.items)
           f == [t \in D |-> h.index[t]]
<1>1. n \in Nat /\ 1 \in Int /\ n \in Int
  BY HeapParts
<1>2. /\ \A t \in D : f[t] \in 1..n /\ h.items[f[t]] = t
      /\ \A k \in 1..n : h.items[k] \in D /\ f[h.items[k]] = k
      /\ f = [t \in D |-> f[t]]
  BY HeapParts
<1>3. IsFiniteSet(1..n) /\ Cardinality(1..n) = n
  BY <1>1, FS_Interval
<1> HIDE DEF f, D, n
<1>4. f \in Bijection(D, 1..n)
  <2>1. f \in [D -> 1..n]
    BY <1>2
  <2>2. \A t, u \in D : f[t] = f[u] => t = u
    BY <1>2
  <2>3. f \in Injection(D, 1..n)
    BY <2>1, <2>2, Fun_IsInj
  <2>4. f \in Surjection(D, 1..n)
    BY <1>2, <2>1, Fun_IsSurj
  <2> QED
    BY <2>3, <2>4 DEF Bijection
<1>5. IsFiniteSet(D) /\ Cardinality(D) = Cardinality(1..n)
  <2>1. ExistsBijection(D, 1..n)
    BY <1>4 DEF ExistsBijection
  <2>2. ExistsBijection(1..n, D)
    BY <2>1, Fun_ExistsBijSymmetric
  <2> QED
    BY <1>3, <2>2, FS_Bijection
<1> QED
  BY <1>3, <1>5 DEF D, n

Sound(h) == h \in Heaps /\ Ordered(h, Len(h.items))

\* Nothing comes before the root.
LEMMA RootFirst ==
  ASSUME NEW h, Sound(h)
  PROVE  \A i \in 1..Len(h.items) : Key(h, 1) <= Key(h, i)
<1> DEFINE n == Len(h.items)
           Q == {k \in Nat : k <= n => \A i \in 1..k : Key(h, 1) <= Key(h, i)}
<1>1. n \in Nat /\ h \in Heaps
  BY HeapParts DEF Sound
<1>2. \A i \in 1..n : Key(h, i) \in Int
  BY <1>1, KeyOrder
<1>3. 0 \in Q
  OBVIOUS
<1>4. ASSUME NEW k \in Q, k < n PROVE k + 1 \in Q
  <2>1. k \in Nat /\ k + 1 \in 1..n /\ 1 \in 1..n /\ \A i \in 1..k : Key(h, 1) <= Key(h, i)
    BY <1>1, <1>4
  <2>2. Key(h, 1) <= Key(h, k + 1)
    <3>1. CASE k = 0
      BY <1>2, <2>1, <3>1
    <3>2. CASE k # 0
      <4> DEFINE c == k + 1
      <4>1. c \in 2..n /\ c \div 2 \in 1..k /\ c \div 2 \in 1..n /\ c \in 1..n
        BY <1>1, <2>1, <3>2, Halves
      <4> HIDE DEF c
      <4>2. Key(h, c \div 2) <= Key(h, c) /\ Key(h, 1) <= Key(h, c \div 2)
        BY <2>1, <4>1 DEF Sound, Ordered
      <4>3. Key(h, 1) <= Key(h, c)
        BY <1>2, <2>1, <4>1, <4>2
      <4> QED
        BY <4>3 DEF c
    <3> QED
      BY <3>1, <3>2
  <2>3. \A i \in 1..k + 1 : i \in 1..k \/ i = k + 1
    BY <2>1
  <2> QED
    BY <2>1, <2>2, <2>3
<1>5. n \in Q
  <2>1. Q \in SUBSET Nat /\ n \in 0..n /\ n \in Nat
    BY <1>1
  <2> HIDE DEF Q, n
  <2>2. 0..n \subseteq Q
    BY <1>3, <1>4, <2>1, UpToN
  <2> QED
    BY <2>1, <2>2
<1> QED
  BY <1>5

LEMMA Roots ==
  ASSUME NEW h, Sound(h), Len(h.items) > 0
  PROVE  /\ h.items[1] \in DOMAIN h.index /\ h.items[1] \in Tx
         /\ h.isMinHeap => \A u \in DOMAIN h.index : Price[h.items[1]] <= Price[u]
         /\ ~h.isMinHeap => \A u \in DOMAIN h.index : Price[u] <= Price[h.items[1]]
<1>1. h \in Heaps /\ 1 \in 1..Len(h.items)
  BY HeapParts DEF Sound
<1>2. h.items[1] \in DOMAIN h.index /\ h.items[1] \in Tx
  BY <1>1, HeapParts
<1>3. ASSUME NEW u \in DOMAIN h.index
      PROVE  /\ h.isMinHeap => Price[h.items[1]] <= Price[u]
             /\ ~h.isMinHeap => Price[u] <= Price[h.items[1]]
  <2>1. h.index[u] \in 1..Len(h.items) /\ h.items[h.index[u]] = u /\ u \in Tx
    BY <1>1, HeapParts
  <2>2. Key(h, 1) <= Key(h, h.index[u])
    BY <2>1, RootFirst
  <2>3. Price[u] \in Nat /\ Price[h.items[1]] \in Nat
    BY <1>2, <2>1, MempoolAssumption
  <2> QED
    BY <2>1, <2>2, <2>3 DEF Key
<1> QED
  BY <1>2, <1>3

LEMMA RemovedFromEffect ==
  ASSUME NEW h, NEW t, Sound(h)
  PROVE  LET s == RemovedFrom(h, t)
         IN  /\ Sound(s) /\ s.isMinHeap = h.isMinHeap
             /\ DOMAIN s.index = DOMAIN h.index \ {t}
             /\ Len(s.items) = IF t \in DOMAIN h.index THEN Len(h.items) - 1 ELSE Len(h.items)
<1>1. CASE t \in DOMAIN h.index
  <2> DEFINE i == h.index[t]
             s == HeapRemove(h, i)
  <2>1. h \in Heaps /\ i \in 1..Len(h.items) /\ h.items[i] = t
    BY <1>1, HeapParts DEF Sound
  <2>2. RemovedFrom(h, t) = s
    BY <1>1 DEF RemovedFrom, Has
  <2>3. /\ s \in Heaps /\ s.isMinHeap = h.isMinHeap
        /\ DOMAIN s.index = DOMAIN h.index \ {h.items[i]} /\ Len(s.items) = Len(h.items) - 1
        /\ Ordered(s, Len(h.items) - 1)
    BY <2>1, HeapRemoveEffect DEF Sound
  <2> HIDE DEF i, s
  <2> QED
    BY <1>1, <2>1, <2>2, <2>3 DEF Sound
<1>2. CASE t \notin DOMAIN h.index
  BY <1>2 DEF RemovedFrom, Has
<1> QED
  BY <1>1, <1>2

\* Two sound heaps, a max-heap and a min-heap, of the same transactions.
Pair(a, b) ==
    /\ Sound(a) /\ Sound(b) /\ ~a.isMinHeap /\ b.isMinHeap
    /\ DOMAIN a.index = DOMAIN b.index /\ Len(a.items) = Len(b.items)

LEMMA PairRemoved ==
  ASSUME NEW a, NEW b, NEW t, Pair(a, b)
  PROVE  /\ Pair(RemovedFrom(a, t), RemovedFrom(b, t))
         /\ DOMAIN RemovedFrom(a, t).index = DOMAIN a.index \ {t}
<1> DEFINE x == RemovedFrom(a, t)
           y == RemovedFrom(b, t)
<1>1. /\ Sound(x) /\ x.isMinHeap = a.isMinHeap /\ DOMAIN x.index = DOMAIN a.index \ {t}
      /\ Len(x.items) = IF t \in DOMAIN a.index THEN Len(a.items) - 1 ELSE Len(a.items)
  BY RemovedFromEffect DEF Pair
<1>2. /\ Sound(y) /\ y.isMinHeap = b.isMinHeap /\ DOMAIN y.index = DOMAIN b.index \ {t}
      /\ Len(y.items) = IF t \in DOMAIN b.index THEN Len(b.items) - 1 ELSE Len(b.items)
  BY RemovedFromEffect DEF Pair
<1> HIDE DEF x, y
<1>3. Pair(x, y)
  BY <1>1, <1>2 DEF Pair
<1> QED
  BY <1>1, <1>3 DEF x, y

LEMMA PairPushed ==
  ASSUME NEW a, NEW b, NEW t \in Tx, Pair(a, b), t \notin DOMAIN a.index
  PROVE  LET n == Len(a.items)
             x == Pushed(a, t, n + 1)
             y == Pushed(b, t, n + 1)
         IN  Pair(x, y) /\ DOMAIN x.index = DOMAIN a.index \cup {t} /\ Len(x.items) = n + 1
<1> DEFINE n == Len(a.items)
           x == HeapPush(a, t, n + 1)
           y == HeapPush(b, t, n + 1)
<1>1. /\ x \in Heaps /\ x.isMinHeap = a.isMinHeap
      /\ DOMAIN x.index = DOMAIN a.index \cup {t} /\ Len(x.items) = n + 1 /\ Ordered(x, n + 1)
  BY HeapPushEffect DEF Pair, Sound
<1>2. /\ y \in Heaps /\ y.isMinHeap = b.isMinHeap
      /\ DOMAIN y.index = DOMAIN b.index \cup {t} /\ Len(y.items) = n + 1 /\ Ordered(y, n + 1)
  BY HeapPushEffect DEF Pair, Sound
<1> HIDE DEF x, y
<1>3. Pair(x, y)
  BY <1>1, <1>2 DEF Pair, Sound
<1> QED
  BY <1>1, <1>3 DEF x, y, Pushed

\* The instance counts as this module does.
LEMMA HeapsCount ==
  ASSUME NEW S
  PROVE  Pool!Cardinality(S) = Cardinality(S)
BY DEF Pool!Cardinality, Cardinality

\* Every state of the two heaps.
HeapInv == Pair(maxHeap, minHeap)

LEMMA HeapInit ==
  ASSUME HeapsInit
  PROVE  HeapInv
<1>1. ASSUME NEW isMin \in BOOLEAN
      PROVE  LET h == EmptyHeap(isMin)
             IN  Sound(h) /\ h.isMinHeap = isMin /\ DOMAIN h.index = {} /\ Len(h.items) = 0
  <2> DEFINE h == EmptyHeap(isMin)
             e == <<>>
  <2>1. h = [isMinHeap |-> isMin, items |-> e, index |-> e]
    BY DEF EmptyHeap
  <2>2. e \in Seq(Tx) /\ Len(e) = 0 /\ DOMAIN e = {} /\ e \in [{} -> Nat]
    OBVIOUS
  <2> HIDE DEF e
  <2>3. e \in Index
    BY <2>2 DEF Index
  <2>4. h \in Heaps
    BY <2>1, <2>2, <2>3 DEF Heaps
  <2>5. Ordered(h, Len(h.items))
    BY <2>1, <2>2 DEF Ordered
  <2> QED
    BY <2>1, <2>2, <2>4, <2>5 DEF Sound
<1>2. maxHeap = EmptyHeap(FALSE) /\ minHeap = EmptyHeap(TRUE)
  BY DEF HeapsInit
<1> DEFINE no == FALSE
           yes == TRUE
           a == EmptyHeap(no)
           b == EmptyHeap(yes)
<1>3. Sound(a) /\ a.isMinHeap = no /\ DOMAIN a.index = {} /\ Len(a.items) = 0
  BY <1>1
<1>4. Sound(b) /\ b.isMinHeap = yes /\ DOMAIN b.index = {} /\ Len(b.items) = 0
  BY <1>1
<1>5. a = maxHeap /\ b = minHeap
  BY <1>2
<1> HIDE DEF a, b
<1>6. ~a.isMinHeap /\ b.isMinHeap
  BY <1>3, <1>4
<1> QED
  BY <1>3, <1>4, <1>5, <1>6 DEF HeapInv, Pair

\* What Add makes of a transaction that the pool does not hold (mempool.go:56-81).
LEMMA AddNewEffect ==
  ASSUME HeapInv, NEW t \in Tx, HeapsAddNew(t)
  PROVE  HeapInv' /\ (Pool!AddWithRoom(t) \/ Pool!AddEvicting(t)) /\ UNCHANGED gossiped
<1> DEFINE D == DOMAIN maxHeap.index
           n == Len(maxHeap.items)
           x == Pushed(maxHeap, t, n + 1)
           y == Pushed(minHeap, t, n + 1)
           worst == y.items[1]
<1>1. t \notin D /\ UNCHANGED gossiped
  BY DEF HeapsAddNew, Has
<1>2. maxHeap \in Heaps /\ n \in Nat
  BY HeapParts DEF HeapInv, Pair, Sound
<1>3. Pair(x, y) /\ DOMAIN x.index = D \cup {t} /\ Len(x.items) = n + 1
  BY <1>1, PairPushed DEF HeapInv
<1>4. Pool!Full <=> n + 1 > MaxSize
  <2>1. Pool!Cardinality(D) = n
    BY <1>2, HeapCount, HeapsCount
  <2> QED
    BY <1>2, <2>1, MempoolAssumption DEF Pool!Full
<1>5. CASE Len(x.items) > MaxSize
  <2>1. /\ maxHeap' = RemovedFrom(x, worst)
        /\ minHeap' = RemovedFrom(y, worst)
        /\ IF worst = t THEN UNCHANGED <<newTxs, pending>> ELSE Pool!Announce(t)
    BY <1>5 DEF HeapsAddNew
  <2>2. worst \in D \cup {t} /\ \A u \in D \cup {t} : Price[worst] <= Price[u]
    <3>1. Sound(y) /\ Len(y.items) > 0 /\ y.isMinHeap /\ DOMAIN y.index = D \cup {t}
      BY <1>2, <1>3 DEF Pair
    <3> HIDE DEF y
    <3> QED
      BY <3>1, Roots
  <2>3. worst \in Pool!WorstPaying(D \cup {t})
    BY <2>2 DEF Pool!WorstPaying
  <2> HIDE DEF worst, x, y
  <2>4. HeapInv' /\ DOMAIN maxHeap'.index = (D \cup {t}) \ {worst}
    BY <1>3, <2>1, PairRemoved DEF HeapInv
  <2>5. Pool!Full
    BY <1>3, <1>4, <1>5
  <2>6. Pool!AddEvicting(t)
    BY <1>1, <2>1, <2>3, <2>4, <2>5 DEF Pool!AddEvicting
  <2> QED
    BY <1>1, <2>4, <2>6
<1>6. CASE ~(Len(x.items) > MaxSize)
  <2>1. maxHeap' = x /\ minHeap' = y /\ Pool!Announce(t)
    BY <1>6 DEF HeapsAddNew
  <2> HIDE DEF x, y
  <2>2. HeapInv' /\ DOMAIN maxHeap'.index = D \cup {t} /\ ~Pool!Full
    BY <1>3, <1>4, <1>6, <2>1 DEF HeapInv
  <2> QED
    BY <1>1, <2>1, <2>2 DEF Pool!AddWithRoom
<1> QED
  BY <1>5, <1>6

LEMMA RemoveEffect ==
  ASSUME HeapInv, NEW t, HeapsRemove(t)
  PROVE  HeapInv' /\ Pool!Remove(t) /\ UNCHANGED gossiped
<1>1. /\ maxHeap' = RemovedFrom(maxHeap, t) /\ minHeap' = RemovedFrom(minHeap, t)
      /\ UNCHANGED <<newTxs, pending, gossiped>>
  BY DEF HeapsRemove
<1>2. HeapInv' /\ DOMAIN maxHeap'.index = DOMAIN maxHeap.index \ {t}
  BY <1>1, PairRemoved DEF HeapInv
<1> QED
  BY <1>1, <1>2 DEF Pool!Remove

LEMMA HeapStep ==
  ASSUME HeapInv, [HeapsNext]_mempoolHeapVars
  PROVE  HeapInv' /\ [Pool!PoolNext]_(Pool!mempoolVars)
<1>1. ASSUME NEW t \in Tx, HeapsAddDuplicate(t) PROVE HeapInv' /\ [Pool!PoolNext]_(Pool!mempoolVars)
  BY <1>1 DEF HeapsAddDuplicate, mempoolHeapVars, HeapInv, Pool!mempoolVars
<1>2. ASSUME NEW t \in Tx, HeapsAddNew(t) PROVE HeapInv' /\ [Pool!PoolNext]_(Pool!mempoolVars)
  BY <1>2, AddNewEffect DEF Pool!PoolNext, Pool!Add
<1>3. ASSUME NEW t \in Tx, HeapsRemove(t) PROVE HeapInv' /\ [Pool!PoolNext]_(Pool!mempoolVars)
  BY <1>3, RemoveEffect DEF Pool!PoolNext
<1>4. CASE HeapsPopMax
  <2> DEFINE t == maxHeap.items[1]
  <2>1. HeapsRemove(t) /\ Len(maxHeap.items) > 0
    BY <1>4 DEF HeapsPopMax
  <2>2. t \in Tx /\ t \in Pool!BestPaying(DOMAIN maxHeap.index)
    BY <2>1, Roots DEF HeapInv, Pair, Pool!BestPaying
  <2> HIDE DEF t
  <2>3. HeapInv' /\ Pool!Remove(t) /\ UNCHANGED gossiped
    BY <2>1, RemoveEffect
  <2>4. Pool!PopMax(t)
    BY <2>2, <2>3 DEF Pool!PopMax, Pool!Remove
  <2> QED
    BY <2>2, <2>3, <2>4 DEF Pool!PoolNext
<1>5. CASE HeapsPopMin
  <2> DEFINE t == minHeap.items[1]
  <2>1. HeapsRemove(t) /\ Len(minHeap.items) > 0
    BY <1>5 DEF HeapsPopMin
  <2>2. t \in Tx /\ t \in Pool!WorstPaying(DOMAIN minHeap.index)
    BY <2>1, Roots DEF HeapInv, Pair, Pool!WorstPaying
  <2> HIDE DEF t
  <2>3. HeapInv' /\ Pool!Remove(t) /\ UNCHANGED gossiped
    BY <2>1, RemoveEffect
  <2>4. Pool!PopMin(t)
    BY <2>2, <2>3 DEF Pool!PopMin, Pool!Remove, HeapInv, Pair
  <2> QED
    BY <2>2, <2>3, <2>4 DEF Pool!PoolNext
<1>6. CASE HeapsNewTxs
  BY <1>6 DEF HeapsNewTxs, heapVars, HeapInv, Pool!PoolNext
<1>7. CASE HeapsReceivePending
  BY <1>7 DEF HeapsReceivePending, heapVars, HeapInv, Pool!PoolNext
<1>8. CASE UNCHANGED mempoolHeapVars
  BY <1>8 DEF mempoolHeapVars, HeapInv, Pool!mempoolVars
<1> QED
  BY <1>1, <1>2, <1>3, <1>4, <1>5, <1>6, <1>7, <1>8 DEF HeapsNext

LEMMA HeapInvariantHolds ==
  HeapsSpec => []HeapInv
<1>1. HeapsInit => HeapInv
  BY HeapInit
<1>2. HeapInv /\ [HeapsNext]_mempoolHeapVars => HeapInv'
  BY HeapStep
<1> QED
  BY <1>1, <1>2, PTL DEF HeapsSpec

\* For any number of transactions and whatever they pay: after any sequence of calls both
\* heaps hold the same transactions, every entry's index is its place, and no entry comes
\* before its parent; so remove (mempool.go:210) takes out what it was asked to.
THEOREM HeapsSound ==
  HeapsSpec => []HeapInvariant
<1>1. HeapInv => HeapInvariant
  <2> SUFFICES ASSUME HeapInv PROVE HeapInvariant
    OBVIOUS
  <2>1. DOMAIN maxHeap.index = DOMAIN minHeap.index
    BY DEF HeapInv, Pair
  <2>2. ASSUME NEW h \in {maxHeap, minHeap}
        PROVE  /\ {h.items[i] : i \in DOMAIN h.items} = DOMAIN h.index
               /\ Len(h.items) = Cardinality(DOMAIN h.index)
               /\ \A t \in DOMAIN h.index : h.items[h.index[t]] = t
               /\ \A i \in 2..Len(h.items) : ~Less(h, i, i \div 2)
    <3>1. h \in Heaps /\ Ordered(h, Len(h.items))
      BY DEF HeapInv, Pair, Sound
    <3>2. Len(h.items) = Cardinality(DOMAIN h.index)
      BY <3>1, HeapCount, HeapsCount
    <3>3. /\ {h.items[i] : i \in DOMAIN h.items} = DOMAIN h.index
          /\ \A t \in DOMAIN h.index : h.items[h.index[t]] = t
      <4>1. DOMAIN h.items = 1..Len(h.items)
        BY <3>1, HeapParts
      <4>2. \A i \in 1..Len(h.items) : h.items[i] \in DOMAIN h.index
        BY <3>1, HeapParts
      <4>3. \A t \in DOMAIN h.index : h.index[t] \in 1..Len(h.items) /\ h.items[h.index[t]] = t
        BY <3>1, HeapParts
      <4> QED
        BY <4>1, <4>2, <4>3
    <3>4. ASSUME NEW i \in 2..Len(h.items) PROVE ~Less(h, i, i \div 2)
      <4>1. Len(h.items) \in Nat
        BY <3>1, HeapParts
      <4>2. i \in 1..Len(h.items) /\ i \div 2 \in 1..Len(h.items)
        BY <4>1, Halves
      <4>3. Key(h, i \div 2) <= Key(h, i)
        BY <3>1 DEF Ordered
      <4> QED
        BY <3>1, <4>2, <4>3, KeyOrder
    <3> QED
      BY <3>2, <3>3, <3>4
  <2> QED
    BY <2>1, <2>2 DEF HeapInvariant, HeapsInSync, IndexesExact, HeapOrder
<1> QED
  BY <1>1, HeapInvariantHolds, PTL

\* The two heaps of mempool.go implement the pool of Mempool: every call does to the
\* transactions they hold what the abstract pool allows, PopMax takes a best paying one,
\* and an Add over the limit evicts a worst paying one.
THEOREM HeapsImplementPool ==
  HeapsSpec => ImplementsMempool
<1>1. HeapsInit => Pool!PoolInit
  <2> SUFFICES ASSUME HeapsInit PROVE Pool!PoolInit
    OBVIOUS
  <2>1. DOMAIN maxHeap.index = {}
    BY DEF HeapsInit, EmptyHeap
  <2> QED
    BY <2>1 DEF HeapsInit, Pool!PoolInit
<1>2. HeapInv /\ [HeapsNext]_mempoolHeapVars => [Pool!PoolNext]_(Pool!mempoolVars)
  BY HeapStep
<1> QED
  BY <1>1, <1>2, HeapInvariantHolds, PTL DEF HeapsSpec, Pool!PoolSpec, ImplementsMempool

-----------------------------------------------------------------------------
(* Block production.                                                        *)

\* A sequence that may have grown by one transaction is still a sequence of them.
LEMMA AppendOrNot ==
  ASSUME NEW s \in Seq(Tx), NEW t \in Tx, NEW u \in {s, Append(s, t)}
  PROVE  u \in Seq(Tx)
BY AppendProperties

\* What Add (mempool.go:44) leaves behind: nothing but t may be new in the pool, and if
\* the pool gained it, it is listed for gossip and the Pending channel is full.
LEMMA AddEffect ==
  ASSUME NEW t, M!Add(t)
  PROVE  /\ mempool' \subseteq mempool \cup {t}
         /\ \/ mempool' \subseteq mempool /\ UNCHANGED <<newTxs, pending>>
            \/ newTxs' = Append(newTxs, t) /\ pending' = 1
<1>1. CASE M!AddDuplicate(t)
  BY <1>1 DEF M!AddDuplicate, M!poolVars
<1>2. CASE M!AddWithRoom(t)
  BY <1>2 DEF M!AddWithRoom, M!Announce
<1>3. CASE M!AddEvicting(t)
  <2>1. PICK evicted \in M!WorstPaying(mempool \cup {t}) :
          /\ mempool' = (mempool \cup {t}) \ {evicted}
          /\ IF evicted = t THEN UNCHANGED <<newTxs, pending>> ELSE M!Announce(t)
    BY <1>3 DEF M!AddEvicting
  <2>2. CASE evicted = t
    BY <2>1, <2>2
  <2>3. CASE evicted # t
    BY <2>1, <2>3 DEF M!Announce
  <2> QED
    BY <2>2, <2>3
<1> QED
  BY <1>1, <1>2, <1>3 DEF M!Add

\* BuildBlock has something in hand whenever it puts it back (builder.go:60).
ReAddsSomething == pcE = "readd" => next \in Tx

StatusInv == TypeOK /\ ReAddsSomething /\ OneRequest /\ NoLostWakeup

\* The steps that add to the pool keep the types and wake the builder.
LEMMA AddKeepsStatus ==
  ASSUME StatusInv, NEW t \in Tx, M!Add(t),
         UNCHANGED <<statusVars, pcB, gossipVars, lifeVars>>,
         UNCHANGED stale, next' \in {next, NoTx},
         UNCHANGED blockTxs, unusable' \in Seq(Tx), processing' \subseteq Tx,
         \/ UNCHANGED pcE
         \/ pcE = "readd" /\ pcE' = "verify",
         pcE' = "readd" => UNCHANGED next
  PROVE  StatusInv'
<1> USE DEF StatusInv, statusVars, gossipVars, lifeVars
<1>1. TypeOK'
  <2>1. /\ mempool' \subseteq Tx
        /\ \/ UNCHANGED <<newTxs, pending>>
           \/ newTxs' = Append(newTxs, t) /\ pending' = 1
    BY AddEffect DEF TypeOK
  <2>2. newTxs \in Seq(Tx) /\ pending \in 0..1
    BY DEF TypeOK
  <2>3. newTxs' \in Seq(Tx) /\ pending' \in 0..1
    <3>1. CASE UNCHANGED <<newTxs, pending>>
      BY <2>2, <3>1
    <3>2. CASE newTxs' = Append(newTxs, t) /\ pending' = 1
      BY <2>2, <3>2, AppendProperties
    <3> QED
      BY <2>1, <3>1, <3>2
  <2>4. pcE' \in {"idle", "prune", "loop", "pop", "readd", "verify", "restore", "handle",
                  "issue", "shutdown", "closed"}
    BY DEF TypeOK
  <2> QED
    BY <2>1, <2>3, <2>4 DEF TypeOK
<1>2. NoLostWakeup'
  BY AddEffect DEF NoLostWakeup
<1>3. OneRequest'
  BY DEF OneRequest, BuildRunning, B
<1> QED
  BY <1>1, <1>2, <1>3 DEF ReAddsSomething

\* The inductive invariant behind StatusExact.
LEMMA StatusInvariant == Spec => []StatusInv
<1>1. Init => StatusInv
  <2> SUFFICES ASSUME Init PROVE StatusInv
    OBVIOUS
  <2>1. TypeOK
    <3>1. newTxs \in Seq(Tx) /\ blockTxs \in Seq(Tx) /\ unusable \in Seq(Tx) /\ batch \in Seq(Tx)
      BY DEF Init
    <3>2. stopping \in BOOLEAN /\ crashed \in BOOLEAN
      BY DEF Init
    <3> QED
      BY <3>1, <3>2 DEF Init, TypeOK
  <2>2. ReAddsSomething /\ OneRequest /\ NoLostWakeup
    BY DEF Init, ReAddsSomething, OneRequest, NoLostWakeup, B, BuildRunning
  <2> QED
    BY <2>1, <2>2 DEF StatusInv
<1>2. StatusInv /\ [Next]_vars => StatusInv'
  <2> SUFFICES ASSUME StatusInv, [Next]_vars
               PROVE  StatusInv'
    OBVIOUS
  <2> USE DEF StatusInv, TypeOK, ReAddsSomething, OneRequest, NoLostWakeup, B, BuildRunning
  <2> USE DEF sharedVars, statusVars, engineVars, gossipVars, lifeVars
  <2>1. ASSUME NEW t \in Tx, Submit(t) PROVE StatusInv'
    BY <2>1, AddKeepsStatus DEF Submit
  <2>2. ASSUME NEW t \in Tx, VerifyPeerTx(t) PROVE StatusInv'
    BY <2>2 DEF VerifyPeerTx, M!Remove
  <2>3. ASSUME NEW t \in Tx, AcceptTx(t) PROVE StatusInv'
    BY <2>3 DEF AcceptTx
  <2>4. ASSUME NEW t \in Tx, RejectTx(t) PROVE StatusInv'
    BY <2>4, AddKeepsStatus DEF RejectTx
  <2>5. CASE EngineReceive
    BY <2>5 DEF EngineReceive
  <2>6. CASE StartBuild
    BY <2>6 DEF StartBuild
  <2>7. CASE StartBuildFails
    BY <2>7 DEF StartBuildFails
  <2>8. CASE PruneOne
    BY <2>8 DEF PruneOne, M!Remove
  <2>9. CASE PruneDone
    BY <2>9 DEF PruneDone
  <2>10. CASE BuildLoop
    BY <2>10 DEF BuildLoop
  <2>11. CASE BuildPop
    <3>1. PICK t \in Tx : M!PopMax(t) /\ Examine(t)
      BY <2>11 DEF BuildPop
    <3>2. mempool' \subseteq mempool /\ UNCHANGED <<newTxs, pending>>
      BY <3>1 DEF M!PopMax
    <3>3. blockTxs' \in Seq(Tx) /\ unusable' \in Seq(Tx)
      <4>1. /\ blockTxs' \in {blockTxs, Append(blockTxs, t)}
            /\ unusable' \in {unusable, Append(unusable, t)}
        BY <3>1 DEF Examine
      <4> QED
        BY <4>1, AppendOrNot
    <3>4. /\ pcE' \in {"loop", "readd"} /\ next' \in Tx \cup {NoTx}
          /\ pcE' = "readd" => next' \in Tx
      BY <3>1 DEF Examine
    <3> QED
      BY <2>11, <3>2, <3>3, <3>4 DEF BuildPop
  <2>12. CASE BuildPopPanics \/ RegossipPopPanics
    BY <2>12 DEF BuildPopPanics, RegossipPopPanics
  <2>13. CASE BuildReAdd
    BY <2>13, AddKeepsStatus, ProductionAssumption DEF BuildReAdd
  <2>14. CASE BuildVerify
    BY <2>14, EmptySeq DEF BuildVerify
  <2>15. CASE BuildRestore
    <3>1. CASE unusable # <<>>
      <4>1. Head(unusable) \in Tx /\ Tail(unusable) \in Seq(Tx)
        BY <3>1
      <4> QED
        BY <2>15, <3>1, <4>1, AddKeepsStatus DEF BuildRestore
    <3>2. CASE unusable = <<>>
      BY <2>15, <3>2 DEF BuildRestore
    <3> QED
      BY <3>1, <3>2
  <2>16. CASE HandleGenerateBlock
    BY <2>16 DEF HandleGenerateBlock
  <2>17. CASE IssueBlock
    BY <2>17 DEF IssueBlock, Range
  <2>18. CASE BuildReceive
    BY <2>18 DEF BuildReceive, M!ReceivePending
  <2>19. CASE SignalTxsReady
    BY <2>19 DEF SignalTxsReady, MarkBuilding
  <2>20. CASE BuildExit
    BY <2>20 DEF BuildExit
  <2>21. CASE GossipTick
    <3>1. PICK i \in 1..(Len(newTxs) + 1) : M!NewTxsUpTo(i)
      BY <2>21 DEF GossipTick
    <3>2. newTxs' \in Seq(Tx)
      BY <3>1, SubSeqProperties DEF M!NewTxsUpTo
    <3> QED
      BY <2>21, <3>1, <3>2 DEF GossipTick, M!NewTxsUpTo
  <2>22. CASE RegossipTick
    BY <2>22 DEF RegossipTick
  <2>23. CASE RegossipCheck
    BY <2>23, EmptySeq DEF RegossipCheck
  <2>24. CASE RegossipPop
    <3>1. PICK t \in Tx : M!PopMax(t) /\ batch' = Append(batch, t)
      BY <2>24 DEF RegossipPop
    <3>2. mempool' \subseteq mempool /\ batch' \in Seq(Tx) /\ UNCHANGED <<newTxs, pending>>
      BY <3>1 DEF M!PopMax
    <3> QED
      BY <2>24, <3>2 DEF RegossipPop
  <2>25. CASE GossipExit
    BY <2>25 DEF GossipExit
  <2>26. CASE Shutdown
    BY <2>26 DEF Shutdown
  <2>27. CASE ShutdownDone
    BY <2>27 DEF ShutdownDone
  <2>28. CASE UNCHANGED vars
    BY <2>28 DEF vars
  <2> QED
    BY <2>1, <2>2, <2>3, <2>4, <2>5, <2>6, <2>7, <2>8, <2>9, <2>10, <2>11, <2>12, <2>13,
       <2>14, <2>15, <2>16, <2>17, <2>18, <2>19, <2>20, <2>21, <2>22, <2>23, <2>24, <2>25,
       <2>26, <2>27, <2>28 DEF Next, BuildBlockStep, RegossipStep
<1> QED
  BY <1>1, <1>2, PTL DEF Spec

\* The builder's status tells the truth about the engine and no wakeup is lost
\* (block_builder.go:55, 108), however many transactions there are and however the
\* engine, the two goroutines and the callers of the mempool interleave.
THEOREM StatusIsExact == Spec => []StatusExact
<1>1. StatusInv => StatusExact
  BY DEF StatusInv, StatusExact
<1> QED
  BY <1>1, StatusInvariant, PTL

-----------------------------------------------------------------------------
(* What BuildBlock holds.                                                    *)

Distinct(s) == \A i, j \in 1..Len(s) : s[i] = s[j] => i = j

\* A sequence without repetitions has as many elements as entries.
LEMMA DistinctCounts ==
  ASSUME NEW s \in Seq(Tx), Distinct(s)
  PROVE  Cardinality(Range(s)) = Len(s)
<1>1. IsFiniteSet(1..Len(s)) /\ Cardinality(1..Len(s)) = Len(s)
  <2>1. Len(s) \in Nat /\ 1 \in Int /\ Len(s) \in Int
    OBVIOUS
  <2>2. /\ IsFiniteSet(1..Len(s))
        /\ Cardinality(1..Len(s)) = IF 1 > Len(s) THEN 0 ELSE Len(s) - 1 + 1
    BY <2>1, FS_Interval
  <2> QED
    BY <2>1, <2>2
<1>2. s \in [1..Len(s) -> Range(s)]
  BY DEF Range
<1>3. ExistsBijection(1..Len(s), Range(s))
  <2>1. s \in Injection(1..Len(s), Range(s))
    BY <1>2 DEF Distinct, Injection, IsInjective
  <2>2. s \in Surjection(1..Len(s), Range(s))
    BY <1>2 DEF Surjection, Range
  <2> QED
    BY <2>1, <2>2 DEF ExistsBijection, Bijection
<1> QED
  BY <1>1, <1>3, FS_Bijection

LEMMA DistinctAppend ==
  ASSUME NEW s \in Seq(Tx), NEW t \in Tx, Distinct(s), t \notin Range(s)
  PROVE  Distinct(Append(s, t)) /\ Range(Append(s, t)) = Range(s) \cup {t}
<1>1. /\ Append(s, t) \in Seq(Tx) /\ Len(Append(s, t)) = Len(s) + 1
      /\ \A i \in 1..Len(s) : Append(s, t)[i] = s[i]
      /\ Append(s, t)[Len(s) + 1] = t
  BY AppendProperties
<1>2. DOMAIN Append(s, t) = 1..(Len(s) + 1) /\ DOMAIN s = 1..Len(s)
  BY <1>1
<1>3. Range(Append(s, t)) = Range(s) \cup {t}
  BY <1>1, <1>2 DEF Range
<1>4. Distinct(Append(s, t))
  BY <1>1, <1>2 DEF Distinct, Range
<1> QED
  BY <1>3, <1>4

LEMMA DistinctTail ==
  ASSUME NEW s \in Seq(Tx), Distinct(s), s # <<>>
  PROVE  /\ Distinct(Tail(s)) /\ Range(s) = Range(Tail(s)) \cup {Head(s)}
         /\ Head(s) \notin Range(Tail(s))
<1>1. /\ Tail(s) \in Seq(Tx) /\ Len(Tail(s)) = Len(s) - 1 /\ Len(s) \in Nat \ {0}
      /\ \A i \in 1..(Len(s) - 1) : Tail(s)[i] = s[i + 1]
      /\ Head(s) = s[1]
  BY HeadTailProperties
<1>2. DOMAIN Tail(s) = 1..(Len(s) - 1) /\ DOMAIN s = 1..Len(s)
  BY <1>1
<1>3. \A i \in 2..Len(s) : i - 1 \in 1..(Len(s) - 1) /\ s[i] = Tail(s)[i - 1]
  BY <1>1
<1>4. Range(s) = Range(Tail(s)) \cup {Head(s)}
  <2>1. ASSUME NEW i \in 1..Len(s) PROVE s[i] \in Range(Tail(s)) \cup {Head(s)}
    <3>1. i = 1 \/ i \in 2..Len(s)
      BY <1>1
    <3> QED
      BY <1>1, <1>2, <1>3, <3>1 DEF Range
  <2>2. ASSUME NEW i \in 1..(Len(s) - 1) PROVE Tail(s)[i] \in Range(s)
    BY <1>1, <1>2 DEF Range
  <2>3. Head(s) \in Range(s)
    BY <1>1, <1>2 DEF Range
  <2> QED
    BY <1>2, <2>1, <2>2, <2>3 DEF Range
<1>5. Distinct(Tail(s))
  BY <1>1, <1>2 DEF Distinct
<1>6. Head(s) \notin Range(Tail(s))
  BY <1>1, <1>2 DEF Distinct, Range
<1> QED
  BY <1>4, <1>5, <1>6

LEMMA DistinctConcat ==
  ASSUME NEW s \in Seq(Tx), NEW u \in Seq(Tx), Distinct(s), Distinct(u),
         Range(s) \cap Range(u) = {}
  PROVE  Distinct(s \o u) /\ Range(s \o u) = Range(s) \cup Range(u) /\ s \o u \in Seq(Tx)
<1>1. /\ s \o u \in Seq(Tx) /\ Len(s \o u) = Len(s) + Len(u)
      /\ \A i \in 1..(Len(s) + Len(u)) :
            (s \o u)[i] = IF i <= Len(s) THEN s[i] ELSE u[i - Len(s)]
  BY ConcatProperties
<1>2. DOMAIN (s \o u) = 1..(Len(s) + Len(u)) /\ DOMAIN s = 1..Len(s) /\ DOMAIN u = 1..Len(u)
  BY <1>1
<1>3. Range(s \o u) = Range(s) \cup Range(u)
  BY RangeConcatenation
<1>4. Distinct(s \o u)
  <2> SUFFICES ASSUME NEW i \in 1..(Len(s) + Len(u)), NEW j \in 1..(Len(s) + Len(u)),
                      (s \o u)[i] = (s \o u)[j]
               PROVE  i = j
    BY <1>1 DEF Distinct
  <2>1. \A k \in 1..(Len(s) + Len(u)) :
          \/ k \in 1..Len(s) /\ (s \o u)[k] = s[k] /\ s[k] \in Range(s)
          \/ k - Len(s) \in 1..Len(u) /\ (s \o u)[k] = u[k - Len(s)] /\ u[k - Len(s)] \in Range(u)
    BY <1>1, <1>2 DEF Range
  <2>2. CASE i \in 1..Len(s) /\ j \in 1..Len(s) /\ s[i] = s[j]
    BY <2>2 DEF Distinct
  <2>3. CASE i - Len(s) \in 1..Len(u) /\ j - Len(s) \in 1..Len(u) /\ u[i - Len(s)] = u[j - Len(s)]
    <3>1. i - Len(s) = j - Len(s)
      BY <2>3 DEF Distinct
    <3> QED
      BY <3>1
  <2> QED
    BY <2>1, <2>2, <2>3
<1> QED
  BY <1>1, <1>3, <1>4

\* A transaction that BuildBlock took from the pool is in one place of it at a time, and
\* between two builds BuildBlock holds none.
HeldInv ==
    /\ Distinct(blockTxs) /\ Distinct(unusable)
    /\ Range(blockTxs) \cap Range(unusable) = {}
    /\ mempool \cap (Range(blockTxs) \cup Range(unusable)) = {}
    /\ IF pcE = "readd"
       THEN next \notin mempool \cup Range(blockTxs) \cup Range(unusable)
       ELSE next = NoTx
    /\ pcE \in {"handle", "issue"} => unusable = <<>>
    /\ pcE \in {"idle", "prune", "shutdown", "closed"} => blockTxs = <<>> /\ unusable = <<>>

LEMMA HeldInvariant == Spec => []HeldInv
<1>0. Distinct(<<>>) /\ Range(<<>>) = {}
  BY DEF Distinct, Range
<1>1. Init => HeldInv
  BY <1>0 DEF Init, HeldInv
<1>2. StatusInv /\ HeldInv /\ [Next]_vars => HeldInv'
  <2> SUFFICES ASSUME StatusInv, HeldInv, [Next]_vars
               PROVE  HeldInv'
    OBVIOUS
  <2> USE DEF sharedVars, statusVars, engineVars, gossipVars, lifeVars
  <2>0. /\ blockTxs \in Seq(Tx) /\ unusable \in Seq(Tx) /\ mempool \subseteq Tx
        /\ pcE = "readd" => next \in Tx
    BY DEF StatusInv, TypeOK, ReAddsSomething
  <2>1. ASSUME NEW t \in Tx, Submit(t) \/ RejectTx(t) PROVE HeldInv'
    <3>1. mempool' \subseteq mempool \cup {t} /\ pcE = "idle" /\ UNCHANGED <<pcE, blockTxs, unusable, next>>
      BY <2>1, AddEffect DEF Submit, RejectTx
    <3> QED
      BY <1>0, <3>1 DEF HeldInv
  <2>2. ASSUME mempool' \subseteq mempool, UNCHANGED <<pcE, blockTxs, unusable, next>> PROVE HeldInv'
    BY <2>2 DEF HeldInv
  <2>3. ASSUME NEW t \in Tx, VerifyPeerTx(t) \/ AcceptTx(t) PROVE HeldInv'
    BY <2>2, <2>3 DEF VerifyPeerTx, AcceptTx, M!Remove
  <2>4. CASE EngineReceive \/ PruneOne \/ BuildPopPanics
    BY <2>2, <2>4 DEF EngineReceive, PruneOne, M!Remove, BuildPopPanics
  <2>5. CASE StartBuild \/ StartBuildFails \/ PruneDone \/ BuildLoop
    BY <2>5 DEF StartBuild, StartBuildFails, PruneDone, BuildLoop, HeldInv
  <2>6. CASE BuildPop
    <3>1. PICK t \in Tx : M!PopMax(t) /\ Examine(t)
      BY <2>6 DEF BuildPop
    <3>2. t \in mempool /\ mempool' = mempool \ {t} /\ pcE = "pop"
      BY <2>6, <3>1 DEF BuildPop, M!PopMax, M!BestPaying
    <3>3. t \notin Range(blockTxs) /\ t \notin Range(unusable) /\ next = NoTx
      BY <3>2 DEF HeldInv
    <3>4. /\ Distinct(Append(blockTxs, t)) /\ Range(Append(blockTxs, t)) = Range(blockTxs) \cup {t}
          /\ Distinct(Append(unusable, t)) /\ Range(Append(unusable, t)) = Range(unusable) \cup {t}
      BY <2>0, <3>3, DistinctAppend DEF HeldInv
    <3>5. \/ next' = t /\ pcE' = "readd" /\ UNCHANGED <<blockTxs, unusable>>
          \/ /\ pcE' = "loop" /\ next' = NoTx
             /\ \/ unusable' = Append(unusable, t) /\ UNCHANGED blockTxs
                \/ blockTxs' \in {blockTxs, Append(blockTxs, t)} /\ UNCHANGED unusable
      BY <3>1, <3>3 DEF Examine
    <3> QED
      BY <3>2, <3>3, <3>4, <3>5 DEF HeldInv
  <2>7. CASE BuildReAdd
    <3>1. mempool' \subseteq mempool \cup {next} /\ next' = NoTx /\ pcE = "readd" /\ pcE' = "verify"
          /\ UNCHANGED <<blockTxs, unusable>>
      BY <2>7, AddEffect DEF BuildReAdd
    <3> QED
      BY <3>1 DEF HeldInv
  <2>8. CASE BuildVerify
    BY <1>0, <2>8 DEF BuildVerify, HeldInv
  <2>9. CASE BuildRestore
    <3>1. CASE unusable # <<>>
      <4>1. /\ mempool' \subseteq mempool \cup {Head(unusable)} /\ unusable' = Tail(unusable)
            /\ UNCHANGED <<pcE, blockTxs, next>> /\ pcE = "restore"
        BY <2>9, <3>1, AddEffect DEF BuildRestore
      <4>2. /\ Distinct(Tail(unusable)) /\ Range(unusable) = Range(Tail(unusable)) \cup {Head(unusable)}
            /\ Head(unusable) \notin Range(Tail(unusable))
        BY <2>0, <3>1, DistinctTail DEF HeldInv
      <4> QED
        BY <4>1, <4>2 DEF HeldInv
    <3>2. CASE unusable = <<>>
      BY <2>9, <3>2 DEF BuildRestore, HeldInv
    <3> QED
      BY <3>1, <3>2
  <2>10. CASE HandleGenerateBlock
    BY <2>10 DEF HandleGenerateBlock, HeldInv
  <2>11. CASE IssueBlock
    BY <1>0, <2>11 DEF IssueBlock, HeldInv
  <2>12. CASE BuildReceive \/ SignalTxsReady \/ BuildExit
    BY <2>2, <2>12 DEF BuildReceive, M!ReceivePending, SignalTxsReady, BuildExit
  <2>13. CASE GossipTick \/ RegossipTick \/ RegossipStep \/ GossipExit
    BY <2>2, <2>13 DEF GossipTick, M!NewTxsUpTo, RegossipTick, RegossipStep, RegossipCheck,
                       RegossipPop, M!PopMax, RegossipPopPanics, GossipExit
  <2>14. CASE Shutdown \/ ShutdownDone
    BY <2>14 DEF Shutdown, ShutdownDone, HeldInv
  <2>15. CASE UNCHANGED vars
    BY <2>2, <2>15 DEF vars
  <2> QED
    BY <2>1, <2>3, <2>4, <2>5, <2>6, <2>7, <2>8, <2>9, <2>10, <2>11, <2>12, <2>13, <2>14, <2>15
    DEF Next, BuildBlockStep
<1> QED
  BY <1>1, <1>2, StatusInvariant, PTL DEF Spec

\* BuildBlock (builder.go:45) never holds a transaction twice, and the pool never has one
\* that the block under construction has, however the gossip goroutine empties the pool
\* in between.
THEOREM HoldsEachOnce == Spec => []HeldOnce
<1>1. StatusInv /\ HeldInv => HeldOnce
  <2> SUFFICES ASSUME StatusInv, HeldInv PROVE HeldOnce
    OBVIOUS
  <2> DEFINE nextSeq == IF next = NoTx THEN <<>> ELSE <<next>>
             held == blockTxs \o unusable \o nextSeq
  <2>1. /\ blockTxs \in Seq(Tx) /\ unusable \in Seq(Tx) /\ next \in Tx \cup {NoTx}
        /\ Distinct(blockTxs) /\ Distinct(unusable) /\ Range(blockTxs) \cap Range(unusable) = {}
    BY DEF StatusInv, TypeOK, HeldInv
  <2>2. /\ Distinct(blockTxs \o unusable) /\ blockTxs \o unusable \in Seq(Tx)
        /\ Range(blockTxs \o unusable) = Range(blockTxs) \cup Range(unusable)
    BY <2>1, DistinctConcat
  <2>3. nextSeq \in Seq(Tx) /\ Distinct(nextSeq) /\ Range(nextSeq) = {next} \ {NoTx}
    BY <2>1 DEF Distinct, Range
  <2>4. next # NoTx => next \notin mempool \cup Range(blockTxs) \cup Range(unusable)
    BY DEF HeldInv
  <2>5. Distinct(held) /\ held \in Seq(Tx)
        /\ Range(held) = Range(blockTxs) \cup Range(unusable) \cup ({next} \ {NoTx})
    <3> HIDE DEF nextSeq
    <3>1. Range(blockTxs \o unusable) \cap Range(nextSeq) = {}
      BY <2>2, <2>3, <2>4
    <3> DEFINE both == blockTxs \o unusable
    <3>2. both \in Seq(Tx) /\ Distinct(both) /\ Range(both) \cap Range(nextSeq) = {}
      BY <2>2, <3>1
    <3> HIDE DEF both
    <3>3. /\ Distinct(both \o nextSeq) /\ both \o nextSeq \in Seq(Tx)
          /\ Range(both \o nextSeq) = Range(both) \cup Range(nextSeq)
      BY <2>3, <3>2, DistinctConcat
    <3> QED
      BY <2>2, <2>3, <3>3 DEF both
  <2> HIDE DEF held
  <2>6. Cardinality(Range(held)) = Len(held)
    BY <2>5, DistinctCounts
  <2>7. mempool \cap Range(held) = {}
    BY <2>4, <2>5 DEF HeldInv
  <2> QED
    BY <2>6, <2>7 DEF HeldOnce, held
<1> QED
  BY <1>1, StatusInvariant, HeldInvariant, PTL
-----------------------------------------------------------------------------
(* The timer of the builder.                                                *)

\* What a call of the handler rests on: a cancelled request leaves shouldExecute
\* (timer.go:50) down, and only a later request puts it up again; once Dispatch has
\* decided to call, only a Cancel, which then overtakes the call, cancels what it was for.
TimerInv ==
    /\ TimerTypeOK
    /\ cancelled <= last
    /\ shouldExecute => cancelled < last
    /\ pcD = "handler" => cancelled < last \/ overtaken

LEMMA TimerInvariant == TimerSpec => []TimerInv
<1> USE TimerAssumption
<1>1. TimerInit => TimerInv
  <2> SUFFICES ASSUME TimerInit PROVE TimerInv
    OBVIOUS
  <2>1. /\ finished \in BOOLEAN /\ ~shouldExecute /\ shouldExecute \in BOOLEAN
        /\ owed \in BOOLEAN /\ overtaken \in BOOLEAN
    BY Zenon DEF TimerInit
  <2>2. TimerTypeOK /\ cancelled <= last
    BY <2>1 DEF TimerInit, TimerTypeOK, Request
  <2>3. pcD # "handler"
    BY DEF TimerInit
  <2> QED
    BY <2>1, <2>2, <2>3 DEF TimerInv
<1>2. TimerInv /\ [TimerNext]_timerVars => TimerInv'
  <2> SUFFICES ASSUME TimerInv, [TimerNext]_timerVars
               PROVE  TimerInv'
    OBVIOUS
  <2> USE DEF TimerInv, TimerTypeOK, Request
  <2>1. CASE SetTimeoutIn
    BY <2>1 DEF SetTimeoutIn, Reset
  <2>2. CASE Cancel
    <3>1. /\ ~shouldExecute' /\ shouldExecute' \in BOOLEAN
          /\ owed' \in BOOLEAN /\ overtaken' \in BOOLEAN
      BY <2>2, Zenon DEF Cancel
    <3>2. TimerTypeOK' /\ cancelled' <= last'
      BY <2>2, <3>1 DEF Cancel, Reset
    <3>3. pcD' = "handler" => overtaken'
      BY <2>2, Zenon DEF Cancel
    <3> QED
      BY <3>1, <3>2, <3>3
  <2>3. CASE Stop
    BY <2>3 DEF Stop, Reset, clientVars, historyVars
  <2>4. CASE StopReturns
    BY <2>4 DEF StopReturns, clientVars, historyVars
  <2>5. CASE Expire
    BY <2>5 DEF Expire, clientVars, historyVars
  <2>6. CASE DispatchStart \/ ReceiveToken \/ ReceiveTick
    BY <2>6 DEF DispatchStart, ReceiveToken, ReceiveTick, clientVars, historyVars
  <2>7. CASE LockAfterToken
    BY <2>7 DEF LockAfterToken, clientVars, historyVars
  <2>8. CASE LockAfterTick
    BY <2>8 DEF LockAfterTick, clientVars
  <2>9. ASSUME NEW repeat \in BOOLEAN, repeat => last < MaxRequests, CallHandler(repeat)
        PROVE  TimerInv'
    <3>1. overtaken' \in BOOLEAN
      BY <2>9, Zenon DEF CallHandler
    <3>2. CASE repeat
      <4>1. last' = last + 1 /\ token' = 1 /\ shouldExecute' /\ shouldExecute' \in BOOLEAN /\ owed' \in BOOLEAN
        BY <2>9, <3>2, Zenon DEF CallHandler, Reset
      <4>2. last < MaxRequests /\ pcD' = "select" /\ UNCHANGED <<finished, armed, tick, pcS, cancelled, cancels>>
        BY <2>9, <3>2 DEF CallHandler
      <4> QED
        BY <3>1, <4>1, <4>2
    <3>3. CASE ~repeat
      <4>1. UNCHANGED <<last, shouldExecute, token, owed>>
        BY <2>9, <3>3, Zenon DEF CallHandler
      <4> QED
        BY <2>9, <3>1, <4>1 DEF CallHandler
    <3> QED
      BY <3>2, <3>3
  <2>10. CASE UNCHANGED timerVars
    BY <2>10 DEF timerVars, clientVars, historyVars
  <2> QED
    BY <2>1, <2>2, <2>3, <2>4, <2>5, <2>6, <2>7, <2>8, <2>9, <2>10 DEF TimerNext, Dispatch
<1> QED
  BY <1>1, <1>2, PTL DEF TimerSpec

\* However requests, cancellations, expiries and Stop interleave with Dispatch, the
\* timeout channel holds one token at most and every program counter is one of its own.
THEOREM TimerTypeCorrect == TimerSpec => []TimerTypeOK
<1>1. TimerInv => TimerTypeOK
  BY DEF TimerInv
<1> QED
  BY <1>1, TimerInvariant, PTL

\* For any number of requests: the handler is called with every request cancelled only
\* if the latest Cancel came after Dispatch had unlocked to make that call
\* (timer.go:81-82); a deadline that passes later, or that Dispatch had received but
\* not acted upon when the Cancel came, calls no handler.
THEOREM CancelledTimerStaysQuiet == TimerSpec => CancelledStaysQuiet
<1>1. TimerInv /\ [TimerNext]_timerVars =>
        [(\E repeat \in BOOLEAN : CallHandler(repeat)) /\ last = cancelled => overtaken]_timerVars
  <2> SUFFICES ASSUME TimerInv, NEW repeat \in BOOLEAN, CallHandler(repeat), last = cancelled
               PROVE  overtaken
    OBVIOUS
  <2>1. pcD = "handler" /\ ~ cancelled < last
    BY DEF CallHandler, TimerInv, TimerTypeOK, Request
  <2> QED
    BY <2>1, Zenon DEF TimerInv
<1> QED
  BY <1>1, TimerInvariant, PTL DEF TimerSpec, CancelledStaysQuiet
=============================================================================
