----------------------------- MODULE ValuesProofs -----------------------------
(***************************************************************************)
(* Proofs about Values: for every set of clients, files and pieces, what is *)
(* stored by value, by transaction and by block agrees, the transaction     *)
(* recorded for a value stays, and a root that Upload has returned gives    *)
(* the file back.                                                           *)
(***************************************************************************)
EXTENDS Values, SequenceTheorems, TLAPS

-----------------------------------------------------------------------------
(* The store.                                                               *)

\* Transactions are records of which the value is a field.
IsTx(t) == t = [value |-> t.value, by |-> t.by, block |-> t.block]

TxsGood == \A t \in pool \cup next : IsTx(t)

\* A value on the chain has a transaction that set it, linked to it.
MetaLinked == \A v \in DOMAIN meta : meta[v] \in DOMAIN linked /\ meta[v].value = v

LinkedGood == \A t \in DOMAIN linked : IsTx(t) /\ linked[t] = t.value /\ t.value \in DOMAIN meta

\* Blocks are written stripped of values that are all linked.
BlocksLinked ==
    /\ stored \in Seq(Range(stored)) /\ blocks \in Seq(Range(blocks))
    /\ Len(stored) = Len(blocks)
    /\ \A i \in 1..Len(blocks) : blocks[i] \subseteq DOMAIN linked /\ stored[i] = Stripped(blocks[i])

\* What has been verified sets values that are not on the chain.
NextIsNew == \A t \in next : t.value \notin DOMAIN meta

StoreInv == TxsGood /\ MetaLinked /\ LinkedGood /\ BlocksLinked /\ NextIsNew

LEMMA StoreInit == Init => StoreInv
BY DEF Init, StoreInv, TxsGood, MetaLinked, LinkedGood, BlocksLinked, NextIsNew, Range

\* A block with transactions of next is written.
LEMMA CommitStores ==
    ASSUME StoreInv, NEW txs, txs \subseteq next, Commit(txs), next' = {},
           \A t \in pool' : t \in pool \cup next
    PROVE  StoreInv'
<1> USE DEF StoreInv
<1>1. \A t \in txs : IsTx(t) /\ t.value \notin DOMAIN meta
  BY DEF TxsGood, NextIsNew
<1>2. /\ DOMAIN meta' = DOMAIN meta \cup {t.value : t \in txs}
      /\ DOMAIN linked' = DOMAIN linked \cup txs
  BY DEF Commit, PutKeys, LinkValues
<1>3. MetaLinked'
  <2> SUFFICES ASSUME NEW v \in DOMAIN meta'
               PROVE  meta'[v] \in DOMAIN linked' /\ meta'[v].value = v
    BY DEF MetaLinked
  <2>1. CASE \E t \in txs : t.value = v
    <3>1. meta'[v] = CHOOSE t \in txs : t.value = v
      BY <2>1 DEF Commit, PutKeys
    <3>2. meta'[v] \in txs /\ meta'[v].value = v
      BY <2>1, <3>1
    <3> QED BY <3>2, <1>2
  <2>2. CASE ~ \E t \in txs : t.value = v
    <3>1. v \in DOMAIN meta /\ meta'[v] = meta[v]
      BY <2>2, <1>2 DEF Commit, PutKeys
    <3> QED BY <3>1, <1>2 DEF MetaLinked
  <2> QED BY <2>1, <2>2
<1>4. LinkedGood'
  <2> SUFFICES ASSUME NEW t \in DOMAIN linked'
               PROVE  IsTx(t) /\ linked'[t] = t.value /\ t.value \in DOMAIN meta'
    BY DEF LinkedGood
  <2>1. CASE t \in txs
    BY <2>1, <1>1, <1>2 DEF Commit, LinkValues
  <2>2. CASE t \notin txs
    <3>1. t \in DOMAIN linked /\ linked'[t] = linked[t]
      BY <2>2, <1>2 DEF Commit, LinkValues
    <3> QED BY <3>1, <1>2 DEF LinkedGood
  <2> QED BY <2>1, <2>2
<1>5. BlocksLinked'
  <2> DEFINE s == Stripped(txs)
  <2>1. stored' = Append(stored, s) /\ blocks' = Append(blocks, txs)
    BY DEF Commit
  <2> HIDE DEF s
  <2>2. /\ stored \in Seq(Range(stored) \cup {s}) /\ blocks \in Seq(Range(blocks) \cup {txs})
    BY DEF BlocksLinked
  <2>3. /\ Len(stored') = Len(stored) + 1 /\ Len(blocks') = Len(blocks) + 1
        /\ Len(stored) \in Nat /\ Len(blocks) = Len(stored)
        /\ stored' \in Seq(Range(stored) \cup {s}) /\ blocks' \in Seq(Range(blocks) \cup {txs})
    BY <2>1, <2>2 DEF BlocksLinked
  <2>4. \A i \in 1..Len(blocks') :
            \/ i \in 1..Len(blocks) /\ blocks'[i] = blocks[i] /\ stored'[i] = stored[i]
            \/ blocks'[i] = txs /\ stored'[i] = s
    BY <2>1, <2>2, <2>3
  <2>5. \A i \in 1..Len(blocks') : blocks'[i] \subseteq DOMAIN linked' /\ stored'[i] = Stripped(blocks'[i])
    BY <2>4, <1>2 DEF BlocksLinked, s
  <2>6. stored' \in Seq(Range(stored')) /\ blocks' \in Seq(Range(blocks'))
    BY <2>3, SeqOfRange
  <2> QED BY <2>3, <2>5, <2>6 DEF BlocksLinked
<1>6. TxsGood' /\ NextIsNew'
  BY DEF TxsGood, NextIsNew
<1> QED BY <1>3, <1>4, <1>5, <1>6

\* A transaction that a client sends is a record.
LEMMA SendsTx ==
    ASSUME NEW c \in Client, NEW v, NEW pc, Send(c, v, pc), StoreInv
    PROVE  StoreInv'
<1> DEFINE tx == [value |-> v, by |-> c, block |-> Len(blocks)]
<1>1. IsTx(tx)
  BY DEF IsTx
<1>2. \/ pool' = pool \cup {tx} /\ UNCHANGED <<meta, linked, stored, blocks, next>>
      \/ UNCHANGED <<meta, linked, stored, blocks, next, pool>>
  BY DEF Send, nodeVars
<1> HIDE DEF tx
<1> QED
  BY <1>1, <1>2 DEF StoreInv, TxsGood, MetaLinked, LinkedGood, BlocksLinked, NextIsNew

LEMMA StoreStep == StoreInv /\ [Next]_vars => StoreInv'
<1> SUFFICES ASSUME StoreInv, [Next]_vars PROVE StoreInv'
  OBVIOUS
<1> USE DEF StoreInv
<1>0. ASSUME UNCHANGED nodeVars PROVE StoreInv'
  BY <1>0 DEF nodeVars, TxsGood, MetaLinked, LinkedGood, BlocksLinked, NextIsNew
<1>1. CASE BuildBlock
  BY <1>1 DEF BuildBlock, Execute, TxsGood, MetaLinked, LinkedGood, BlocksLinked, NextIsNew
<1>2. CASE BuildNothing
  BY <1>2 DEF BuildNothing, TxsGood, MetaLinked, LinkedGood, BlocksLinked, NextIsNew
<1>3. CASE Accept
  BY <1>3, CommitStores DEF Accept
<1>4. CASE Reject
  BY <1>4, CommitStores DEF Reject
<1>5. CASE Restart
  BY <1>5 DEF Restart, TxsGood, MetaLinked, LinkedGood, BlocksLinked, NextIsNew
<1>6. ASSUME NEW c \in Client, ReadChunk(c) PROVE StoreInv'
  BY <1>6, <1>0, SendsTx DEF ReadChunk
<1>7. ASSUME NEW c \in Client, SendRoot(c) PROVE StoreInv'
  BY <1>7, SendsTx DEF SendRoot
<1>8. ASSUME NEW c \in Client, Poll(c) \/ GiveUp(c) \/ \E f \in Files[c] : Begin(c, f) PROVE StoreInv'
  BY <1>8, <1>0 DEF Poll, GiveUp, Begin
<1>9. CASE UNCHANGED vars
  BY <1>9, <1>0 DEF vars
<1> QED BY <1>1, <1>2, <1>3, <1>4, <1>5, <1>6, <1>7, <1>8, <1>9 DEF Next

\* What is on the chain stays there, and so does the transaction it was set by.
LEMMA MetaKept ==
    ASSUME StoreInv, [Next]_vars
    PROVE  /\ \A v \in DOMAIN meta : v \in DOMAIN meta' /\ meta'[v] = meta[v]
           /\ \A t \in DOMAIN linked : t \in DOMAIN linked'
<1>1. ASSUME NEW txs, txs \subseteq next, Commit(txs)
      PROVE  /\ \A v \in DOMAIN meta : v \in DOMAIN meta' /\ meta'[v] = meta[v]
             /\ \A t \in DOMAIN linked : t \in DOMAIN linked'
  <2>1. \A t \in txs : t.value \notin DOMAIN meta
    BY <1>1 DEF StoreInv, NextIsNew
  <2> QED BY <1>1, <2>1 DEF Commit, PutKeys, LinkValues
<1>2. CASE Accept
  BY <1>1, <1>2 DEF Accept
<1>3. CASE Reject
  BY <1>1, <1>3 DEF Reject
<1>4. CASE UNCHANGED <<meta, linked>>
  BY <1>4
<1>5. Accept \/ Reject \/ UNCHANGED <<meta, linked>>
  BY DEF Next, vars, nodeVars, BuildBlock, BuildNothing, Restart, Begin, ReadChunk, SendRoot,
         Send, Poll, GiveUp
<1> QED BY <1>2, <1>3, <1>4, <1>5

\* The transaction recorded for a value stays, however many clients set it again
\* (KeyKept): only verified transactions are written, and these set new values.
THEOREM KeysAreKept == Spec => KeyKept
<1> DEFINE Kept == \A v \in DOMAIN meta : v \in DOMAIN meta' /\ meta'[v] = meta[v]
<1>1. StoreInv /\ [Next]_vars => [Kept]_vars
  BY MetaKept
<1> QED BY <1>1, StoreInit, StoreStep, PTL DEF Spec, KeyKept

-----------------------------------------------------------------------------
(* The uploads.                                                             *)

IsSmall(u) == Len(u.file) = 1 /\ u.file[1] \in Short

\* The contents of the root of a file.
RootContents(u) == IF IsSmall(u) THEN u.file ELSE IF u.file = <<>> THEN <<Blank>> ELSE <<>>

IsUpload(u) ==
    u \in [pc : {u.pc}, file : {u.file}, at : {u.at}, hashes : {u.hashes}, tries : {u.tries}, tx : {u.tx}]

UploadType(u, tries) ==
    /\ IsUpload(u)
    /\ u.pc \in {"idle", "reading", "waiting", "root", "done", "failed"}
    /\ u.file \in Seq(Range(u.file)) /\ u.hashes \in Seq(Range(u.hashes))
    /\ u.at \in 1..Len(u.file) + 1 /\ Len(u.hashes) = u.at - 1
    /\ u.tries \in 0..tries

\* The chunks passed so far are on the chain, known being the values there.
Passed(u, known) ==
    \A i \in 1..Len(u.hashes) : u.hashes[i] = Chunk(u.file[i]) /\ u.hashes[i] \in known

\* What is waited for is the next chunk, or the root of all of them.
Awaited(u) ==
    /\ u.pc = "waiting" => u.at <= Len(u.file) /\ ~IsSmall(u) /\ u.tx[1].value = Chunk(u.file[u.at])
    /\ u.pc \in {"root", "done"} =>
         /\ u.at > Len(u.file) \/ IsSmall(u)
         /\ u.tx[1].value = Root(RootContents(u), u.hashes)
    /\ IsSmall(u) => u.at = 1

\* A root that was returned is on the chain.
Returned(u, known) == u.pc = "done" => u.tx[1].value \in known

UploadGood(u, tries, known) ==
    UploadType(u, tries) /\ Passed(u, known) /\ Awaited(u) /\ Returned(u, known)

UpInv ==
    /\ up = [c \in Client |-> up[c]]
    /\ \A c \in Client : UploadGood(up[c], MaxTries[c], DOMAIN meta)

LEMMA UpInit == Init => UpInv
<1> SUFFICES ASSUME Init, NEW c \in Client PROVE UploadGood(Idle, MaxTries[c], DOMAIN meta)
  BY DEF Init, UpInv
<1>1. UploadType(Idle, MaxTries[c])
  BY ValuesAssumption DEF UploadType, IsUpload, Idle, Range
<1>2. Passed(Idle, DOMAIN meta) /\ Awaited(Idle) /\ Returned(Idle, DOMAIN meta)
  BY DEF Passed, Awaited, Returned, Idle, IsSmall
<1> QED BY <1>1, <1>2 DEF UploadGood

\* Uploads do not suffer from values that are added.
LEMMA KnownGrows ==
    ASSUME NEW u, NEW tries, NEW known, NEW more, UploadGood(u, tries, known), known \subseteq more
    PROVE  UploadGood(u, tries, more)
BY DEF UploadGood, Passed, Returned

\* An upload that fails, from wherever it is, or returns a root that is stored.
LEMMA UploadEnds ==
    ASSUME NEW u, NEW tries, NEW known, NEW pc \in {"failed", "done"}, UploadGood(u, tries, known),
           pc = "done" => u.pc = "root" /\ u.tx[1].value \in known
    PROVE  UploadGood([u EXCEPT !.pc = pc], tries, known)
<1> DEFINE w == [u EXCEPT !.pc = pc]
<1>1. /\ w.pc = pc /\ w.file = u.file /\ w.at = u.at /\ w.hashes = u.hashes /\ w.tries = u.tries
      /\ w.tx = u.tx /\ IsUpload(w)
  BY DEF UploadGood, UploadType, IsUpload
<1> HIDE DEF w
<1>2. UploadType(w, tries)
  BY <1>1 DEF UploadGood, UploadType
<1>3. Passed(w, known) /\ Awaited(w) /\ Returned(w, known)
  BY <1>1 DEF UploadGood, Passed, Awaited, Returned, IsSmall, RootContents
<1> QED BY <1>2, <1>3 DEF UploadGood, w

\* An upload goes on to the next chunk, when this one is on the chain.
LEMMA UploadAdvances ==
    ASSUME NEW u, NEW tries, NEW known, UploadGood(u, tries, known), u.at <= Len(u.file), ~IsSmall(u),
           Chunk(u.file[u.at]) \in known, NEW w, IsUpload(w),
           w.pc = "reading", w.file = u.file, w.at = u.at + 1, w.tries = u.tries,
           w.hashes = Append(u.hashes, Chunk(u.file[u.at]))
    PROVE  UploadGood(w, tries, known)
<1> DEFINE v == Chunk(u.file[u.at])
<1> HIDE DEF v
<1>0. w.hashes = Append(u.hashes, v) /\ v \in known
  BY DEF v
<1>1. u.hashes \in Seq(Range(u.hashes) \cup {v})
  BY DEF UploadGood, UploadType
<1>2. /\ w.hashes \in Seq(Range(u.hashes) \cup {v}) /\ Len(w.hashes) = Len(u.hashes) + 1
      /\ Len(u.hashes) \in Nat
      /\ w.hashes[Len(u.hashes) + 1] = v
      /\ \A i \in 1..Len(u.hashes) : w.hashes[i] = u.hashes[i]
  BY <1>0, <1>1
<1>3. w.hashes \in Seq(Range(w.hashes))
  BY <1>2, SeqOfRange
<1>4. /\ u.at \in 1..Len(u.file) + 1 /\ Len(u.file) \in Nat /\ Len(u.hashes) = u.at - 1
      /\ u.tries \in 0..tries /\ u.file \in Seq(Range(u.file))
  BY DEF UploadGood, UploadType
<1>5. UploadType(w, tries)
  BY <1>2, <1>3, <1>4 DEF UploadType
<1>6. Passed(w, known)
  BY <1>0, <1>2, <1>4 DEF Passed, UploadGood, v
<1>7. Awaited(w) /\ Returned(w, known)
  BY DEF Awaited, Returned, IsSmall
<1> QED BY <1>5, <1>6, <1>7 DEF UploadGood

\* An upload waits for a transaction that it has sent.
LEMMA UploadWaits ==
    ASSUME NEW u, NEW tries, NEW known, NEW pc \in {"waiting", "root"}, NEW tx,
           UploadGood(u, tries, known), u.pc = "reading",
           pc = "waiting" => u.at <= Len(u.file) /\ ~IsSmall(u) /\ tx.value = Chunk(u.file[u.at]),
           pc = "root" => /\ u.at > Len(u.file) \/ IsSmall(u)
                          /\ tx.value = Root(RootContents(u), u.hashes)
    PROVE  UploadGood([u EXCEPT !.pc = pc, !.tx = <<tx>>], tries, known)
<1> DEFINE held == <<tx>>
           w == [u EXCEPT !.pc = pc, !.tx = held]
<1>3. held[1] = tx
  OBVIOUS
<1> HIDE DEF held
<1>1. /\ w.pc = pc /\ w.file = u.file /\ w.at = u.at /\ w.hashes = u.hashes /\ w.tries = u.tries
      /\ w.tx = held /\ IsUpload(w)
  BY DEF UploadGood, UploadType, IsUpload
<1> HIDE DEF w
<1>2. UploadType(w, tries)
  BY <1>1 DEF UploadGood, UploadType
<1>4. Passed(w, known) /\ Awaited(w) /\ Returned(w, known)
  BY <1>1, <1>3 DEF UploadGood, Passed, Awaited, Returned, IsSmall, RootContents
<1> QED BY <1>2, <1>4 DEF UploadGood, w, held

LEMMA UploadBegins ==
    ASSUME NEW c \in Client, NEW f \in Files[c], Begin(c, f), UpInv
    PROVE  UploadGood(up'[c], MaxTries[c], DOMAIN meta)
<1>1. /\ up'[c].pc = "reading" /\ up'[c].file = f /\ up'[c].at = 1 /\ up'[c].hashes = <<>>
      /\ up'[c].tries = up[c].tries + 1 /\ IsUpload(up'[c])
  BY DEF Begin, UpInv, Idle, IsUpload
<1>2. up[c].tries \in 0..MaxTries[c] /\ up[c].tries < MaxTries[c] /\ MaxTries[c] \in Nat
  BY ValuesAssumption DEF UpInv, UploadGood, UploadType, Begin
<1>3. f \in Seq(Range(f))
  BY ValuesAssumption
<1>4. up'[c].hashes \in Seq(Range(up'[c].hashes)) /\ Len(up'[c].hashes) = 0
  BY <1>1 DEF Range
<1>5. UploadType(up'[c], MaxTries[c])
  BY <1>1, <1>2, <1>3, <1>4 DEF UploadType
<1>6. Passed(up'[c], DOMAIN meta) /\ Awaited(up'[c]) /\ Returned(up'[c], DOMAIN meta)
  BY <1>1, <1>4 DEF Passed, Awaited, Returned
<1> QED BY <1>5, <1>6 DEF UploadGood

\* Sending leaves the upload waiting, or failed.
LEMMA UploadSends ==
    ASSUME NEW c \in Client, NEW v, NEW pc \in {"waiting", "root"}, Send(c, v, pc), UpInv,
           up[c].pc = "reading",
           pc = "waiting" => /\ up[c].at <= Len(up[c].file) /\ ~IsSmall(up[c])
                             /\ v = Chunk(up[c].file[up[c].at]),
           pc = "root" => /\ up[c].at > Len(up[c].file) \/ IsSmall(up[c])
                          /\ v = Root(RootContents(up[c]), up[c].hashes)
    PROVE  /\ UploadGood(up'[c], MaxTries[c], DOMAIN meta)
           /\ \E u : up' = [up EXCEPT ![c] = u]
<1> DEFINE tx == [value |-> v, by |-> c, block |-> Len(blocks)]
           u == up[c]
<1>1. up = [d \in Client |-> up[d]] /\ UploadGood(u, MaxTries[c], DOMAIN meta)
  BY DEF UpInv
<1>2. tx.value = v
  OBVIOUS
<1>3. \/ up' = [up EXCEPT ![c] = [u EXCEPT !.pc = pc, !.tx = <<tx>>]]
      \/ up' = [up EXCEPT ![c] = [u EXCEPT !.pc = "failed"]]
  <2>1. CASE up' = [up EXCEPT ![c].pc = pc, ![c].tx = <<tx>>]
    <3> DEFINE held == <<tx>>
    <3>1. up' = [up EXCEPT ![c].pc = pc, ![c].tx = held]
      BY <2>1
    <3> HIDE DEF held, tx
    <3>2. up' = [up EXCEPT ![c] = [u EXCEPT !.pc = pc, !.tx = held]]
      BY <1>1, <3>1
    <3> QED BY <3>2 DEF held
  <2>2. CASE up' = [up EXCEPT ![c].pc = "failed"]
    BY <2>2
  <2> QED BY <2>1, <2>2 DEF Send
<1> HIDE DEF tx, u
<1>4. CASE up' = [up EXCEPT ![c] = [u EXCEPT !.pc = pc, !.tx = <<tx>>]]
  <2> DEFINE w == [u EXCEPT !.pc = pc, !.tx = <<tx>>]
  <2>1. UploadGood(w, MaxTries[c], DOMAIN meta)
    BY <1>1, <1>2, UploadWaits DEF u
  <2>2. up' = [up EXCEPT ![c] = w]
    BY <1>4
  <2> HIDE DEF w
  <2> QED BY <1>1, <2>1, <2>2
<1>5. CASE up' = [up EXCEPT ![c] = [u EXCEPT !.pc = "failed"]]
  <2> DEFINE w == [u EXCEPT !.pc = "failed"]
  <2>1. UploadGood(w, MaxTries[c], DOMAIN meta)
    BY <1>1, UploadEnds
  <2>2. up' = [up EXCEPT ![c] = w]
    BY <1>5
  <2> HIDE DEF w
  <2> QED BY <1>1, <2>1, <2>2
<1> QED BY <1>3, <1>4, <1>5

\* The step of one client keeps its upload good.
LEMMA ClientStep ==
    ASSUME StoreInv, UpInv, NEW c \in Client,
           (\E f \in Files[c] : Begin(c, f)) \/ ReadChunk(c) \/ SendRoot(c) \/ Poll(c) \/ GiveUp(c)
    PROVE  /\ UploadGood(up'[c], MaxTries[c], DOMAIN meta)
           /\ \E u : up' = [up EXCEPT ![c] = u]
<1> DEFINE u == up[c]
           v == Chunk(u.file[u.at])
           next_u == [u EXCEPT !.pc = "reading", !.at = u.at + 1, !.hashes = Append(u.hashes, v)]
<1>1. up = [d \in Client |-> up[d]] /\ UploadGood(u, MaxTries[c], DOMAIN meta)
  BY DEF UpInv
<1>2. IsUpload(u) /\ Small(c) = IsSmall(u)
  BY <1>1 DEF UploadGood, UploadType, Small, IsSmall
<1>3. ASSUME u.at <= Len(u.file), ~IsSmall(u), v \in DOMAIN meta, up' = [up EXCEPT ![c] = next_u]
      PROVE  /\ UploadGood(up'[c], MaxTries[c], DOMAIN meta)
             /\ \E w : up' = [up EXCEPT ![c] = w]
  <2> DEFINE w == next_u
             hs == Append(u.hashes, v)
  <2>1. u.at <= Len(u.file) /\ ~IsSmall(u) /\ Chunk(u.file[u.at]) \in DOMAIN meta
    BY <1>3
  <2>2. hs = Append(u.hashes, Chunk(u.file[u.at]))
    OBVIOUS
  <2>3. w = [u EXCEPT !.pc = "reading", !.at = u.at + 1, !.hashes = hs]
    OBVIOUS
  <2>4. up' = [up EXCEPT ![c] = w]
    BY <1>3
  <2> HIDE DEF w, hs, u, v
  <2>5. /\ w.pc = "reading" /\ w.file = u.file /\ w.at = u.at + 1 /\ w.tries = u.tries /\ w.hashes = hs
        /\ IsUpload(w)
    BY <1>2, <2>3 DEF IsUpload
  <2>6. UploadGood(w, MaxTries[c], DOMAIN meta)
    BY <1>1, <2>1, <2>2, <2>5, UploadAdvances
  <2> QED BY <1>1, <2>4, <2>6
<1>4. CASE \E f \in Files[c] : Begin(c, f)
  BY <1>4, UploadBegins DEF Begin
<1>5. CASE ReadChunk(c)
  <2>1. u.pc = "reading" /\ u.at <= Len(u.file) /\ ~IsSmall(u)
    BY <1>2, <1>5 DEF ReadChunk
  <2>2. CASE v \in Range(u.hashes) \/ Resolve(v) # <<>>
    <3>1. v \in DOMAIN meta
      <4>1. ASSUME v \in Range(u.hashes) PROVE v \in DOMAIN meta
        <5>1. u.hashes \in Seq(Range(u.hashes)) /\ Passed(u, DOMAIN meta)
          BY <1>1 DEF UploadGood, UploadType
        <5>2. DOMAIN u.hashes = 1..Len(u.hashes)
          BY <5>1, LenProperties
        <5> HIDE DEF v, u
        <5> QED BY <4>1, <5>1, <5>2 DEF Range, Passed
      <4>2. ASSUME Resolve(v) # <<>> PROVE v \in DOMAIN meta
        BY <4>2 DEF Resolve
      <4> QED BY <2>2, <4>1, <4>2
    <3>2. up' = [up EXCEPT ![c].at = u.at + 1, ![c].hashes = Append(@, v)]
      BY <1>5, <2>2 DEF ReadChunk
    <3>3. up' = [up EXCEPT ![c] = next_u]
      <4> DEFINE hs == Append(u.hashes, v)
      <4>1. up' = [up EXCEPT ![c].at = u.at + 1, ![c].hashes = hs]
        BY <3>2, <1>1
      <4> HIDE DEF hs, v
      <4>2. up' = [up EXCEPT ![c] = [u EXCEPT !.pc = "reading", !.at = u.at + 1, !.hashes = hs]]
        BY <1>1, <1>2, <2>1, <4>1 DEF IsUpload
      <4> QED BY <4>2 DEF hs
    <3> QED BY <1>3, <2>1, <3>1, <3>3
  <2>3. CASE ~(v \in Range(u.hashes) \/ Resolve(v) # <<>>)
    <3>1. Send(c, v, "waiting")
      BY <1>5, <2>3 DEF ReadChunk
    <3> QED BY <2>1, <3>1, UploadSends
  <2> QED BY <2>2, <2>3
<1>6. CASE SendRoot(c)
  <2>1. /\ u.at > Len(u.file) \/ IsSmall(u)
        /\ u.pc = "reading" /\ Send(c, Root(RootContents(u), u.hashes), "root")
    BY <1>2, <1>6 DEF SendRoot, RootContents
  <2> QED BY <2>1, UploadSends
<1>7. CASE Poll(c)
  <2>1. u.tx[1].value \in DOMAIN meta
    <3>1. PICK i \in DOMAIN blocks : u.tx[1] \in blocks[i]
      BY <1>7 DEF Poll, Confirmed, Range
    <3>2. i \in 1..Len(blocks)
      BY LenProperties DEF StoreInv, BlocksLinked
    <3>3. u.tx[1] \in DOMAIN linked
      BY <3>1, <3>2 DEF StoreInv, BlocksLinked
    <3> QED BY <3>3 DEF StoreInv, LinkedGood
  <2>2. CASE u.pc = "root"
    <3> DEFINE w == [u EXCEPT !.pc = "done"]
    <3>1. UploadGood(w, MaxTries[c], DOMAIN meta)
      BY <1>1, <2>1, <2>2, UploadEnds
    <3>2. up' = [up EXCEPT ![c] = w]
      BY <1>1, <1>7, <2>2 DEF Poll
    <3> HIDE DEF w
    <3> QED BY <1>1, <3>1, <3>2
  <2>3. CASE u.pc = "waiting"
    <3>1. u.at <= Len(u.file) /\ ~IsSmall(u) /\ u.tx[1].value = v
      BY <1>1, <2>3 DEF UploadGood, Awaited
    <3>2. up' = [up EXCEPT ![c] = next_u]
      <4> DEFINE hs == Append(u.hashes, v)
      <4>1. up' = [up EXCEPT ![c].pc = "reading", ![c].at = @ + 1, ![c].hashes = Append(@, u.tx[1].value)]
        BY <1>7, <2>3 DEF Poll
      <4>2. up' = [up EXCEPT ![c].pc = "reading", ![c].at = u.at + 1, ![c].hashes = hs]
        BY <1>1, <1>2, <3>1, <4>1 DEF IsUpload
      <4> HIDE DEF hs, v
      <4>3. up' = [up EXCEPT ![c] = [u EXCEPT !.pc = "reading", !.at = u.at + 1, !.hashes = hs]]
        BY <1>1, <1>2, <4>2 DEF IsUpload
      <4> QED BY <4>3 DEF hs
    <3> QED BY <1>3, <2>1, <3>1, <3>2
  <2> QED BY <1>7, <2>2, <2>3 DEF Poll
<1>8. CASE GiveUp(c)
  <2> DEFINE w == [u EXCEPT !.pc = "failed"]
  <2>1. UploadGood(w, MaxTries[c], DOMAIN meta)
    BY <1>1, UploadEnds
  <2>2. up' = [up EXCEPT ![c] = w]
    BY <1>1, <1>8 DEF GiveUp
  <2> HIDE DEF w
  <2> QED BY <1>1, <2>1, <2>2
<1> QED BY <1>4, <1>5, <1>6, <1>7, <1>8

LEMMA UpStep == StoreInv /\ UpInv /\ [Next]_vars => UpInv'
<1> SUFFICES ASSUME StoreInv, UpInv, [Next]_vars PROVE UpInv'
  OBVIOUS
<1>1. DOMAIN meta \subseteq DOMAIN meta'
  BY MetaKept
<1>2. CASE UNCHANGED up
  BY <1>1, <1>2, KnownGrows DEF UpInv
<1>3. ASSUME NEW c \in Client,
             (\E f \in Files[c] : Begin(c, f)) \/ ReadChunk(c) \/ SendRoot(c) \/ Poll(c) \/ GiveUp(c)
      PROVE  UpInv'
  <2>1. UploadGood(up'[c], MaxTries[c], DOMAIN meta)
    BY <1>3, ClientStep
  <2>2. PICK u : up' = [up EXCEPT ![c] = u]
    BY <1>3, ClientStep
  <2>3. \A d \in Client : UploadGood(up'[d], MaxTries[d], DOMAIN meta) /\ up' = [e \in Client |-> up'[e]]
    BY <2>1, <2>2 DEF UpInv
  <2> QED BY <1>1, <2>3, KnownGrows DEF UpInv
<1>4. UNCHANGED up \/ \E c \in Client :
        (\E f \in Files[c] : Begin(c, f)) \/ ReadChunk(c) \/ SendRoot(c) \/ Poll(c) \/ GiveUp(c)
  BY DEF Next, vars, BuildBlock, BuildNothing, Accept, Reject, Restart
<1> QED BY <1>2, <1>3, <1>4

-----------------------------------------------------------------------------
\* What a value on the chain resolves to is that value.
LEMMA Resolves == ASSUME StoreInv, NEW v \in DOMAIN meta PROVE Resolve(v) = <<v>>
<1>1. meta[v] \in DOMAIN linked /\ linked[meta[v]] = v
  BY DEF StoreInv, MetaLinked, LinkedGood
<1> QED BY <1>1 DEF Resolve

LEMMA ChunkContents == ASSUME NEW p PROVE Chunk(p).contents[1] = p
<1> DEFINE one == <<p>>
           none == <<>>
<1>1. one[1] = p
  OBVIOUS
<1>2. Chunk(p) = [root |-> FALSE, contents |-> one, children |-> none]
  BY DEF Chunk
<1> HIDE DEF one, none
<1>3. Chunk(p).contents = one
  BY <1>2
<1> QED BY <1>1, <1>3

LEMMA RestoredBlocks == StoreInv => BlocksRestored
<1> SUFFICES ASSUME StoreInv, NEW i \in DOMAIN blocks
             PROVE  /\ \A t \in stored[i] : t.id \in DOMAIN linked
                    /\ GetBlock(stored[i]) = blocks[i]
  BY DEF BlocksRestored
<1>1. i \in 1..Len(blocks)
  BY LenProperties DEF StoreInv, BlocksLinked
<1>2. blocks[i] \subseteq DOMAIN linked /\ stored[i] = {[id |-> t] : t \in blocks[i]}
  BY <1>1 DEF StoreInv, BlocksLinked, Stripped
<1>3. \A t \in DOMAIN linked : [t EXCEPT !.value = linked[t]] = t
  BY DEF StoreInv, LinkedGood, IsTx
<1> DEFINE Back(t) == [t EXCEPT !.value = linked[t]]
<1>4. \A t \in blocks[i] : Back(t) = t
  BY <1>2, <1>3
<1>5. GetBlock(stored[i]) = {Back(s.id) : s \in stored[i]}
  BY DEF GetBlock
<1> HIDE DEF Back
<1>6. \A s \in stored[i] : s.id \in blocks[i] /\ Back(s.id) = s.id
  BY <1>2, <1>4
<1>7. \A t \in blocks[i] : [id |-> t] \in stored[i] /\ [id |-> t].id = t
  BY <1>2
<1>8. ASSUME NEW t \in blocks[i] PROVE t \in GetBlock(stored[i])
  <2>1. PICK s \in stored[i] : s.id = t
    BY <1>7
  <2> QED BY <1>5, <1>6, <2>1
<1>9. ASSUME NEW t \in GetBlock(stored[i]) PROVE t \in blocks[i]
  BY <1>5, <1>6
<1> QED BY <1>2, <1>6, <1>8, <1>9

\* What is stored by value, by transaction and by block agrees, and a block that is read
\* back is the block that was verified (StoreRight): linked transactions are never
\* changed, and every transaction of a stored block is linked.
THEOREM StoreIsRight == Spec => []StoreRight
<1>1. StoreInv /\ UpInv => StoreRight
  <2> SUFFICES ASSUME StoreInv, UpInv PROVE StoreRight
    OBVIOUS
  <2>1. \A v \in DOMAIN meta : meta[v].value = v
    BY DEF StoreInv, MetaLinked
  <2>2. Len(stored) = Len(blocks)
    BY DEF StoreInv, BlocksLinked
  <2>3. ASSUME NEW c \in Client
        PROVE  /\ up[c].pc \in {"idle", "reading", "waiting", "root", "done", "failed"}
               /\ up[c].at \in 1..Len(up[c].file) + 1 /\ up[c].tries \in 0..MaxTries[c]
               /\ Len(up[c].hashes) < up[c].at
    <3>1. UploadType(up[c], MaxTries[c])
      BY DEF UpInv, UploadGood
    <3>2. Len(up[c].hashes) \in Nat /\ Len(up[c].file) \in Nat
      BY <3>1, LenProperties DEF UploadType
    <3> QED BY <3>1, <3>2 DEF UploadType
  <2> QED BY <2>1, <2>2, <2>3, RestoredBlocks DEF StoreRight, TypeOK
<1> QED BY <1>1, StoreInit, StoreStep, UpInit, UpStep, PTL DEF Spec

\* A root that Upload has returned gives the file back (UploadWhole): the chunks passed
\* were on the chain when they were passed, by whomever they were set, and what is on the
\* chain stays and resolves to itself.
THEOREM UploadsAreWhole == Spec => []UploadWhole
<1>1. StoreInv /\ UpInv => UploadWhole
  <2> SUFFICES ASSUME StoreInv, UpInv, NEW c \in Client, up[c].pc = "done"
               PROVE  Download(up[c].tx[1].value) =
                          <<IF up[c].file = <<>> THEN <<Blank>> ELSE up[c].file>>
    BY DEF UploadWhole
  <2> DEFINE u == up[c]
             root == u.tx[1].value
  <2>1. /\ UploadType(u, MaxTries[c]) /\ Passed(u, DOMAIN meta)
        /\ root = Root(RootContents(u), u.hashes) /\ root \in DOMAIN meta
        /\ u.at > Len(u.file) \/ IsSmall(u)
        /\ IsSmall(u) => u.at = 1
    BY DEF UpInv, UploadGood, Awaited, Returned
  <2>2. Resolve(root) = <<root>>
    BY <2>1, Resolves
  <2>3. root.contents = RootContents(u) /\ root.children = u.hashes
    BY <2>1 DEF Root
  <2>4. u.file \in Seq(Range(u.file)) /\ u.hashes \in Seq(Range(u.hashes))
    BY <2>1 DEF UploadType
  <2> HIDE DEF u, root
  <2>5. Resolve(root) # <<>> /\ Resolve(root)[1] = root
    BY <2>2
  <2>6. CASE RootContents(u) # <<>>
    <3>1. Download(root) = <<RootContents(u)>>
      BY <2>3, <2>5, <2>6 DEF Download
    <3>2. RootContents(u) = IF u.file = <<>> THEN <<Blank>> ELSE u.file
      BY <2>4, <2>6 DEF RootContents, IsSmall
    <3> QED BY <3>1, <3>2 DEF u, root
  <2>7. CASE RootContents(u) = <<>>
    <3>1. ~IsSmall(u) /\ u.file # <<>>
      BY <2>4, <2>7 DEF RootContents, IsSmall
    <3>2. /\ Len(u.hashes) = Len(u.file) /\ DOMAIN u.hashes = 1..Len(u.file)
          /\ u.file = [i \in 1..Len(u.file) |-> u.file[i]]
      BY <2>1, <2>4, <3>1, LenProperties DEF UploadType
    <3>3. \A i \in 1..Len(u.file) : u.hashes[i] = Chunk(u.file[i]) /\ u.hashes[i] \in DOMAIN meta
      BY <2>1, <3>2 DEF Passed
    <3>4. ASSUME NEW i \in 1..Len(u.file)
          PROVE  /\ Resolve(u.hashes[i]) # <<>>
                 /\ Resolve(u.hashes[i])[1].contents[1] = u.file[i]
      <4>1. Resolve(u.hashes[i]) = <<u.hashes[i]>>
        BY <3>3, Resolves
      <4>2. u.hashes[i].contents[1] = u.file[i]
        <5>1. u.hashes[i] = Chunk(u.file[i])
          BY <3>3
        <5> QED BY <5>1, ChunkContents
      <4> QED BY <4>1, <4>2
    <3>5. Download(root) = <<[i \in DOMAIN u.hashes |-> Resolve(u.hashes[i])[1].contents[1]]>>
      BY <2>3, <2>5, <2>7, <3>2, <3>4 DEF Download
    <3>6. [i \in DOMAIN u.hashes |-> Resolve(u.hashes[i])[1].contents[1]] = u.file
      BY <3>2, <3>4
    <3> QED BY <3>1, <3>5, <3>6 DEF u, root
  <2> QED BY <2>6, <2>7
<1> QED BY <1>1, StoreInit, StoreStep, UpInit, UpStep, PTL DEF Spec
=============================================================================
