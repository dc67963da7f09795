-------------------------------- MODULE Values --------------------------------
(***************************************************************************)
(* Values and files.  A SetTx stores a value under its hash, once.  When a  *)
(* block is verified its values are taken out of the transactions and       *)
(* written under the transactions' ids (linkValues); a block that is read   *)
(* back gets them again (restoreValues).  A file is uploaded as the values  *)
(* of its chunks, each waited for before the next, and a root that lists    *)
(* them or, when the file is smaller than a chunk, contains it (tree.go).   *)
(*                                                                          *)
(* A piece is what a Read of the file returns; Short pieces are smaller     *)
(* than a chunk and come last, as reading a file on disk does.  A value is  *)
(* its own hash.  One block at a time is verified and not yet accepted.     *)
(***************************************************************************)
EXTENDS Integers, Sequences, FiniteSets, SequencesExt

CONSTANTS
    Client,
    Files,          \* Client -> the files it uploads, sequences of pieces
    Short,          \* the pieces smaller than a chunk
    Blank,          \* a chunk of zeros, as the buffer of Upload starts
    MaxTries,       \* bound: Client -> uploads it may begin
    MaxRestarts     \* bound: restarts of the node

ASSUME ValuesAssumption ==
    /\ \A c \in Client : \A f \in Files[c] :
         f \in Seq(Range(f)) /\ \A i \in DOMAIN f : f[i] \in Short => i = Len(f)
    /\ MaxTries \in [Client -> Nat] /\ MaxRestarts \in Nat

VARIABLES
    meta,           \* vm.db: the value's key -> the transaction that set it
    linked,         \* vm.db: transaction id -> value
    stored,         \* vm.db: the accepted blocks as written, their values taken out
    blocks,         \* history: the accepted blocks as they were verified
    next,           \* the transactions of the verified block, or {}
    pool,           \* the mempool
    up,             \* the uploads
    restarts

nodeVars == <<meta, linked, stored, blocks, next, pool, restarts>>
vars == <<nodeVars, up>>

-----------------------------------------------------------------------------
Chunk(p) == [root |-> FALSE, contents |-> <<p>>, children |-> <<>>]

\* What Upload wraps up at its end.
Root(contents, children) == [root |-> TRUE, contents |-> contents, children |-> children]

Idle == [pc |-> "idle", file |-> <<>>, at |-> 1, hashes |-> <<>>, tries |-> 0, tx |-> <<>>]

Init ==
    /\ meta = <<>> /\ linked = <<>> /\ stored = <<>> /\ blocks = <<>>
    /\ next = {} /\ pool = {} /\ restarts = 0
    /\ up = [c \in Client |-> Idle]

TypeOK ==
    /\ \A v \in DOMAIN meta : meta[v].value = v
    /\ Len(stored) = Len(blocks)
    /\ \A c \in Client :
         /\ up[c].pc \in {"idle", "reading", "waiting", "root", "done", "failed"}
         /\ up[c].at \in 1..Len(up[c].file) + 1 /\ up[c].tries \in 0..MaxTries[c]
         /\ Len(up[c].hashes) < up[c].at

-----------------------------------------------------------------------------
(* The node.                                                                *)

\* Resolve of the API: GetValueMeta, then GetValue with getLinkedValue.
Resolve(v) ==
    IF v \in DOMAIN meta /\ meta[v] \in DOMAIN linked THEN <<linked[meta[v]]>> ELSE <<>>

ExecuteAgain(tx) == TRUE

\* SetTx.Execute.
Execute(tx) == tx.value \notin DOMAIN meta

\* PutKey, for each transaction of the block.
PutKeys(txs) ==
    [v \in DOMAIN meta \cup {t.value : t \in txs} |->
        IF \E t \in txs : t.value = v THEN CHOOSE t \in txs : t.value = v ELSE meta[v]]

LinkedIds(txs) == linked

\* linkValues writes each value under its transaction's id.  In passing it replaces the
\* value in the transaction object, of which the block then keeps a copy made before
\* (storage.go:187, 243); transactions are values here, so that another holder of the
\* old object, such as the mempool's newTxs, is not seen to change ...
LinkValues(txs) ==
    [t \in DOMAIN linked \cup txs |-> IF t \in txs THEN t.value ELSE linked[t]]

\* ... and leaves the id in the block that is written.
Stripped(txs) == {[id |-> t] : t \in txs}

\* GetBlock and restoreValues.
GetBlock(b) == {[t.id EXCEPT !.value = linked[t.id]] : t \in b}

Commit(txs) ==
    /\ meta' = PutKeys(txs) /\ linked' = LinkValues(txs)
    /\ stored' = Append(stored, Stripped(txs)) /\ blocks' = Append(blocks, txs)

\* A block is built and verified: of the transactions with one value the first that is
\* popped stays, the others fail and are dropped; those that pay too little wait.
BuildBlock ==
    /\ next = {}
    /\ \E popped \in SUBSET pool \ {{}} :
         /\ \E txs \in SUBSET {t \in popped : Execute(t)} \ {{}} :
              /\ \A t, u \in txs : t.value = u.value => t = u
              /\ \A t \in popped : Execute(t) => \E u \in txs : u.value = t.value
              /\ next' = txs
         /\ pool' = pool \ popped
    /\ UNCHANGED <<meta, linked, stored, blocks, up, restarts>>

\* A block whose transactions all fail is not built.
BuildNothing ==
    /\ next = {} /\ \E t \in pool : ~Execute(t)
    /\ pool' = {t \in pool : Execute(t)}
    /\ UNCHANGED <<meta, linked, stored, blocks, next, up, restarts>>

Accept ==
    /\ next # {}
    /\ Commit(next) /\ next' = {}
    /\ UNCHANGED <<pool, up, restarts>>

\* Another node's block with some of the transactions is accepted instead, and what was
\* verified goes back to the mempool.
Reject ==
    /\ \E txs \in SUBSET next \ {{}, next} : Commit(txs)
    /\ pool' = pool \cup next /\ next' = {}
    /\ UNCHANGED <<up, restarts>>

Restart ==
    /\ restarts < MaxRestarts /\ restarts' = restarts + 1
    /\ next' = {} /\ pool' = {}
    /\ UNCHANGED <<meta, linked, stored, blocks, up>>

-----------------------------------------------------------------------------
(* Upload.                                                                  *)

\* SetFile, or the same again after a failure.
Begin(c, f) ==
    /\ up[c].pc \in {"idle", "failed"} /\ up[c].tries < MaxTries[c]
    /\ up' = [up EXCEPT ![c] = [Idle EXCEPT !.pc = "reading", !.file = f, !.tries = up[c].tries + 1]]
    /\ UNCHANGED nodeVars

\* SignIssueRawTx: Submit executes the transaction on the accepted state.
Send(c, v, pc) ==
    LET tx == [value |-> v, by |-> c, block |-> Len(blocks)] IN
    \/ /\ Execute(tx)
       /\ pool' = pool \cup {tx}
       /\ up' = [up EXCEPT ![c].pc = pc, ![c].tx = <<tx>>]
       /\ UNCHANGED <<meta, linked, stored, blocks, next, restarts>>
    \/ up' = [up EXCEPT ![c].pc = "failed"] /\ UNCHANGED nodeVars

Small(c) == Len(up[c].file) = 1 /\ up[c].file[1] \in Short

\* The loop over the chunks: one that is there is skipped.
ReadChunk(c) ==
    LET i == up[c].at
        v == Chunk(up[c].file[i])
    IN  /\ up[c].pc = "reading" /\ i <= Len(up[c].file) /\ ~Small(c)
        /\ IF v \in Range(up[c].hashes) \/ Resolve(v) # <<>>
           THEN /\ up' = [up EXCEPT ![c].at = i + 1, ![c].hashes = Append(@, v)]
                /\ UNCHANGED nodeVars
           ELSE Send(c, v, "waiting")

\* The end of the file, or a first read of less than a chunk; an empty file leaves the
\* buffer as it was made.
SendRoot(c) ==
    LET contents == IF Small(c) THEN up[c].file ELSE IF up[c].file = <<>> THEN <<Blank>> ELSE <<>> IN
    /\ up[c].pc = "reading" /\ (up[c].at > Len(up[c].file) \/ Small(c))
    /\ Send(c, Root(contents, up[c].hashes), "root")

Confirmed(tx) == tx \in UNION Range(blocks)

\* PollTx returns when the transaction is stored.
Poll(c) ==
    /\ up[c].pc \in {"waiting", "root"} /\ Confirmed(up[c].tx[1])
    /\ IF up[c].pc = "root" THEN up' = [up EXCEPT ![c].pc = "done"]
       ELSE up' = [up EXCEPT ![c].pc = "reading", ![c].at = @ + 1,
                             ![c].hashes = Append(@, up[c].tx[1].value)]
    /\ UNCHANGED nodeVars

GiveUpQuietly(c) ==
    /\ up[c].pc = "waiting"
    /\ up' = [up EXCEPT ![c].pc = "reading", ![c].at = @ + 1,
                        ![c].hashes = Append(@, up[c].tx[1].value)]
    /\ UNCHANGED nodeVars

\* The context is done: Upload returns its error.
GiveUp(c) ==
    /\ up[c].pc \in {"waiting", "root"}
    /\ up' = [up EXCEPT ![c].pc = "failed"]
    /\ UNCHANGED nodeVars

\* Download of a root: <<>> when a value is missing.
Download(root) ==
    LET r == Resolve(root) IN
    IF r = <<>> THEN <<>>
    ELSE IF r[1].contents # <<>> THEN <<r[1].contents>>
    ELSE IF \E i \in DOMAIN r[1].children : Resolve(r[1].children[i]) = <<>> THEN <<>>
    ELSE <<[i \in DOMAIN r[1].children |-> Resolve(r[1].children[i])[1].contents[1]]>>

Next ==
    \/ BuildBlock \/ BuildNothing \/ Accept \/ Reject \/ Restart
    \/ \E c \in Client :
          \/ \E f \in Files[c] : Begin(c, f)
          \/ ReadChunk(c) \/ SendRoot(c) \/ Poll(c) \/ GiveUp(c)

Spec == Init /\ [][Next]_vars

-----------------------------------------------------------------------------
(* Properties.                                                              *)

\* When Upload has returned the root, Download of it gives the file, however the chunks
\* got onto the chain: set by this client, found there, or set meanwhile by another; only
\* of an empty file it gives a chunk of zeros (tree.go:27, 105).
UploadWhole ==
    \A c \in Client : up[c].pc = "done" =>
        Download(up[c].tx[1].value) = <<IF up[c].file = <<>> THEN <<Blank>> ELSE up[c].file>>

\* An accepted block that is read back is the block that was verified (storage.go:174,
\* 205).
BlocksRestored ==
    \A i \in DOMAIN blocks :
        /\ \A t \in stored[i] : t.id \in DOMAIN linked
        /\ GetBlock(stored[i]) = blocks[i]

\* The transaction recorded for a value stays, although the same value is set again by
\* others, sent again and put back into the mempool by rejected blocks (set_tx.go:34).
KeyKept == [][\A v \in DOMAIN meta : v \in DOMAIN meta' /\ meta'[v] = meta[v]]_vars

\* What is stored by value, by transaction and by block agrees (storage.go:174, set_tx.go:34).
StoreRight == TypeOK /\ BlocksRestored
=============================================================================
