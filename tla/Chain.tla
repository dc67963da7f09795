-------------------------------- MODULE Chain --------------------------------
(***************************************************************************)
(* The tree of blocks of one node: verification against the lookback       *)
(* window, the stack of versiondb layers that verified blocks keep until   *)
(* they are decided, acceptance, rejection, and a crash with restart from  *)
(* the database.  Translated from chain/block.go, chain/tx.go (the replay  *)
(* protection), vm/chain_vm.go, vm/helpers.go and vm/vm.go.                *)
(*                                                                         *)
(* Every call runs under the engine's context lock and is one action.  A   *)
(* block that arrives is arbitrary except for its height, which every      *)
(* builder sets to its parent's plus one (NewBlock).  Balances, prices and *)
(* what a transaction writes are not distinguished here: the effect of a   *)
(* block on the database is the block's id.                                *)
(*                                                                         *)
(* The engine (external) verifies a block only on top of the last accepted *)
(* or a processing block, accepts only a child of the last accepted block, *)
(* and rejects every conflicting block before it makes another call.       *)
(***************************************************************************)
EXTENDS Integers, FiniteSets

CONSTANTS
    Block, Genesis,
    Tx,
    NoBlock, Disk,      \* neither is a block
    LookbackWindow,     \* genesis.LookbackWindow
    FutureBound,        \* futureBound
    MaxTime             \* bound: the clock and the timestamps stay in 0..MaxTime

ASSUME ChainAssumption ==
    /\ Genesis \in Block
    /\ NoBlock \notin Block /\ Disk \notin Block
    /\ LookbackWindow \in Nat /\ FutureBound \in Nat /\ MaxTime \in Nat

VARIABLES
    prnt, hght, tmstmp, txs,    \* the contents of every block that exists
    anc,        \* the proper ancestors of every block that exists
    status,     \* where the node has the block
    blockID,    \* the block each transaction names, once it has been signed
    last,       \* vm.lastAccepted
    base,       \* what the onAcceptDB of a processing block is laid over
    delta,      \* the effects pending in each block's onAcceptDB
    disk,       \* the blocks whose effects and bodies are in vm.db
    diskLast,   \* the lastAccepted key of vm.db
    now         \* the node's clock

contents == <<prnt, hght, tmstmp, txs, anc>>
layers == <<base, delta, disk, diskLast>>
vars == <<contents, status, blockID, last, layers, now>>

Time == 0..MaxTime

Init ==
    /\ prnt = [b \in Block |-> NoBlock]
    /\ hght = [b \in Block |-> 0]
    /\ tmstmp = [b \in Block |-> 0]
    /\ txs = [b \in Block |-> {}]
    /\ anc = [b \in Block |-> {}]
    /\ status = [b \in Block |-> IF b = Genesis THEN "accepted" ELSE "unknown"]
    /\ blockID = [t \in Tx |-> NoBlock]
    /\ last = Genesis
    /\ base = [b \in Block |-> Disk]
    /\ delta = [b \in Block |-> {}]
    /\ disk = {Genesis}
    /\ diskLast = Genesis
    /\ now = 0

TypeOK ==
    /\ prnt \in [Block -> Block \cup {NoBlock}]
    /\ hght \in [Block -> Nat]
    /\ tmstmp \in [Block -> Time]
    /\ txs \in [Block -> SUBSET Tx]
    /\ anc \in [Block -> SUBSET Block]
    /\ status \in [Block -> {"unknown", "parsed", "processing", "accepted"}]
    /\ blockID \in [Tx -> Block \cup {NoBlock}]
    /\ last \in Block
    /\ base \in [Block -> Block \cup {Disk}]
    /\ delta \in [Block -> SUBSET Block]
    /\ disk \subseteq Block
    /\ diskLast \in Block
    /\ now \in Time

Chain(b) == anc[b] \cup {b}
Verified == {b \in Block : status[b] \in {"processing", "accepted"}}

\* GetStatelessBlock, without its cache of accepted blocks: it may be empty.
Retrievable == {b \in Block : status[b] = "processing"} \cup disk

-----------------------------------------------------------------------------
(* The outside: time, clients and builders.                                *)

Tick ==
    /\ now < MaxTime
    /\ now' = now + 1
    /\ UNCHANGED <<contents, status, blockID, last, layers>>

\* A client signs a transaction that names a block it knows.
Sign(t, b) ==
    /\ blockID[t] = NoBlock
    /\ status[b] # "unknown"
    /\ blockID' = [blockID EXCEPT ![t] = b]
    /\ UNCHANGED <<contents, status, last, layers, now>>

\* A block made by any builder reaches the node: ParseBlock.
Parse(b, p, time, S) ==
    /\ status[b] = "unknown"
    /\ status[p] # "unknown"
    /\ \A t \in S : blockID[t] # NoBlock
    /\ prnt' = [prnt EXCEPT ![b] = p]
    /\ hght' = [hght EXCEPT ![b] = hght[p] + 1]
    /\ tmstmp' = [tmstmp EXCEPT ![b] = time]
    /\ txs' = [txs EXCEPT ![b] = S]
    /\ anc' = [anc EXCEPT ![b] = Chain(p)]
    /\ status' = [status EXCEPT ![b] = "parsed"]
    /\ UNCHANGED <<blockID, last, layers, now>>

-----------------------------------------------------------------------------
(* Verification.                                                           *)

\* lookback: from lastID back to the first block older than the window, the
\* block lastID itself always included.
Window(lastID, time) ==
    {x \in Chain(lastID) :
        \A y \in Chain(lastID) :
            hght[y] >= hght[x] => time - tmstmp[y] <= LookbackWindow \/ y = lastID}

RecentTxIDs(lastID, time) == UNION {txs[x] : x \in Window(lastID, time)}

ExecutesWithoutBlockCheck(t, lastID, time) == t \notin RecentTxIDs(lastID, time)

\* The replay checks of Transaction.Execute.
Executes(t, lastID, time) ==
    /\ blockID[t] \in Window(lastID, time)
    /\ t \notin RecentTxIDs(lastID, time)

\* The blocks the engine must reject before it goes on.
Conflicting == {b \in Block : status[b] = "processing" /\ last \notin anc[b]}
EngineReady == Conflicting = {}

OnAcceptIgnoringLayers(p) == Disk

\* onAccept: what a child of p builds its layer over.
OnAccept(p) == IF status[p] = "accepted" \/ hght[p] = 0 THEN Disk ELSE p

SavedWithoutBody(b) == {}

\* What the block's layer holds after the transactions and SetLastAccepted: its
\* effects and its body under its own id.
Saved(b) == {b}

\* verify and Verify of a block that passes; one that fails changes nothing.
Verify(b) ==
    LET p == prnt[b] IN
    /\ EngineReady
    /\ status[b] = "parsed"
    /\ p = last \/ status[p] = "processing"
    /\ txs[b] # {}
    /\ tmstmp[b] < now + FutureBound
    /\ p \in Retrievable
    /\ tmstmp[b] >= tmstmp[p]
    /\ Window(p, tmstmp[b]) \subseteq Retrievable
    /\ \A t \in txs[b] : Executes(t, p, tmstmp[b])
    /\ base' = [base EXCEPT ![b] = OnAccept(p)]
    /\ delta' = [delta EXCEPT ![b] = Saved(b)]
    /\ status' = [status EXCEPT ![b] = "processing"]
    /\ UNCHANGED <<contents, blockID, last, disk, diskLast, now>>

-----------------------------------------------------------------------------
(* Decisions.                                                              *)

\* versiondb's Commit: the layer's effects go to what it is laid over, in one
\* batch, and the layer is empty.
Commit(b) ==
    IF base[b] = Disk
    THEN /\ disk' = disk \cup delta[b]
         /\ diskLast' = b
         /\ delta' = [delta EXCEPT ![b] = {}]
    ELSE /\ delta' = [delta EXCEPT ![base[b]] = @ \cup delta[b], ![b] = {}]
         /\ UNCHANGED <<disk, diskLast>>

NotReparented(b) == base

\* The layers of b's children are laid over the database.
Reparented(b) ==
    [c \in Block |-> IF status[c] = "processing" /\ prnt[c] = b THEN Disk ELSE base[c]]

Accept(b) ==
    /\ EngineReady
    /\ status[b] = "processing"
    /\ prnt[b] = last
    /\ Commit(b)
    /\ base' = Reparented(b)
    /\ status' = [status EXCEPT ![b] = "accepted"]
    /\ last' = b
    /\ UNCHANGED <<contents, blockID, now>>

\* Reject: the node keeps nothing of the block, whose bytes may come again.
Reject(b) ==
    /\ b \in Conflicting
    /\ status' = [status EXCEPT ![b] = "parsed"]
    /\ delta' = [delta EXCEPT ![b] = {}]
    /\ UNCHANGED <<contents, blockID, last, base, disk, diskLast, now>>

RestartFromGenesis ==
    /\ last' = Genesis
    /\ status' = [b \in Block |-> IF b \in disk THEN "accepted"
                                  ELSE IF status[b] = "unknown" THEN "unknown" ELSE "parsed"]
    /\ base' = [b \in Block |-> Disk]
    /\ delta' = [b \in Block |-> {}]
    /\ UNCHANGED <<contents, blockID, disk, diskLast, now>>

\* The process dies at any point between two calls and Initialize loads the
\* last accepted block from the database.
Restart ==
    /\ last' = diskLast
    /\ status' = [b \in Block |-> IF b \in disk THEN "accepted"
                                  ELSE IF status[b] = "unknown" THEN "unknown" ELSE "parsed"]
    /\ base' = [b \in Block |-> Disk]
    /\ delta' = [b \in Block |-> {}]
    /\ UNCHANGED <<contents, blockID, disk, diskLast, now>>

-----------------------------------------------------------------------------
Next ==
    \/ Tick
    \/ \E t \in Tx, b \in Block : Sign(t, b)
    \/ \E b, p \in Block, time \in Time, S \in SUBSET Tx : Parse(b, p, time, S)
    \/ \E b \in Block : Verify(b) \/ Accept(b) \/ Reject(b)
    \/ Restart

Spec == Init /\ [][Next]_vars

-----------------------------------------------------------------------------
\* What a read through b's layer finds: the effects in the layers down to the
\* first that lies over the database, and the database.
View(b) ==
    LET Reached == {a \in Chain(b) : \A y \in Chain(b) : hght[y] > hght[a] => base[y] # Disk}
    IN  disk \cup UNION {delta[a] : a \in Reached}

\* "Tx hash must not be recently executed (otherwise could be replayed). NOTE:
\* We only need to keep cached tx hashes around as long as the block hash
\* referenced in the tx is valid" (tx.go:96): no transaction is executed twice
\* on one chain, although the hashes of older blocks are forgotten.
NoReplay ==
    \A b \in Verified : \A a \in anc[b] : txs[a] \cap txs[b] = {}

\* The database is exactly the accepted chain and its lastAccepted key names
\* the block the node last accepted: Accept's commit reaches the database
\* itself also for a block verified over layers that have since been decided.
DiskIsAcceptedChain ==
    /\ disk = Chain(last)
    /\ diskLast = last

\* The state a block was executed on, and that its children will read, is the
\* one of its own chain: all ancestors, no sibling, nothing lost when the
\* layers below are committed.
LayersComplete ==
    \A b \in Block :
        status[b] = "processing" /\ last \in anc[b] => View(b) = Chain(b)

\* lookback never fails in the middle: the ancestors of every block that a new
\* block may build on are in verifiedBlocks or on disk.
AncestryRetrievable ==
    \A b \in Block :
        b = last \/ (status[b] = "processing" /\ last \in anc[b]) => anc[b] \subseteq Retrievable

\* No step, a crash and restart included, takes the last accepted block back
\* or to another branch.
LastAcceptedAdvances == [][last' = last \/ last \in anc'[last']]_vars
=============================================================================
