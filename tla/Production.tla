----------------------------- MODULE Production ------------------------------
(***************************************************************************)
(* Block production on one node: the engine thread that runs BuildBlock,   *)
(* the two goroutines of the TimeBuilder (Build and Gossip) and the        *)
(* mempool they share.                                                     *)
(*                                                                         *)
(* The engine and the API handlers hold the chain's context lock for a     *)
(* whole call, so at most one of them is in progress (pcE).  The two       *)
(* goroutines do not take that lock: they interleave with BuildBlock       *)
(* between any two mempool calls.  The build timer is absent because       *)
(* nothing in the program starts its Dispatch loop: SetTimeoutIn stores a  *)
(* deadline that no goroutine waits for.                                   *)
(*                                                                         *)
(* A transaction id stands for a slot: once its block is accepted, the id  *)
(* may be submitted again as another transaction of the same price.  While *)
(* the block is undecided it may be submitted again as well, because the   *)
(* block may lie on a branch that is not the preferred one.                *)
(***************************************************************************)
EXTENDS MempoolBase, Functions

CONSTANTS
    MaxBlockSize,   \* genesis.MaxBlockSize
    BlockPrice,     \* context.NextPrice of the blocks under construction
    NoTx            \* no transaction

ASSUME ProductionAssumption == NoTx \notin Tx

VARIABLES
    mempool,                    \* the transactions in vm.mempool
    status,                     \* TimeBuilder.status
    toEngine,                   \* messages in the toEngine channel, capacity one
    requested,                  \* messages the engine has taken and not yet served
    pcE, stale, next, blockTxs, unusable,  \* the engine thread inside BuildBlock
    processing,                 \* transactions of verified, undecided blocks
    pcB,                        \* the Build goroutine
    pcG, batch,                 \* the Gossip goroutine inside RegossipTxs
    stopping,                   \* vm.stop is closed
    crashed                     \* a goroutine has panicked: the process is gone

sharedVars == <<mempool, newTxs, pending>>
statusVars == <<status, toEngine, requested>>
engineVars == <<pcE, stale, next, blockTxs, unusable, processing>>
gossipVars == <<pcG, batch>>
lifeVars == <<stopping, crashed>>
vars == <<sharedVars, statusVars, engineVars, pcB, gossipVars, lifeVars>>

M == INSTANCE Mempool WITH pool <- mempool, handedOut <- {}

Units(txs) == FoldFunction(LAMBDA t, sum : LoadUnits[t] + sum, 0, txs)

Init ==
    /\ mempool = {} /\ newTxs = <<>> /\ pending = 0
    /\ status = "dontBuild" /\ toEngine = 0 /\ requested = 0
    /\ pcE = "idle" /\ stale = {} /\ next = NoTx /\ blockTxs = <<>> /\ unusable = <<>>
    /\ processing = {}
    /\ pcB = "wait"
    /\ pcG = "wait" /\ batch = <<>>
    /\ stopping = FALSE /\ crashed = FALSE

TypeOK ==
    /\ mempool \subseteq Tx /\ newTxs \in Seq(Tx) /\ pending \in 0..1
    /\ status \in {"dontBuild", "mayBuild", "building"}
    /\ toEngine \in 0..1 /\ requested \in 0..1
    /\ pcE \in {"idle", "prune", "loop", "pop", "readd", "verify", "restore", "handle",
                "issue", "shutdown", "closed"}
    /\ stale \subseteq Tx /\ next \in Tx \cup {NoTx}
    /\ blockTxs \in Seq(Tx) /\ unusable \in Seq(Tx) /\ processing \subseteq Tx
    /\ pcB \in {"wait", "signal", "done"}
    /\ pcG \in {"wait", "check", "pop", "done"} /\ batch \in Seq(Tx)
    /\ stopping \in BOOLEAN /\ crashed \in BOOLEAN

BuildRunning == pcE \notin {"idle", "shutdown", "closed"}

-----------------------------------------------------------------------------
(* Calls of the API and of the engine other than BuildBlock.               *)

\* Submit and AppGossip, for a transaction that executes: it is added.  That they do
\* not come in the middle of BuildBlock rests on avalanchego, which holds the chain's
\* context lock around the calls of the engine, AppGossip and handlers that ask for it
\* (vm.go:278): the methods themselves do not lock.
Submit(t) ==
    /\ pcE = "idle"
    /\ M!Add(t)
    /\ UNCHANGED <<statusVars, engineVars, pcB, gossipVars, lifeVars>>

\* vm.Verified for one transaction of a block built by another node.
VerifyPeerTx(t) ==
    /\ pcE = "idle"
    /\ M!Remove(t)
    /\ processing' = processing \cup {t}
    /\ UNCHANGED <<statusVars, pcE, stale, next, blockTxs, unusable, pcB, gossipVars, lifeVars>>

\* vm.Accepted
AcceptTx(t) ==
    /\ pcE = "idle"
    /\ t \in processing
    /\ processing' = processing \ {t}
    /\ UNCHANGED <<sharedVars, statusVars, pcE, stale, next, blockTxs, unusable, pcB, gossipVars, lifeVars>>

\* vm.Rejected: the transaction goes back to the pool.
RejectTx(t) ==
    /\ pcE = "idle"
    /\ t \in processing
    /\ processing' = processing \ {t}
    /\ M!Add(t)
    /\ UNCHANGED <<statusVars, pcE, stale, next, blockTxs, unusable, pcB, gossipVars, lifeVars>>

-----------------------------------------------------------------------------
(* BuildBlock, one step per mempool call.                                  *)

\* The engine takes the message off the channel; the call comes later.
EngineReceive ==
    /\ pcE = "idle"
    /\ toEngine = 1
    /\ toEngine' = 0
    /\ requested' = requested + 1
    /\ UNCHANGED <<sharedVars, status, engineVars, pcB, gossipVars, lifeVars>>

\* chain.BuildBlock up to the scan of Prune: a transaction is stale when the
\* block it names has left the lookback window.
StartBuild ==
    /\ pcE = "idle"
    /\ requested = 1
    /\ requested' = 0
    /\ pcE' = "prune"
    /\ stale' \in SUBSET mempool
    /\ UNCHANGED <<sharedVars, status, toEngine, next, blockTxs, unusable, processing, pcB, gossipVars, lifeVars>>

\* The parent of the block, or its execution context, is not to be had.
StartBuildFails ==
    /\ pcE = "idle"
    /\ requested = 1
    /\ requested' = 0
    /\ pcE' = "handle"
    /\ UNCHANGED <<sharedVars, status, toEngine, stale, next, blockTxs, unusable, processing, pcB, gossipVars, lifeVars>>

\* The removals of Prune, each under its own lock.
PruneOne ==
    /\ pcE = "prune"
    /\ \E t \in stale : M!Remove(t) /\ stale' = stale \ {t}
    /\ UNCHANGED <<statusVars, pcE, next, blockTxs, unusable, processing, pcB, gossipVars, lifeVars>>

\* BuildBlock goes on, or gives up when the parent's layer is not to be had.
PruneDone ==
    /\ pcE = "prune"
    /\ stale = {}
    /\ pcE' \in {"loop", "handle"}
    /\ UNCHANGED <<sharedVars, statusVars, stale, next, blockTxs, unusable, processing, pcB, gossipVars, lifeVars>>

\* for mempool.Len() > 0
BuildLoop ==
    /\ pcE = "loop"
    /\ pcE' = IF mempool = {} THEN "verify" ELSE "pop"
    /\ UNCHANGED <<sharedVars, statusVars, stale, next, blockTxs, unusable, processing, pcB, gossipVars, lifeVars>>

ExamineWithoutContinue(t) ==
    IF Price[t] < BlockPrice
    THEN next' = t /\ pcE' = "readd" /\ UNCHANGED <<blockTxs, unusable>>
    ELSE /\ pcE' = "loop"
         /\ UNCHANGED next
         /\ unusable' = IF Units(blockTxs) + LoadUnits[t] > MaxBlockSize
                        THEN Append(unusable, t) ELSE unusable
         /\ blockTxs' = Append(blockTxs, t)

\* What becomes of the transaction PopMax returned: below the block's price it
\* is put back and the loop ends; too large, it is set aside; otherwise it is
\* executed and kept or, when execution fails, dropped.
Examine(t) ==
    IF Price[t] < BlockPrice
    THEN next' = t /\ pcE' = "readd" /\ UNCHANGED <<blockTxs, unusable>>
    ELSE /\ pcE' = "loop"
         /\ UNCHANGED next
         /\ IF Units(blockTxs) + LoadUnits[t] > MaxBlockSize
            THEN unusable' = Append(unusable, t) /\ UNCHANGED blockTxs
            ELSE blockTxs' \in {blockTxs, Append(blockTxs, t)} /\ UNCHANGED unusable

BuildPop ==
    /\ pcE = "pop"
    /\ \E t \in Tx : M!PopMax(t) /\ Examine(t)
    /\ UNCHANGED <<statusVars, stale, processing, pcB, gossipVars, lifeVars>>

\* PopMax on an empty heap indexes items[0] and panics.
BuildPopPanics ==
    /\ pcE = "pop"
    /\ mempool = {}
    /\ crashed' = TRUE
    /\ UNCHANGED <<sharedVars, statusVars, engineVars, pcB, gossipVars, stopping>>

BuildReAdd ==
    /\ pcE = "readd"
    /\ M!Add(next)
    /\ next' = NoTx
    /\ pcE' = "verify"
    /\ UNCHANGED <<statusVars, stale, blockTxs, unusable, processing, pcB, gossipVars, lifeVars>>

\* b.verify(): an empty block fails, another may fail for want of surplus fee;
\* the transactions of a failed block are not put back.
BuildVerify ==
    /\ pcE = "verify"
    /\ blockTxs' \in {blockTxs, <<>>}
    /\ pcE' = "restore"
    /\ UNCHANGED <<sharedVars, statusVars, stale, next, unusable, processing, pcB, gossipVars, lifeVars>>

\* The deferred function of BuildBlock.
BuildRestore ==
    /\ pcE = "restore"
    /\ IF unusable # <<>>
       THEN M!Add(Head(unusable)) /\ unusable' = Tail(unusable) /\ UNCHANGED pcE
       ELSE pcE' = "handle" /\ UNCHANGED <<sharedVars, unusable>>
    /\ UNCHANGED <<statusVars, stale, next, blockTxs, processing, pcB, gossipVars, lifeVars>>

HandleAlwaysDone ==
    /\ pcE = "handle"
    /\ status' = "dontBuild"
    /\ pcE' = "issue"
    /\ UNCHANGED <<sharedVars, toEngine, requested, stale, next, blockTxs, unusable, processing, pcB, gossipVars, lifeVars>>

\* needToBuild; the timeout that mayBuild sets is never waited for.
HandleGenerateBlock ==
    /\ pcE = "handle"
    /\ status' = IF mempool # {} THEN "mayBuild" ELSE "dontBuild"
    /\ pcE' = "issue"
    /\ UNCHANGED <<sharedVars, toEngine, requested, stale, next, blockTxs, unusable, processing, pcB, gossipVars, lifeVars>>

\* The engine verifies the block it was given, within the same call.
IssueBlock ==
    /\ pcE = "issue"
    /\ mempool' = mempool \ Range(blockTxs)
    /\ processing' = processing \cup Range(blockTxs)
    /\ blockTxs' = <<>>
    /\ pcE' = "idle"
    /\ UNCHANGED <<newTxs, pending, statusVars, stale, next, unusable, pcB, gossipVars, lifeVars>>

BuildBlockStep ==
    \/ StartBuild \/ StartBuildFails \/ PruneOne \/ PruneDone \/ BuildLoop \/ BuildPop \/ BuildPopPanics
    \/ BuildReAdd \/ BuildVerify \/ BuildRestore \/ HandleGenerateBlock \/ IssueBlock

-----------------------------------------------------------------------------
(* The Build goroutine.                                                    *)

BuildReceive ==
    /\ pcB = "wait"
    /\ M!ReceivePending
    /\ pcB' = "signal"
    /\ UNCHANGED <<statusVars, engineVars, gossipVars, lifeVars>>

MarkBuildingWithoutSend == status' = "building" /\ UNCHANGED toEngine

\* markBuilding: a send that does not fit is dropped and the status stays.
MarkBuilding ==
    IF toEngine = 0 THEN toEngine' = 1 /\ status' = "building"
                    ELSE UNCHANGED <<toEngine, status>>

SignalTxsReady ==
    /\ pcB = "signal"
    /\ IF status = "dontBuild" THEN MarkBuilding ELSE UNCHANGED <<toEngine, status>>
    /\ pcB' = "wait"
    /\ UNCHANGED <<sharedVars, requested, engineVars, gossipVars, lifeVars>>

BuildExitAfterSignal ==
    /\ pcB = "signal"
    /\ stopping
    /\ pcB' = "done"
    /\ UNCHANGED <<sharedVars, statusVars, engineVars, gossipVars, lifeVars>>

BuildExit ==
    /\ pcB = "wait"
    /\ stopping
    /\ pcB' = "done"
    /\ UNCHANGED <<sharedVars, statusVars, engineVars, gossipVars, lifeVars>>

-----------------------------------------------------------------------------
(* The Gossip goroutine.                                                   *)

GossipTick ==
    /\ pcG = "wait"
    /\ \E i \in 1..(Len(newTxs) + 1) : M!StopsAt(i, TargetBlockSize) /\ M!NewTxsUpTo(i)
    /\ UNCHANGED <<statusVars, engineVars, pcB, gossipVars, lifeVars>>

RegossipTick ==
    /\ pcG = "wait"
    /\ pcG' = "check"
    /\ UNCHANGED <<sharedVars, statusVars, engineVars, pcB, batch, lifeVars>>

\* for mempool.Len() > 0 && units < TargetBlockSize; the transactions taken are
\* sent to peers and do not return to this pool.
RegossipCheck ==
    /\ pcG = "check"
    /\ IF mempool # {} /\ Units(batch) < TargetBlockSize
       THEN pcG' = "pop" /\ UNCHANGED batch
       ELSE pcG' = "wait" /\ batch' = <<>>
    /\ UNCHANGED <<sharedVars, statusVars, engineVars, pcB, lifeVars>>

RegossipPop ==
    /\ pcG = "pop"
    /\ \E t \in Tx : M!PopMax(t) /\ batch' = Append(batch, t)
    /\ pcG' = "check"
    /\ UNCHANGED <<statusVars, engineVars, pcB, lifeVars>>

RegossipPopPanics ==
    /\ pcG = "pop"
    /\ mempool = {}
    /\ crashed' = TRUE
    /\ UNCHANGED <<sharedVars, statusVars, engineVars, pcB, gossipVars, stopping>>

GossipExit ==
    /\ pcG = "wait"
    /\ stopping
    /\ pcG' = "done"
    /\ UNCHANGED <<sharedVars, statusVars, engineVars, pcB, batch, lifeVars>>

RegossipStep == RegossipCheck \/ RegossipPop \/ RegossipPopPanics

-----------------------------------------------------------------------------
(* Shutdown: close(stop), wait for both goroutines, close the database.    *)

Shutdown ==
    /\ pcE = "idle"
    /\ pcE' = "shutdown"
    /\ stopping' = TRUE
    /\ UNCHANGED <<sharedVars, statusVars, stale, next, blockTxs, unusable, processing, pcB, gossipVars, crashed>>

ShutdownDone ==
    /\ pcE = "shutdown"
    /\ pcB = "done"
    /\ pcG = "done"
    /\ pcE' = "closed"
    /\ UNCHANGED <<sharedVars, statusVars, stale, next, blockTxs, unusable, processing, pcB, gossipVars, lifeVars>>

-----------------------------------------------------------------------------
Next ==
    /\ ~crashed
    /\ \/ \E t \in Tx : Submit(t) \/ VerifyPeerTx(t) \/ AcceptTx(t) \/ RejectTx(t)
       \/ EngineReceive
       \/ BuildBlockStep
       \/ BuildReceive
       \/ SignalTxsReady
       \/ BuildExit
       \/ GossipTick
       \/ RegossipTick
       \/ RegossipStep
       \/ GossipExit
       \/ Shutdown
       \/ ShutdownDone

Spec == Init /\ [][Next]_vars

\* Every goroutine runs, the engine serves the messages it is sent, and Go's
\* select takes a ready stop case sooner or later although the gossip tickers
\* go on firing.
Fairness ==
    /\ WF_vars(~crashed /\ EngineReceive)
    /\ WF_vars(~crashed /\ BuildBlockStep)
    /\ WF_vars(~crashed /\ BuildReceive)
    /\ WF_vars(~crashed /\ SignalTxsReady)
    /\ WF_vars(~crashed /\ BuildExit)
    /\ WF_vars(~crashed /\ RegossipStep)
    /\ SF_vars(~crashed /\ GossipExit)
    /\ WF_vars(~crashed /\ ShutdownDone)

FairSpec == Spec /\ Fairness

-----------------------------------------------------------------------------
B(p) == IF p THEN 1 ELSE 0

\* The builder's status tells the truth about the engine: it is "building"
\* exactly while one request is in the channel, in the engine's hands or being
\* served, and there is never a second one; so markBuilding's drop branch
\* (block_builder.go:113) is never taken by this builder.
OneRequest ==
    toEngine + requested + B(BuildRunning /\ pcE # "issue") = B(status = "building")

\* No wakeup is lost between the mempool, the Build goroutine and BuildBlock:
\* while the pool holds transactions, a signal is on its way, a request is
\* outstanding, or the status says that the build timer is to act.
NoLostWakeup ==
    mempool # {} =>
        \/ pending = 1
        \/ pcB = "signal" \/ pcB = "done"
        \/ status # "dontBuild"

\* While a block is being built, a transaction is held in one place only: no
\* interleaving with the gossip goroutine puts a transaction into the block
\* twice or back into the pool while the block has it.  (verify does not look
\* for a repetition within one block.)
HeldOnce ==
    LET held == blockTxs \o unusable \o (IF next = NoTx THEN <<>> ELSE <<next>>)
    IN  /\ Cardinality(Range(held)) = Len(held)
        /\ mempool \cap Range(held) = {}

\* "Assumes there is non-zero items in [Mempool]" (mempool.go:111): PopMax is
\* only ever called when the pool is not empty.
NeverPopsEmpty == ~crashed

\* A transaction that arrives while nothing is being built gets a block
\* attempt: the signal travels through both channels to the engine.
ArrivalTriggersBuild ==
    (pending = 1 /\ status = "dontBuild") ~> (BuildRunning \/ stopping \/ crashed)

\* Shutdown (vm.go:250) does not hang: both goroutines notice the closed stop
\* channel, also when the gossip loop is in the middle of a round.
ShutdownCompletes == pcE = "shutdown" ~> (pcE = "closed" \/ crashed)

\* The builder's status and the two channels agree in every interleaving of the engine,
\* the Build goroutine and the callers of the mempool (block_builder.go:55, 108): one
\* request per "building", and no transaction waits without anybody to act on it.
StatusExact == TypeOK /\ OneRequest /\ NoLostWakeup
=============================================================================
