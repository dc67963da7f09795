------------------------------ MODULE StateCache ------------------------------
(***************************************************************************)
(* samaState: the registry of proposed and staked nodes that chain/state.go *)
(* keeps in memory beside the database.  Transactions check what is in cur *)
(* (the maps of the last accepted state) and write both into the layer of  *)
(* their block and into the pending maps; Accept merges pending into cur.  *)
(* There is one set of pending maps for the whole node, whichever block,   *)
(* build attempt or submission wrote into it.                              *)
(*                                                                         *)
(* Modelled are the sub-states of actions (action_status.go) and stakers   *)
(* (stake_status.go); the others have the same shape.  Transactions are    *)
(* the life of a staker: register, vote by the root address (which decides *)
(* while there are fewer than three routes), stake, unstake.  An action is *)
(* known by the address it is about: one action per address.  Each is one  *)
(* step although a block runs under the context lock from its first        *)
(* transaction to its last.                                                *)
(*                                                                         *)
(* Any number of blocks may be verified and undecided, each on the last    *)
(* accepted block or on another undecided one; they all write the same     *)
(* pending maps.  The engine accepts a child of the last accepted block    *)
(* and then rejects what conflicts with it before it calls anything else.  *)
(***************************************************************************)
EXTENDS Integers

CONSTANTS
    Address,        \* the addresses that may stake
    Block,          \* names for undecided blocks; a name is free again after the decision
    Calls,          \* what may happen besides verify-accept pairs and restarts; "ahead"
                    \* is a verification while other blocks are undecided
    MaxBlockTxs     \* bound: transactions executed for one block

ASSUME StateCacheAssumption ==
    /\ Calls \subseteq {"fail", "ahead", "build", "submit"}
    /\ Block \cap {"accepted", "conflict", "none"} = {}
    /\ MaxBlockTxs \in Nat

VARIABLES
    cur,            \* curActions, curRoute
    pendingAdd, pendingDel,     \* the pending maps: values (0 for no entry), and keys
    disk,           \* vm.db
    parent,         \* of an undecided block: another one, "accepted" for the last accepted
                    \* block, "conflict" when that was decided against; else "none"
    height,         \* Hght of an undecided block, counted from the last accepted one
    view,           \* the onAcceptDB of an undecided block, with what it is laid over
    on,             \* the parent of the block under verification
    layer,          \* the versiondb a block is being executed on
    phase,          \* what the engine thread is executing
    executed,       \* transactions executed in this phase
    tip,            \* history: the undecided block verified last, or "accepted"
    cache           \* history: "disturbed" when, since the last restart, pending entries
                    \* were left behind by a block, taken away from one or mixed with
                    \* those of a block on another line

cacheVars == <<cur, pendingAdd, pendingDel>>
treeVars == <<parent, height, view, tip>>
dbVars == <<disk, on, layer>>
vars == <<cacheVars, treeVars, dbVars, phase, executed, cache>>

\* An entry of a map: an action by the address it is about, or a staker.
Action(a) == [map |-> "actions", addr |-> a]
Staker(a) == [map |-> "stakers", addr |-> a]
Key == [map : {"actions", "stakers"}, addr : Address]

\* The values: 0 absent, 1 present, for an action without and 2 with the vote
\* of root; 3 an action whose EndTime has passed.
Value == 0..3

Database == [entries : [Key -> Value], locked : [Address -> Nat]]

Blank == [entries |-> [k \in Key |-> 0], locked |-> [a \in Address |-> 0]]

\* The blocks that one may be verified or built on.
Parent == Block \cup {"accepted"}

Init ==
    /\ cur = [k \in Key |-> 0]
    /\ pendingAdd = [k \in Key |-> 0]
    /\ pendingDel = {}
    /\ disk = Blank
    /\ parent = [b \in Block |-> "none"]
    /\ height = [b \in Block |-> 0]
    /\ view = [b \in Block |-> Blank]
    /\ tip = "accepted"
    /\ on = "accepted"
    /\ layer = Blank
    /\ phase = "idle"
    /\ executed = 0
    /\ cache = "clean"

TypeOK ==
    /\ cur \in [Key -> Value]
    /\ pendingAdd \in [Key -> Value]
    /\ pendingDel \subseteq Key
    /\ disk \in Database /\ layer \in Database
    /\ parent \in [Block -> Parent \cup {"conflict", "none"}]
    /\ height \in [Block -> Nat]
    /\ view \in [Block -> Database]
    /\ on \in Parent /\ tip \in Parent
    /\ phase \in {"idle", "verify", "build", "halted"}
    /\ executed \in 0..MaxBlockTxs
    /\ cache \in {"clean", "disturbed"}

-----------------------------------------------------------------------------
(* The pending maps.                                                       *)

\* PutStaker, PutAction: pending and the block's database.
Put(k, v) ==
    /\ pendingAdd' = [pendingAdd EXCEPT ![k] = v]
    /\ pendingDel' = pendingDel \ {k}

\* DelStaker, DelAction.
Del(k) ==
    /\ pendingAdd' = [pendingAdd EXCEPT ![k] = 0]
    /\ pendingDel' = pendingDel \cup {k}

MergedIgnoringDel ==
    [k \in Key |-> IF pendingAdd[k] # 0 THEN pendingAdd[k] ELSE cur[k]]

\* Commit: additions first, then deletions.
Merged ==
    [k \in Key |-> IF k \in pendingDel THEN 0
                   ELSE IF pendingAdd[k] # 0 THEN pendingAdd[k] ELSE cur[k]]

Empty == pendingAdd = [k \in Key |-> 0] /\ pendingDel = {}

NothingPending == pendingAdd' = [k \in Key |-> 0] /\ pendingDel' = {}

Commit == cur' = Merged /\ NothingPending

Abort == NothingPending /\ UNCHANGED cur

\* The Reload functions at startup: overdue actions are skipped.
Live(entries) == [k \in Key |-> IF entries[k] = 3 THEN 0 ELSE entries[k]]

-----------------------------------------------------------------------------
(* Transactions: the checks read cur, the writes go to pending and layer.  *)

Executing == phase \in {"verify", "build"} /\ executed < MaxBlockTxs

LayerPut(k, v) == [layer.entries EXCEPT ![k] = v]

Rest == UNCHANGED <<cur, treeVars, disk, on, phase, cache>>

\* RegisterTx: a new action, with the sender's vote when that is root, replacing
\* one that the same id already has.
Register(a, voted) ==
    /\ Executing /\ executed' = executed + 1
    /\ cur[Staker(a)] = 0
    /\ Put(Action(a), voted)
    /\ layer' = [layer EXCEPT !.entries = LayerPut(Action(a), voted)]
    /\ Rest

\* VoteTx by root: the action is not overdue and root is not among the voters.
Vote(a) ==
    /\ Executing /\ executed' = executed + 1
    /\ cur[Action(a)] = 1
    /\ Put(Action(a), 2)
    /\ layer' = [layer EXCEPT !.entries = LayerPut(Action(a), 2)]
    /\ Rest

\* StakeTx by the sender a for the staker address s: the action is looked up by
\* the sender and the stake is locked in the sender's name, the entry is s.
Stake(a, s) ==
    /\ Executing /\ executed' = executed + 1
    /\ cur[Staker(s)] = 0
    /\ cur[Action(a)] = 2
    /\ pendingAdd' = [pendingAdd EXCEPT ![Staker(s)] = 1, ![Action(a)] = 0]
    /\ pendingDel' = (pendingDel \ {Staker(s)}) \cup {Action(a)}
    /\ layer' = [entries |-> [layer.entries EXCEPT ![Staker(s)] = 1, ![Action(a)] = 0],
                 locked  |-> [layer.locked EXCEPT ![a] = @ + 1]]
    /\ Rest

\* UnStakeTx, after the minimum stake time: the stake is released.
Unstake(a) ==
    /\ Executing /\ executed' = executed + 1
    /\ cur[Staker(a)] = 1
    /\ layer.locked[a] > 0
    /\ Del(Staker(a))
    /\ layer' = [entries |-> LayerPut(Staker(a), 0),
                 locked  |-> [layer.locked EXCEPT ![a] = @ - 1]]
    /\ Rest

Execute(a) ==
    \/ \E voted \in {1, 2} : Register(a, voted)
    \/ Vote(a)
    \/ \E s \in Address : Stake(a, s)
    \/ Unstake(a)

-----------------------------------------------------------------------------
(* The calls of the engine.                                                *)

Undecided == {b \in Block : parent[b] # "none"}

\* The state a block on p is executed on (onAccept).
StateOf(p) == IF p = "accepted" THEN disk ELSE view[p]

\* The engine is between two calls and has rejected what conflicts.
Ready(p) ==
    /\ phase = "idle"
    /\ \A b \in Block : parent[b] # "conflict"
    /\ p = "accepted" \/ p \in Undecided

\* On any other block than the one verified last, the pending maps mix two lines.
StartVerify(p) ==
    /\ Ready(p)
    /\ Undecided # {} => "ahead" \in Calls
    /\ Undecided # Block
    /\ phase' = "verify" /\ executed' = 0
    /\ on' = p /\ layer' = StateOf(p)
    /\ cache' = IF p = tip THEN cache ELSE "disturbed"
    /\ UNCHANGED <<cacheVars, treeVars, disk>>

VerifySucceeds(b) ==
    /\ phase = "verify" /\ executed > 0
    /\ parent[b] = "none"
    /\ phase' = "idle" /\ executed' = 0
    /\ parent' = [parent EXCEPT ![b] = on]
    /\ height' = [height EXCEPT ![b] = IF on = "accepted" THEN 1 ELSE height[on] + 1]
    /\ view' = [view EXCEPT ![b] = layer]
    /\ tip' = b
    /\ on' = "accepted" /\ layer' = Blank
    /\ UNCHANGED <<cacheVars, disk, cache>>

\* A transaction fails, or a later check: what the earlier ones left in the
\* pending maps stays.  A block that fails while bootstrapping is fatal.
VerifyFails ==
    /\ phase = "verify"
    /\ phase' = IF "fail" \in Calls THEN "idle" ELSE "halted"
    /\ executed' = 0 /\ on' = "accepted" /\ layer' = Blank
    /\ cache' = "disturbed"
    /\ UNCHANGED <<cacheVars, treeVars, disk>>

\* The name of a decided block is free again.
Forget(b) ==
    /\ view' = [view EXCEPT ![b] = Blank]
    /\ tip' = IF tip = b THEN "accepted" ELSE tip
    /\ UNCHANGED <<on, layer, phase, executed>>

\* Commit merges everything pending, what blocks on top of b wrote as well.
Accept(b) ==
    /\ phase = "idle" /\ \A c \in Block : parent[c] # "conflict"
    /\ parent[b] = "accepted"
    /\ disk' = view[b]
    /\ parent' = [c \in Block |-> IF c = b THEN "none"
                                  ELSE IF parent[c] = b THEN "accepted"
                                  ELSE IF parent[c] = "accepted" THEN "conflict" ELSE parent[c]]
    /\ height' = [c \in Block |-> IF height[c] > 0 THEN height[c] - 1 ELSE 0]
    /\ Commit
    /\ Forget(b)
    /\ UNCHANGED cache

\* Reject does nothing to samaState.
Reject(b) ==
    /\ phase = "idle"
    /\ parent[b] = "conflict"
    /\ parent' = [c \in Block |-> IF c = b THEN "none"
                                  ELSE IF parent[c] = b THEN "conflict" ELSE parent[c]]
    /\ height' = [height EXCEPT ![b] = 0]
    /\ Forget(b)
    /\ cache' = "disturbed"
    /\ UNCHANGED <<cacheVars, disk>>

\* Whatever was pending before is aborted along with what the call wrote itself.
AbortAll ==
    /\ Abort
    /\ cache' = IF Empty THEN cache ELSE "disturbed"

\* Submit, also for gossiped transactions: what the transactions wrote is
\* aborted, and with it what is pending for the undecided blocks.
Submit ==
    /\ "submit" \in Calls /\ Ready("accepted")
    /\ AbortAll
    /\ UNCHANGED <<treeVars, dbVars, phase, executed>>

\* BuildBlock on the preferred block p: the attempts of its loop are aborted, then
\* the block is executed once more by verify.
StartBuild(p) ==
    /\ "build" \in Calls /\ Ready(p)
    /\ phase' = "build" /\ executed' = 0
    /\ layer' = StateOf(p)
    /\ AbortAll
    /\ UNCHANGED <<treeVars, disk, on>>

BuildSucceedsWithoutAbort ==
    /\ phase = "build" /\ executed > 0
    /\ phase' = "idle" /\ executed' = 0 /\ layer' = Blank
    /\ UNCHANGED <<cacheVars, treeVars, disk, on, cache>>

BuildSucceeds ==
    /\ phase = "build" /\ executed > 0
    /\ phase' = "idle" /\ executed' = 0 /\ layer' = Blank
    /\ Abort
    /\ UNCHANGED <<treeVars, disk, on, cache>>

\* verify fails, for want of surplus fee for instance, and BuildBlock returns.
BuildFails ==
    /\ phase = "build"
    /\ phase' = "idle" /\ executed' = 0 /\ layer' = Blank
    /\ cache' = IF executed > 0 THEN "disturbed" ELSE cache
    /\ UNCHANGED <<cacheVars, treeVars, disk, on>>

\* A crash at any point, and SamaNew on the database.
Restart ==
    /\ cur' = Live(disk.entries)
    /\ NothingPending
    /\ parent' = [b \in Block |-> "none"]
    /\ height' = [b \in Block |-> 0]
    /\ view' = [b \in Block |-> Blank]
    /\ tip' = "accepted"
    /\ on' = "accepted" /\ layer' = Blank
    /\ phase' = "idle" /\ executed' = 0
    /\ cache' = "clean"
    /\ UNCHANGED disk

Aged(entries, a) ==
    [entries EXCEPT ![Action(a)] = IF @ \in {1, 2} THEN 3 ELSE @]

\* The EndTime of an action passes, in every copy of it, between two calls of the
\* engine.  An action registered anew is taken to end with the one it replaces.
Overdue(a) ==
    /\ phase = "idle"
    /\ disk.entries[Action(a)] \in {1, 2}
    /\ disk' = [disk EXCEPT !.entries = Aged(disk.entries, a)]
    /\ cur' = Aged(cur, a)
    /\ pendingAdd' = Aged(pendingAdd, a)
    /\ view' = [b \in Block |-> [view[b] EXCEPT !.entries = Aged(view[b].entries, a)]]
    /\ UNCHANGED <<pendingDel, parent, height, tip, on, layer, phase, executed, cache>>

Next ==
    \/ \E a \in Address : Execute(a) \/ Overdue(a)
    \/ \E p \in Parent : StartVerify(p) \/ StartBuild(p)
    \/ \E b \in Block : VerifySucceeds(b) \/ Accept(b) \/ Reject(b)
    \/ VerifyFails \/ Submit \/ BuildSucceeds \/ BuildFails
    \/ Restart

Spec == Init /\ [][Next]_vars

-----------------------------------------------------------------------------
\* The maps in memory are the accepted database, overdue actions apart: after
\* every Accept (block.go:259) and every restart the node answers from the
\* same registry.
CacheMatchesDB == Live(cur) = Live(disk.entries)

\* In normal operation too, only what disturbs the cache can make the maps wrong: a
\* failed verification, a rejection, a verification on another block than the one
\* verified last, and a call of BuildBlock or Submit while undecided blocks have
\* something pending.  Otherwise the maps are those of the last accepted block or,
\* since its Accept commits what blocks on top of it wrote (block.go:259), of a
\* block of that line that is still undecided: of nothing else, and of the accepted
\* block whenever none is undecided.
UndisturbedMatchesDB ==
    cache = "clean" =>
        \E p \in {"accepted"} \cup Undecided : Live(cur) = Live(StateOf(p).entries)

\* What Commit will make of the maps is what the block under verification and the
\* undecided ones below it wrote to their layers, whatever mixture of puts and
\* deletes of one key their transactions made, and whichever of them were accepted
\* in the meantime; between two calls, what the block verified last wrote.
PendingMatchesLayer ==
    /\ phase = "verify" /\ cache = "clean" => Live(Merged) = Live(layer.entries)
    /\ phase = "idle" /\ cache = "clean" => Live(Merged) = Live(StateOf(tip).entries)
=============================================================================
