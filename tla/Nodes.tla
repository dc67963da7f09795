-------------------------------- MODULE Nodes ---------------------------------
(***************************************************************************)
(* The working nodes.  A work module posts its parameters to the API, which *)
(* caches them; the command line registers them on the chain with a staker  *)
(* (RegisterTx), the node may change them (RefreshTx) and prove its work    *)
(* (ProofTx), either by the command line or through the API with a key from *)
(* the node's keystore.  samaState keeps the details of a node by its work  *)
(* address, in cur, pending and the database as everywhere, but reads them  *)
(* back by the address of its staker.                                       *)
(*                                                                          *)
(* A transaction is made from what the client has read and is executed in   *)
(* a later block, once, or never; transactions of a block that fails are    *)
(* not steps.  The parameters of a node are a version.  A work key stands   *)
(* for the address derived from it; BadKey is one that cannot be decoded.   *)
(* Votes and amounts, which StakeTx and UnStakeTx need, are in Governance   *)
(* and Ledger.                                                              *)
(***************************************************************************)
EXTENDS Integers, Sequences, FiniteSets, SequencesExt

CONSTANTS
    Work,           \* work addresses
    Staker,         \* addresses that stake; one may also be a work address
    BadKey,
    Version,        \* versions of a node's parameters
    MaxSent,        \* bound: transactions made
    MaxCalls,       \* bound: calls of Register and ImportKey of the API
    MaxStakes,      \* bound: transactions of stakers
    MaxRestarts     \* bound: restarts

Type == {"route", "ser"}
Address == Work \cup Staker
WorkKey == Work \cup {BadKey}
NoAddress == "none"

ASSUME NodesAssumption ==
    /\ BadKey \notin Address /\ NoAddress \notin Address
    /\ {MaxSent, MaxCalls, MaxStakes, MaxRestarts} \subseteq Nat
    /\ IsFiniteSet(Address) /\ 0 \notin Version

VARIABLES
    cache,          \* PublicService.Cache: work address -> posted version, or 0
    keys,           \* keystore: addresses with a private key ...
    listed,         \* ... and the list of addresses
    importing,      \* the address whose key is written and that is not listed yet
    cur, pending, layer, disk,  \* details and stakers: in memory, in the block, in vm.db
    sent,           \* transactions made and not executed yet
    made, calls, staked, restarts,  \* counters
    phase,          \* "idle" or "block"
    registered,     \* history: work address and staker of the registrations executed
    torn, foreign   \* history: interrupted calls; work keys a refresh put into another's detail

apiVars == <<cache, keys, listed, importing, calls>>
stateVars == <<cur, pending, layer, disk, phase>>
history == <<registered, torn, foreign>>
vars == <<apiVars, stateVars, sent, made, staked, restarts, history>>

-----------------------------------------------------------------------------
NoDetail == [type |-> "none", key |-> NoAddress, stake |-> NoAddress, version |-> 0]

DetailMeta == [type : Type, key : WorkKey, stake : Staker, version : Version]

Details == [Address -> DetailMeta \cup {NoDetail}]

State == [details : Details, stakers : [Staker -> Type \cup {"none"}], pow : [Work -> Nat]]

Empty ==
    [details |-> [a \in Address |-> NoDetail], stakers |-> [s \in Staker |-> "none"],
     pow |-> [w \in Work |-> 0]]

\* "left" is in pendingDel; "none" and NoDetail are in neither map.
NoPending == Empty

Transaction ==
    [kind : {"register"}, type : Type, work : Work, stake : Staker, version : Version]
    \cup [kind : {"refresh"}, work : Work, key : WorkKey, version : Version]
    \cup [kind : {"proof"}, work : Work]

Init ==
    /\ cache = [w \in Work |-> 0]
    /\ keys = {} /\ listed = <<>> /\ importing = NoAddress /\ calls = 0
    /\ cur = Empty /\ pending = NoPending /\ layer = Empty /\ disk = Empty
    /\ sent = {} /\ made = 0 /\ staked = 0 /\ restarts = 0 /\ phase = "idle"
    /\ registered = {} /\ torn = {} /\ foreign = {}

TypeOK ==
    /\ cache \in [Work -> Version \cup {0}]
    /\ keys \subseteq Work /\ listed \in Seq(Work) /\ importing \in Work \cup {NoAddress}
    /\ cur \in State /\ layer \in State /\ disk \in State
    /\ pending.details \in Details
    /\ pending.stakers \in [Staker -> Type \cup {"none", "left"}]
    /\ sent \subseteq Transaction
    /\ phase \in {"idle", "block"}

-----------------------------------------------------------------------------
(* The API and its keystore.                                                *)

\* Register of the API: the work module posts its parameters.
PostParams(w, v) ==
    /\ cache[w] # v /\ calls < MaxCalls
    /\ cache' = [cache EXCEPT ![w] = v] /\ calls' = calls + 1
    /\ UNCHANGED <<keys, listed, importing, stateVars, sent, made, staked, restarts, history>>

\* ImportKey, called by the command config: putAddress writes the key, unless it is
\* there, and then adds the address to the list.
ImportKey(w) ==
    /\ calls < MaxCalls
    /\ calls' = calls + 1
    /\ IF w \in keys THEN UNCHANGED <<keys, importing>>
       ELSE keys' = keys \cup {w} /\ importing' = w
    /\ UNCHANGED <<cache, listed, stateVars, sent, made, staked, restarts, history>>

PutListAnyway ==
    /\ importing # NoAddress
    /\ listed' = Append(Append(listed, importing), importing)
    /\ importing' = NoAddress
    /\ UNCHANGED <<cache, keys, calls, stateVars, sent, made, staked, restarts, history>>

PutList ==
    /\ importing # NoAddress
    /\ listed' = Append(listed, importing)
    /\ importing' = NoAddress
    /\ UNCHANGED <<cache, keys, calls, stateVars, sent, made, staked, restarts, history>>

\* GetLocalParams.
GetLocalParams(w) == cache[w]

\* GetDetailMeta.
GetDetailMeta(a) == cur.details[a]

\* getKey.
HasKey(w) == w \in keys

-----------------------------------------------------------------------------
(* Transactions are made.                                                   *)

Send(t) ==
    /\ made < MaxSent /\ t \notin sent
    /\ sent' = sent \cup {t} /\ made' = made + 1
    /\ UNCHANGED <<apiVars, stateVars, staked, restarts, history>>

\* The command register, with the parameters the API has for the work address.
RegisterCmd(w, s, type) ==
    /\ GetLocalParams(w) # 0
    /\ Send([kind |-> "register", type |-> type, work |-> w, stake |-> s,
             version |-> GetLocalParams(w)])

\* The command refresh starts from what GetNodes finds and keeps the work key.
RefreshCmd(w, v) ==
    /\ GetDetailMeta(w) # NoDetail
    /\ Send([kind |-> "refresh", work |-> w, key |-> GetDetailMeta(w).key, version |-> v])

\* Refresh of the API takes everything, the work key too, from its arguments.
RefreshAPI(w, key, v) ==
    /\ HasKey(w)
    /\ Send([kind |-> "refresh", work |-> w, key |-> key, version |-> v])

\* The command proof.
ProofCmd(w) == Send([kind |-> "proof", work |-> w])

\* Proof of the API.
ProofAPI(w) == HasKey(w) /\ Send([kind |-> "proof", work |-> w])

-----------------------------------------------------------------------------
(* Transactions are executed.                                               *)

WithoutStaker(w) == {d \in DetailMeta : d.key = w /\ d \in Range(cur.details)}

\* IsValidWorkAddress: the first detail with the key of w, in the order of the map,
\* decides; one with an undecodable key before it ends the search with an error.
WorkingAs(w) ==
    {d \in Range(cur.details) : d.key = w /\ cur.stakers[d.stake] = d.type}

\* IsStaker.
IsStaker(s) == cur.stakers[s] # "none"

\* PutDetail.
PutDetail(a, d) ==
    /\ pending' = [pending EXCEPT !.details[a] = d]
    /\ layer' = [layer EXCEPT !.details[a] = d]

Executing(t) ==
    /\ phase = "block" /\ t \in sent
    /\ sent' = sent \ {t}
    /\ UNCHANGED <<apiVars, cur, disk, phase, made, staked, restarts, torn>>

\* RegisterTx: of an address that does not stake; a known node keeps its type, and
\* must change its address on the network.
Register(t) ==
    /\ Executing(t) /\ t.kind = "register"
    /\ ~IsStaker(t.stake)
    /\ LET d == GetDetailMeta(t.work) IN
       d # NoDetail => d.type = t.type /\ (d.version # t.version \/ d.key # t.work)
    /\ PutDetail(t.work, [type |-> t.type, key |-> t.work, stake |-> t.stake,
                          version |-> t.version])
    /\ registered' = registered \cup {<<t.work, t.stake>>}
    /\ UNCHANGED foreign

\* RefreshTx: whatever it says replaces what is known of the sender, which after a restart
\* may be the detail of another node.
Refresh(t) ==
    /\ Executing(t) /\ t.kind = "refresh"
    /\ WorkingAs(t.work) # {}
    /\ LET d == GetDetailMeta(t.work) IN
       /\ d # NoDetail
       /\ d.version # t.version \/ d.key # t.key
       /\ PutDetail(t.work, [d EXCEPT !.key = t.key, !.version = t.version])
       /\ foreign' = foreign \cup {k \in {t.key} : k # t.work \/ <<k, d.stake>> \notin registered}
    /\ UNCHANGED registered

ProofOfAnyNode(t) ==
    /\ Executing(t) /\ t.kind = "proof"
    /\ WithoutStaker(t.work) # {}
    /\ pending' = [pending EXCEPT !.pow[t.work] = @ + 1]
    /\ layer' = [layer EXCEPT !.pow[t.work] = @ + 1]
    /\ UNCHANGED <<registered, foreign>>

\* ProofTx; the amounts of work are in Ledger.
Proof(t) ==
    /\ Executing(t) /\ t.kind = "proof"
    /\ WorkingAs(t.work) # {}
    /\ pending' = [pending EXCEPT !.pow[t.work] = @ + 1]
    /\ layer' = [layer EXCEPT !.pow[t.work] = @ + 1]
    /\ UNCHANGED <<registered, foreign>>

\* StakeTx and UnStakeTx, as far as the stakers.
Stake(s, type) ==
    /\ phase = "block" /\ ~IsStaker(s) /\ staked < MaxStakes
    /\ staked' = staked + 1
    /\ pending' = [pending EXCEPT !.stakers[s] = type]
    /\ layer' = [layer EXCEPT !.stakers[s] = type]
    /\ UNCHANGED <<apiVars, cur, disk, phase, sent, made, restarts, history>>

Unstake(s) ==
    /\ phase = "block" /\ IsStaker(s) /\ staked < MaxStakes
    /\ staked' = staked + 1
    /\ pending' = [pending EXCEPT !.stakers[s] = "left"]
    /\ layer' = [layer EXCEPT !.stakers[s] = "none"]
    /\ UNCHANGED <<apiVars, cur, disk, phase, sent, made, restarts, history>>

-----------------------------------------------------------------------------
(* Blocks and restarts.                                                     *)

StartBlock ==
    /\ phase = "idle"
    /\ phase' = "block" /\ layer' = disk
    /\ UNCHANGED <<apiVars, cur, pending, disk, sent, made, staked, restarts, history>>

MergedOverEmpty ==
    [details |-> pending.details, stakers |-> cur.stakers, pow |-> cur.pow]

\* CacheDetailsCommit, with the stakers' and the work's.
Merged ==
    [details |-> [a \in Address |-> IF pending.details[a] # NoDetail
                                    THEN pending.details[a] ELSE cur.details[a]],
     stakers |-> [s \in Staker |-> IF pending.stakers[s] = "left" THEN "none"
                                   ELSE IF pending.stakers[s] # "none" THEN pending.stakers[s]
                                   ELSE cur.stakers[s]],
     pow     |-> [w \in Work |-> cur.pow[w] + pending.pow[w]]]

Accept ==
    /\ phase = "block" /\ layer # disk
    /\ phase' = "idle" /\ disk' = layer
    /\ cur' = Merged /\ pending' = NoPending
    /\ UNCHANGED <<apiVars, layer, sent, made, staked, restarts, history>>

\* ReloadDetails: by the address of the staker; of two nodes of one staker the one
\* that comes later in the database stays.
Reloaded(d) ==
    LET own(s) == {a \in Address : d[a] # NoDetail /\ d[a].stake = s}
        last == {f \in [Staker -> Address \cup {NoAddress}] : \A s \in Staker :
                    IF own(s) = {} THEN f[s] = NoAddress ELSE f[s] \in own(s)}
    IN  {[a \in Address |-> IF a \in Staker /\ f[a] # NoAddress THEN d[f[a]] ELSE NoDetail] :
            f \in last}

\* A stop or a crash, and the next start.
Restart ==
    /\ phase = "idle" /\ restarts < MaxRestarts
    /\ restarts' = restarts + 1
    /\ cache' = [w \in Work |-> 0]
    /\ importing' = NoAddress /\ torn' = torn \cup ({importing} \ {NoAddress})
    /\ \E r \in Reloaded(disk.details) : cur' = [disk EXCEPT !.details = r]
    /\ pending' = NoPending
    /\ UNCHANGED <<keys, listed, calls, layer, disk, phase, sent, made, staked, registered, foreign>>

Serve ==
    \/ StartBlock \/ Accept
    \/ \E w \in Work :
          \/ \E v \in Version : PostParams(w, v) \/ RefreshCmd(w, v)
          \/ \E key \in WorkKey, v \in Version : RefreshAPI(w, key, v)
          \/ \E s \in Staker, type \in Type : RegisterCmd(w, s, type)
          \/ ImportKey(w) \/ ProofCmd(w) \/ ProofAPI(w)
    \/ \E t \in sent : Register(t) \/ Refresh(t) \/ Proof(t)
    \/ \E s \in Staker : Unstake(s) \/ \E type \in Type : Stake(s, type)

\* The handlers hold the node's lock: nothing but a crash comes between the two writes
\* of ImportKey.
Next ==
    \/ Restart \/ PutList
    \/ importing = NoAddress /\ Serve

Spec == Init /\ [][Next]_vars

-----------------------------------------------------------------------------
(* Properties.                                                              *)

\* Work is counted only for an address that was registered for a staker that stakes,
\* in the state before the block, however the details have been moved by refreshes and
\* restarts; or for one whose key a refresh put into the detail of another: somebody
\* else's refresh, or its own after a restart, when it finds under its address the node
\* it is the staker of (proof_tx.go:34, state.go:121, node_params.go:117).
ProofsBacked ==
    [][\A w \in Work : layer'.pow[w] > layer.pow[w] /\ phase = "block" =>
         \/ w \in foreign
         \/ \E s \in Staker : <<w, s>> \in registered /\ cur.stakers[s] # "none"]_vars

\* The running node knows what it would know had it never stopped, and after a restart
\* it still has a detail for every staker with an accepted node, unless a node that works
\* at the staker's own address displaced it: only the second of two nodes of one staker
\* may be missing (node_params.go:107).
RegistryKept ==
    phase = "idle" =>
        /\ restarts = 0 => cur.details = disk.details
        /\ \A a \in Address : disk.details[a] # NoDetail =>
             \/ \E b \in Address : cur.details[b].stake = disk.details[a].stake
             \/ disk.details[disk.details[a].stake] # NoDetail

\* Until a restart moves the details, one detail at most has the work key of an address
\* that no refresh has given away, so that the order of the map does not decide whether
\* its proofs are valid (state.go:127).
WorkDetermined ==
    restarts = 0 => \A w \in Work \ foreign :
        Cardinality({a \in Address : cur.details[a].key = w}) <= 1

\* The keystore's list has every key once, but for keys whose import a crash interrupted:
\* these are never listed, for a second import finds the key and returns
\* (userkey.go:80).
KeysListed ==
    /\ \A i, j \in 1..Len(listed) : listed[i] = listed[j] => i = j
    /\ keys = Range(listed) \cup torn \cup ({importing} \ {NoAddress})
    /\ Range(listed) \cap torn = {}

\* The details of the nodes are kept and can be told apart, through registrations and
\* refreshes in one block, blocks and restarts (node_params.go:107): the parts above,
\* together.
DetailsRight == TypeOK /\ RegistryKept /\ WorkDetermined
=============================================================================
