------------------------------ MODULE Governance ------------------------------
(***************************************************************************)
(* Decisions of the chain: actions are proposed (ProposalTx) or come with a *)
(* registration (RegisterTx), collect votes of the routes and of the root   *)
(* address (VoteTx), and are carried out by GovernTx (system parameters and *)
(* user types) or StakeTx (a new route).  As everywhere in samaState the    *)
(* checks of a transaction read cur, the maps of the last accepted block,   *)
(* and its writes go to the pending maps and to the database of the block.  *)
(*                                                                          *)
(* Blocks follow one another undisturbed (StateCache is about what disturbs *)
(* the pending maps): a block is executed transaction by transaction, then  *)
(* accepted.  Only its successful transactions are steps, for a block with  *)
(* a failing one is not accepted.  Checks use the wall clock, now, where    *)
(* the code does, while EndTime is counted from the block's time.  Of the   *)
(* stakers only the routes are kept, since only they vote; the details of a *)
(* registered node are not modelled.                                        *)
(***************************************************************************)
EXTENDS Integers, Sequences, FiniteSets, SequencesExt

CONSTANTS
    Address,        \* the addresses that may become routes
    Root,           \* GetRootAddress
    ActionID,
    ParamKey,       \* the parameters that are voted on
    TypeKey,        \* ids of user types
    Percent,        \* proposed percentages
    Fee,            \* proposed fees of user types
    Week,           \* Seconds7Day
    MaxTime,        \* bound: the wall clock
    MaxTxs          \* bound: transactions, of all blocks

\* The two halves of a hundred; "burn" stands alone.
Halves == {<<"routePerc", "serPerc">>, <<"routeBase", "routeMerit">>, <<"serBase", "serMerit">>}

ASSUME GovernanceAssumption ==
    /\ Root \notin Address /\ IsFiniteSet(Address)
    /\ ParamKey \subseteq {"burn"} \cup UNION {Range(h) : h \in Halves}
    /\ \A h \in Halves : h[1] \in ParamKey <=> h[2] \in ParamKey
    /\ ParamKey \cap TypeKey = {} /\ Address \cap (ParamKey \cup TypeKey) = {}
    /\ Percent \subseteq Nat /\ Fee \subseteq Nat \ {0}
    /\ Week \in Nat \ {0} /\ MaxTime \in Nat /\ MaxTxs \in Nat

VARIABLES
    cur,            \* curActions, curRoute, curParams, curUserTypes
    pending,        \* the pending maps of the same sub-states
    layer,          \* the database of the block being executed
    disk,           \* vm.db
    now,            \* time.Now
    btime,          \* the time of the last block
    phase,          \* "idle", "block" while one is executed, "down" when the node cannot start
    executed,       \* whether the block has a transaction
    total,          \* transactions executed, but for decisions
    renewed         \* history: ids that RegisterTx wrote in this block

vars == <<cur, pending, layer, disk, now, btime, phase, executed, total, renewed>>

-----------------------------------------------------------------------------
None == [type |-> "none", key |-> "none", val |-> 0, end |-> 0, voters |-> <<>>]

Voter == Address \cup {Root}

Key == Address \cup ParamKey \cup TypeKey

ActionMeta ==
    [type : {"addStaker", "param", "addType", "modType"}, key : Key,
     val : Percent \cup Fee \cup {0}, end : Nat, voters : Seq(Voter)]

State ==
    [actions : [ActionID -> ActionMeta \cup {None}], routes : SUBSET Address,
     params : [ParamKey -> Nat], types : [TypeKey -> Fee \cup {0}]]

\* What a block has written so far; 0 is no value for a parameter or a user type.
Change ==
    [put : [ActionID -> ActionMeta \cup {None}], del : SUBSET ActionID,
     join : SUBSET Address, leave : SUBSET Address,
     params : [ParamKey -> Nat], types : [TypeKey -> Fee \cup {0}]]

\* DefaultGenesis; NewSysParamsState does not take over the validators' share, so
\* that the first two do not add up to a hundred.
GenesisParams ==
    [routePerc |-> 30, serPerc |-> 50, routeBase |-> 20, routeMerit |-> 80,
     serBase |-> 20, serMerit |-> 80, burn |-> 20]

\* Nothing pending: for params 0 everywhere, which is TotalTokens = 0.
NoPending ==
    [put |-> [i \in ActionID |-> None], del |-> {}, join |-> {}, leave |-> {},
     params |-> [k \in ParamKey |-> 0], types |-> [t \in TypeKey |-> 0]]

\* Blocks up to here have made some addresses routes; no action is open.
Init ==
    /\ \E r \in SUBSET Address :
          cur = [actions |-> [i \in ActionID |-> None], routes |-> r,
                 params |-> [k \in ParamKey |-> GenesisParams[k]],
                 types |-> [t \in TypeKey |-> 0]]
    /\ pending = NoPending
    /\ layer = cur /\ disk = cur
    /\ now = 0 /\ btime = 0
    /\ phase = "idle" /\ executed = FALSE /\ total = 0 /\ renewed = {}

TypeOK ==
    /\ cur \in State /\ layer \in State /\ disk \in State
    /\ pending \in Change
    /\ now \in 0..MaxTime /\ btime \in 0..now
    /\ phase \in {"idle", "block", "down"}
    /\ total \in 0..MaxTxs /\ executed \in BOOLEAN /\ renewed \subseteq ActionID

-----------------------------------------------------------------------------
(* Reading and writing the sub-states.                                      *)

\* GetActionMeta: in cur and not overdue.
Open(id) == cur.actions[id] # None /\ cur.actions[id].end >= now

NumRoutes == Cardinality(cur.routes)

\* PutAction.
PutAction(p, id, a) == [p EXCEPT !.put[id] = a, !.del = @ \ {id}]

\* DelAction.
DelAction(p, id) == [p EXCEPT !.put[id] = None, !.del = @ \cup {id}]

\* ModifyParams: a half of a hundred takes the other half along.
Modified(params, key, val) ==
    [k \in ParamKey |->
        IF k = key THEN val
        ELSE IF \E h \in Halves : {k, key} = Range(h) THEN 100 - val
        ELSE params[k]]

MergedKeepingDeleted ==
    [actions |-> [i \in ActionID |-> IF pending.put[i] # None THEN pending.put[i]
                                     ELSE cur.actions[i]],
     routes  |-> (cur.routes \cup pending.join) \ pending.leave,
     params  |-> cur.params, types |-> cur.types]

\* Commit: additions, then deletions; parameters when there are pending ones.
Merged ==
    [actions |-> [i \in ActionID |-> IF i \in pending.del THEN None
                                     ELSE IF pending.put[i] # None THEN pending.put[i]
                                     ELSE cur.actions[i]],
     routes  |-> (cur.routes \cup pending.join) \ pending.leave,
     params  |-> IF \E k \in ParamKey : pending.params[k] # 0 THEN pending.params ELSE cur.params,
     types   |-> [t \in TypeKey |-> IF pending.types[t] # 0 THEN pending.types[t] ELSE cur.types[t]]]

\* AddUserType writes a user type under the prefix of the users, where ReloadUsers
\* finds a record too short for a UserMeta: with one, Initialize fails.
Startable == \A t \in TypeKey : disk.types[t] = 0

WithoutOverdue(actions) ==
    [i \in ActionID |-> IF actions[i].end < now THEN None ELSE actions[i]]

\* What the Reload functions read from the database: overdue actions are skipped, and
\* under the prefix ReloadUserTypes looks at nothing is ever stored.
Reloaded ==
    [disk EXCEPT !.actions = WithoutOverdue(disk.actions),
                 !.types = [t \in TypeKey |-> 0]]

-----------------------------------------------------------------------------
(* Transactions.                                                            *)

Executing ==
    /\ phase = "block" /\ total < MaxTxs
    /\ executed' = TRUE /\ total' = total + 1

Rest == UNCHANGED <<cur, disk, now, btime, phase>>

\* The proposer's own vote.
FirstVoters(s) ==
    IF (s = Root /\ NumRoutes < 3) \/ s \in cur.routes THEN <<s>> ELSE <<>>

WriteAction(id, a) ==
    /\ pending' = PutAction(pending, id, a)
    /\ layer' = [layer EXCEPT !.actions[id] = a]

\* The checks per action type of ProposalTx: something would change.
Proposable(type, key, val) ==
    \/ type = "param" /\ key \in ParamKey /\ val \in Percent /\ cur.params[key] # val
    \/ type = "addType" /\ key \in TypeKey /\ val \in Fee /\ cur.types[key] = 0
    \/ type = "modType" /\ key \in TypeKey /\ val \in Fee /\ cur.types[key] \notin {0, val}

RepeatedInCur(id, key) ==
    \/ cur.actions[id] # None
    \/ \E i \in ActionID : cur.actions[i].key = key

\* ProposalRepeat.
Repeated(id, key) ==
    \/ cur.actions[id] # None \/ pending.put[id] # None
    \/ \E i \in ActionID : cur.actions[i].key = key \/ pending.put[i].key = key

\* ProposalTx by the sender s.
Propose(s, id, type, key, val) ==
    /\ Executing
    /\ Proposable(type, key, val)
    /\ ~Repeated(id, key)
    /\ WriteAction(id, [type |-> type, key |-> key, val |-> val, end |-> btime + Week,
                        voters |-> FirstVoters(s)])
    /\ UNCHANGED renewed /\ Rest

\* RegisterTx for the staker address a: whatever action has this id is replaced.
Register(s, id, a) ==
    /\ Executing
    /\ a \notin cur.routes
    /\ WriteAction(id, [type |-> "addStaker", key |-> a, val |-> 0, end |-> btime + Week,
                        voters |-> FirstVoters(s)])
    /\ renewed' = renewed \cup {id} /\ Rest

\* Who may vote: routes, and root while there are at most three of them.
MayVote(s) == s \in cur.routes \/ (s = Root /\ NumRoutes <= 3)

VoteAfresh(s, id) ==
    /\ Executing
    /\ MayVote(s)
    /\ Open(id) /\ s \notin Range(cur.actions[id].voters)
    /\ WriteAction(id, [cur.actions[id] EXCEPT !.voters = <<s>>])
    /\ UNCHANGED renewed /\ Rest

\* VoteTx: a copy of the action in cur with one more voter.
Vote(s, id) ==
    /\ Executing
    /\ MayVote(s)
    /\ Open(id) /\ s \notin Range(cur.actions[id].voters)
    /\ WriteAction(id, [cur.actions[id] EXCEPT !.voters = Append(@, s)])
    /\ UNCHANGED renewed /\ Rest

ConfirmedByAnyone(a) == NumRoutes < 3 => Root \in Range(a.voters)

\* The decision, in GovernTx and in IsBeConfirmed: root's while there are fewer
\* than three routes, else two thirds of their number, rounded down.
Confirmed(a) ==
    IF NumRoutes < 3 THEN Root \in Range(a.voters)
                     ELSE Len(a.voters) >= (NumRoutes * 2) \div 3

\* GovernTx; the action stays, and may be carried out again while it is open.
Govern(id) ==
    /\ phase = "block" /\ executed' = TRUE /\ UNCHANGED total
    /\ Open(id) /\ Confirmed(cur.actions[id])
    /\ LET a == cur.actions[id] IN
       \/ /\ a.type = "param" /\ a.val \in 5..95
          /\ pending' = [pending EXCEPT !.params = Modified(cur.params, a.key, a.val)]
          /\ layer' = [layer EXCEPT !.params = Modified(cur.params, a.key, a.val)]
       \/ /\ a.type \in {"addType", "modType"}
          /\ pending' = [pending EXCEPT !.types[a.key] = a.val]
          /\ layer' = [layer EXCEPT !.types[a.key] = a.val]
    /\ UNCHANGED renewed /\ Rest

\* StakeTx of a route a by the sender s: some action about the sender is found
\* (the first in the map's order) and must be confirmed; only the root's vote is
\* looked up in a way that refuses an overdue one.
Stake(s, a) ==
    /\ Executing
    /\ a \notin cur.routes
    /\ \E id \in ActionID :
          /\ cur.actions[id].type = "addStaker" /\ cur.actions[id].key = s
          /\ Confirmed(cur.actions[id])
          /\ NumRoutes < 3 => Open(id)
          /\ pending' = [DelAction(pending, id) EXCEPT !.join = @ \cup {a}, !.leave = @ \ {a}]
          /\ layer' = [layer EXCEPT !.actions[id] = None, !.routes = @ \cup {a}]
    /\ UNCHANGED renewed /\ Rest

\* UnStakeTx of a route (the amounts are in Ledger).
Unstake(a) ==
    /\ Executing
    /\ a \in cur.routes
    /\ pending' = [pending EXCEPT !.leave = @ \cup {a}, !.join = @ \ {a}]
    /\ layer' = [layer EXCEPT !.routes = @ \ {a}]
    /\ UNCHANGED renewed /\ Rest

-----------------------------------------------------------------------------
(* Blocks, time and restarts.                                               *)

\* The next block, with a time between its parent's and the clock's.  verify admits
\* blocks from up to futureBound, ten seconds, beyond the clock, which only a node
\* whose clock is ahead makes: they are left out.
StartBlock ==
    /\ phase = "idle"
    /\ phase' = "block" /\ executed' = FALSE
    /\ btime' \in btime..now
    /\ layer' = disk /\ renewed' = {}
    /\ UNCHANGED <<cur, pending, disk, now, total>>

Accept ==
    /\ phase = "block" /\ executed
    /\ phase' = "idle" /\ executed' = FALSE
    /\ disk' = layer
    /\ cur' = Merged /\ pending' = NoPending
    /\ renewed' = {}
    /\ UNCHANGED <<layer, now, btime, total>>

\* The clock, in units that are long against the execution of a block.
Tick ==
    /\ phase = "idle" /\ now < MaxTime
    /\ now' = now + 1
    /\ UNCHANGED <<cur, pending, layer, disk, btime, phase, executed, total, renewed>>

\* SamaNew.
Restart ==
    /\ phase = "idle"
    /\ IF Startable THEN cur' = Reloaded /\ UNCHANGED phase
                    ELSE phase' = "down" /\ UNCHANGED cur
    /\ pending' = NoPending
    /\ UNCHANGED <<layer, disk, now, btime, executed, total, renewed>>

Next ==
    \/ StartBlock \/ Accept \/ Tick \/ Restart
    \/ \E s \in Voter, id \in ActionID :
          \/ \E type \in {"param", "addType", "modType"}, key \in ParamKey \cup TypeKey,
                val \in Percent \cup Fee : Propose(s, id, type, key, val)
          \/ \E a \in Address : Register(s, id, a)
          \/ Vote(s, id)
    \/ \E id \in ActionID : Govern(id)
    \/ \E s, a \in Address : Stake(s, a)
    \/ \E a \in Address : Unstake(a)

Spec == Init /\ [][Next]_vars

-----------------------------------------------------------------------------
(* Properties.                                                              *)

\* The voters of an action.
Supporters(a) == Range(a.voters)

\* No address is counted twice among the voters of an action, whether its votes
\* came in one block or in two (vote_tx.go:46, proposal_tx.go:82).
NoDoubleVote ==
    \A i \in ActionID : \A a \in {cur.actions[i], pending.put[i], disk.actions[i]} :
        Cardinality(Supporters(a)) = Len(a.voters)

\* ProposalRepeat looks at the pending actions too, so that two open proposals
\* never have the same key, also when both were proposed in one block; registrations
\* are not checked (proposal_tx.go:72, action_status.go:184).
ProposalKeysUnique ==
    \A i, j \in ActionID :
        LET a == cur.actions[i]  b == cur.actions[j] IN
        i # j /\ a # None /\ b # None /\ a.type # "addStaker" => a.key # b.key

\* A block never takes a vote of an earlier block away from an action: VoteTx copies
\* the voters it found, and only RegisterTx with the same id starts afresh
\* (vote_tx.go:55).
VotesKept ==
    [][phase = "block" /\ phase' = "idle" =>
         \A i \in ActionID \ renewed :
             cur'.actions[i] # None => IsPrefix(cur.actions[i].voters, cur'.actions[i].voters)]_vars

\* Whether some action of the accepted state supports the change of type and key.
Backed(types, key) ==
    \E i \in ActionID :
        LET a == cur.actions[i] IN
        /\ a.type \in types /\ a.key = key
        /\ Root \in Supporters(a) \/ Cardinality(Supporters(a)) >= 2

\* What a block changes was decided before it: a parameter, a user type or the set
\* of routes grows only with an action in the accepted state that root or two
\* different addresses support; votes of the same block do not count
\* (govern_tx.go:47, state.go:609).
DecidedBefore ==
    [][/\ cur'.params # cur.params =>
             \E k \in ParamKey : cur'.params[k] # cur.params[k] /\ Backed({"param"}, k)
       /\ \A t \in TypeKey : cur'.types[t] # cur.types[t] => Backed({"addType", "modType"}, t)
       /\ cur'.routes \ cur.routes # {} => \E s \in Address : Backed({"addStaker"}, s)]_vars

\* The shares of routes and servers, and of base and merit, never exceed a hundred,
\* whatever is decided and however many decisions a block carries out: StakerReword
\* would hand out more than there is (system_params.go:223).
SharesWithinHundred ==
    \A h \in Halves : h[1] \in ParamKey => cur.params[h[1]] + cur.params[h[2]] <= 100

\* An accepted block leaves in the maps what it stored, field by field, but for the
\* overdue actions a restart has dropped (state.go:157).
MapsAreStored ==
    /\ [cur EXCEPT !.actions = <<>>] = [disk EXCEPT !.actions = <<>>]
    /\ \A i \in ActionID : cur.actions[i] # disk.actions[i] =>
          cur.actions[i] = None /\ disk.actions[i].end < now

\* Between blocks, a node that can be started at all reads from its database the maps
\* it has in memory, the overdue actions aside, which a running node keeps and a
\* restart drops (state.go:157, action_status.go:133).  Once a user type has been
\* decided no start succeeds, and what was decided is in the maps and in the database
\* but is never read back (users_type.go:14): then only MapsAreStored remains.
CommitMatchesReload ==
    phase = "idle" =>
        /\ MapsAreStored
        /\ Startable => [cur EXCEPT !.actions = WithoutOverdue(cur.actions)] = Reloaded

\* The records of the actions are sound whatever one block holds, although every
\* transaction reads the accepted state (proposal_tx.go:72, vote_tx.go:46,
\* system_params.go:223): one vote per voter, one open proposal per key, shares that
\* add up to no more than the whole.
ActionsWellFormed == TypeOK /\ NoDoubleVote /\ ProposalKeysUnique /\ SharesWithinHundred
=============================================================================
