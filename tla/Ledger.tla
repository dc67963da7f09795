-------------------------------- MODULE Ledger --------------------------------
(***************************************************************************)
(* Tokens: balances and locked stakes, which live in the database only, and *)
(* what samaState keeps in memory beside it for the rewards: the stakers,   *)
(* their reward records, the work proved by the nodes, the yields and the   *)
(* users.  Balances are read in the database of the block and see earlier   *)
(* transactions of it; the records are read in cur, the maps of the last    *)
(* accepted block (users excepted), and written to pending and the layer.   *)
(*                                                                          *)
(* A reward is the base share, one token for each second staked: the rates  *)
(* by year and role, the merit share and the share in the yields are not    *)
(* modelled.  All stakers are of one type.  Whether a sender may stake is   *)
(* decided in Governance.  Blocks follow one another undisturbed; the first *)
(* start of the node, with its crashes, comes before them.                  *)
(***************************************************************************)
EXTENDS Integers, FiniteSets, FiniteSetsExt

CONSTANTS
    Address,        \* accounts; each may stake, prove work and pay
    User,           \* users that may be added
    Alloc,          \* balance of every address in the genesis allocation
    TxFee,          \* FeeUnits * price
    StakeAmount,    \* RouteStake
    UserFee, Yield, \* PayAmount of a user, and the part of it that is not burnt
    Day, Week, Year, MinStake,  \* seconds, counted from ChainCreateTime
    Effective,      \* EffectiveSecs
    MaxTime,        \* bound: the wall clock
    MaxLag,         \* bound: age of a block when it is executed
    MaxTxs          \* bound: transactions, of all blocks

ASSUME LedgerAssumption ==
    /\ IsFiniteSet(Address)
    /\ {Alloc, TxFee, StakeAmount, UserFee, Yield, Week, MinStake, Effective} \subseteq Nat
    /\ {Day, Year} \subseteq Nat \ {0} /\ {MaxTime, MaxLag, MaxTxs} \subseteq Nat
    /\ Yield <= UserFee /\ 2 * Day <= Week /\ Effective <= Day /\ MaxLag <= Day
    /\ Effective <= StakeAmount

VARIABLES
    phase,          \* "new", "loaded", "keyed": the first start; "idle", "block"; "down"
    cur, pending,   \* the maps of samaState
    layer, disk,    \* databases: of the block, and vm.db
    now, btime,     \* time.Now, and the time of the last block
    executed, total,        \* transactions, in this block and in all
    settled,        \* history: UpdateStakerReward ran in this block
    paid, since, claimed,   \* history: rewards paid out, the time staked, claims that paid
    burnt,          \* history: fees, and payments of users
    worked, joined, collected,  \* history: work proved, times added, yields of users
    irregular       \* history: what happened that the books do not survive

memVars == <<cur, pending>>
dbVars == <<layer, disk>>
history == <<settled, paid, since, claimed, burnt, worked, joined, collected, irregular>>
vars == <<phase, memVars, dbVars, now, btime, executed, total, history>>

-----------------------------------------------------------------------------
NoReward == [acc |-> 0, last |-> -1, claim |-> -1]

Zero == [a \in Address |-> 0]

\* stakers: StakeTime, or -1; pow: TotalTime; yields: Total.
Empty ==
    [bal |-> Zero, locked |-> Zero, stakers |-> [a \in Address |-> -1],
     rewards |-> [a \in Address |-> NoReward], global |-> -1,
     pow |-> Zero, yields |-> 0, users |-> {}]

NoPending ==
    [join |-> [a \in Address |-> -1], leave |-> {}, rewards |-> [a \in Address |-> NoReward],
     pow |-> Zero, yields |-> 0, users |-> {}]

Init ==
    /\ phase = "new"
    /\ cur = Empty /\ pending = NoPending
    /\ layer = Empty /\ disk = Empty
    /\ now = 0 /\ btime = 0 /\ executed = 0 /\ total = 0
    /\ settled = 0 /\ burnt = 0 /\ collected = 0 /\ joined = [u \in User |-> 0]
    /\ paid = Zero /\ since = Zero /\ worked = Zero /\ claimed = [a \in Address |-> [num |-> 0, at |-> 0]]
    /\ irregular = {}

Reward == [acc : Int, last : Int, claim : Int]

Database ==
    [bal : [Address -> Nat], locked : [Address -> Nat], stakers : [Address -> Int],
     rewards : [Address -> Reward], global : Int, pow : [Address -> Nat], yields : Nat,
     users : SUBSET User]

Change ==
    [join : [Address -> Int], leave : SUBSET Address, rewards : [Address -> Reward],
     pow : [Address -> Nat], yields : Nat, users : SUBSET User]

TypeOK ==
    /\ phase \in {"new", "loaded", "keyed", "idle", "block", "down"}
    /\ cur \in Database /\ layer \in Database /\ disk \in Database /\ pending \in Change
    /\ now \in 0..MaxTime /\ btime \in 0..now
    /\ total \in 0..MaxTxs /\ executed \in 0..total

SumOver(f) == MapThenSumSet(LAMBDA a : f[a], Address)

-----------------------------------------------------------------------------
(* The first start: Initialize writes to vm.db without a batch.             *)

LoadAdding ==
    /\ phase = "new"
    /\ phase' = "loaded"
    /\ disk' = [disk EXCEPT !.bal = [a \in Address |-> @[a] + Alloc]]
    /\ UNCHANGED <<memVars, layer, now, btime, executed, total, history>>

\* Genesis.Load commits the allocations together.
Load ==
    /\ phase = "new"
    /\ phase' = "loaded"
    /\ disk' = [disk EXCEPT !.bal = [a \in Address |-> Alloc]]
    /\ UNCHANGED <<memVars, layer, now, btime, executed, total, history>>

\* SetLastAccepted of the genesis block: the key, then the block.
PutLastAcceptedKey ==
    /\ phase = "loaded"
    /\ phase' = "keyed"
    /\ UNCHANGED <<memVars, dbVars, now, btime, executed, total, history>>

PutGenesisBlock ==
    /\ phase = "keyed"
    /\ phase' = "idle"
    /\ cur' = disk
    /\ UNCHANGED <<pending, dbVars, now, btime, executed, total, history>>

\* Without the key the start begins anew, over the same allocations; with the key
\* and without the block GetStatelessBlock fails, at this start and at every later one.
CrashAtFirstStart ==
    /\ phase \in {"loaded", "keyed"}
    /\ phase' = IF phase = "loaded" THEN "new" ELSE "down"
    /\ UNCHANGED <<memVars, dbVars, now, btime, executed, total, history>>

-----------------------------------------------------------------------------
(* Rewards.                                                                 *)

Stakers == {a \in Address : cur.stakers[a] >= 0}

WorkSecsOfWholeYear(i, start, end) ==
    LET from == i * Year  to == (i + 1) * Year IN
    (IF to < end THEN to ELSE end) - from

\* The part of start..end in the year i.
WorkSecs(i, start, end) ==
    LET from == i * Year  to == (i + 1) * Year IN
    (IF to < end THEN to ELSE end) - (IF from > start THEN from ELSE start)

\* StakerReword: from the record's time, or the stake time when there is none, to
\* end, year by year; nothing at all when end is in an earlier year.
StakerReword(a, end) ==
    LET r == cur.rewards[a]
        start == IF r = NoReward THEN cur.stakers[a] ELSE r.last
    IN  r.acc + MapThenSumSet(LAMBDA i : WorkSecs(i, start, end), (start \div Year)..(end \div Year))

\* UpdateStakerReward: everybody's record is brought to the time end, with the
\* claim time of everybody, and the record of the one that is paid is emptied.
Settled(rewards, who, end) ==
    [a \in Address |->
        IF a \in Stakers /\ cur.stakers[a] < end
        THEN [acc |-> IF a = who THEN 0 ELSE StakerReword(a, end), last |-> end, claim |-> end]
        ELSE rewards[a]]

\* It refuses an end before the global record and does nothing at the same time:
\* the record in cur, which only a restart reads from the database.
TooEarly(end) == cur.global > end
Skipped(end) == cur.global = end \/ Stakers = {}

\* The writes of a settlement, ModifyYields included, to pending and to a database.
PendingSettled(who, end) ==
    IF Skipped(end) THEN pending
    ELSE [pending EXCEPT !.rewards = Settled(@, who, end), !.yields = cur.yields]

LayerSettled(db, who, end) ==
    IF Skipped(end) THEN db
    ELSE [db EXCEPT !.rewards = Settled(@, who, end), !.global = end, !.yields = cur.yields]

\* Two settlements in one block both start from cur; one that goes back in time
\* may lose a year; one that is skipped leaves the record of the one it pays;
\* and ModifyYields starts from cur although a user of this block has paid.
Noted(who, end) ==
    irregular \cup {x \in {"twice", "backwards", "skipped", "yields"} :
        \/ x = "twice" /\ settled > 0
        \/ x = "yields" /\ pending.users # {} /\ ~Skipped(end)
        \/ x = "backwards" /\ \E a \in Stakers : cur.rewards[a].last > end
        \/ x = "skipped" /\ who \in Stakers /\ cur.global = end}

-----------------------------------------------------------------------------
(* Transactions: the fee is taken first, whatever the transaction does.     *)

Executing ==
    /\ phase = "block" /\ total < MaxTxs
    /\ executed' = executed + 1 /\ total' = total + 1

Rest == UNCHANGED <<phase, cur, disk, now, btime>>

\* ModifyBalance: refused when the balance does not suffice.
Pays(a, units) == layer.bal[a] >= units

Transfer(s, to, units) ==
    /\ Executing
    /\ s # to /\ units > 0 /\ Pays(s, TxFee + units)
    /\ layer' = [layer EXCEPT !.bal[s] = @ - TxFee - units, !.bal[to] = @ + units]
    /\ burnt' = burnt + TxFee
    /\ UNCHANGED <<pending, settled, paid, since, claimed, worked, joined, collected, irregular>>
    /\ Rest

StakeUnlocked(s, a) ==
    /\ Executing
    /\ cur.stakers[a] = -1 /\ Pays(s, TxFee) /\ ~TooEarly(btime)
    /\ pending' = [PendingSettled(a, btime) EXCEPT !.join[a] = btime, !.leave = @ \ {a}]
    /\ layer' = [LayerSettled(layer, a, btime) EXCEPT
                    !.bal[s] = @ - TxFee - StakeAmount, !.stakers[a] = btime]
    /\ burnt' = burnt + TxFee + StakeAmount
    /\ UNCHANGED <<settled, paid, since, claimed, worked, joined, collected, irregular>>
    /\ Rest

\* StakeTx by s for the address a: the others are settled, then the staker is put.
\* A record left from an earlier stake stays, and with it its time.
Stake(s, a) ==
    /\ Executing
    /\ cur.stakers[a] = -1 /\ Pays(s, TxFee + StakeAmount) /\ ~TooEarly(btime)
    /\ pending' = [PendingSettled(a, btime) EXCEPT !.join[a] = btime, !.leave = @ \ {a}]
    /\ layer' = [LayerSettled(layer, a, btime) EXCEPT
                    !.bal[s] = @ - TxFee - StakeAmount, !.locked[s] = @ + StakeAmount,
                    !.stakers[a] = btime]
    /\ settled' = settled + 1 /\ burnt' = burnt + TxFee
    /\ since' = [since EXCEPT ![a] = btime]
    /\ irregular' = Noted(a, btime) \cup {x \in {"again"} : cur.rewards[a] # NoReward}
    /\ UNCHANGED <<paid, claimed, worked, joined, collected>>
    /\ Rest

\* UnStakeTx of a, for the time end within the last Effective seconds: the stake is
\* released from the balance that locked it, and paid with the reward.
Unstake(a, end) ==
    /\ Executing
    /\ end <= now /\ now <= end + Effective
    /\ a \in Stakers /\ now >= cur.stakers[a] + MinStake /\ end >= cur.stakers[a]
    /\ layer.locked[a] >= StakeAmount /\ Pays(a, TxFee) /\ ~TooEarly(end)
    /\ pending' = [PendingSettled(a, end) EXCEPT !.join[a] = -1, !.leave = @ \cup {a}]
    /\ layer' = [LayerSettled(layer, a, end) EXCEPT
                    !.locked[a] = @ - StakeAmount, !.stakers[a] = -1,
                    !.bal[a] = @ - TxFee + StakeAmount + StakerReword(a, end)]
    /\ settled' = settled + 1 /\ burnt' = burnt + TxFee
    /\ paid' = [paid EXCEPT ![a] = @ + StakerReword(a, end)]
    /\ irregular' = Noted(a, end) \cup {x \in {"released"} : a \in pending.leave}
    /\ UNCHANGED <<since, claimed, worked, joined, collected>>
    /\ Rest

\* The start of the day, or the second before it.
ClaimEnds == LET day == (now \div Day) * Day IN {day, day - 1}

WeekIgnored(a) == cur.stakers[a] >= 0

\* GetLastClaimTime in the accepted state.
WeekPassed(a) == cur.rewards[a] = NoReward \/ now - cur.rewards[a].claim >= Week

\* ClaimTx of a staker.  (The foundation's address is never set.)
Claim(a, end) ==
    /\ Executing
    /\ end \in ClaimEnds
    /\ a \in Stakers /\ end >= cur.stakers[a]
    /\ WeekPassed(a) /\ Pays(a, TxFee) /\ ~TooEarly(end)
    /\ pending' = PendingSettled(a, end)
    /\ layer' = [LayerSettled(layer, a, end) EXCEPT !.bal[a] = @ - TxFee + StakerReword(a, end)]
    /\ settled' = settled + 1 /\ burnt' = burnt + TxFee
    /\ paid' = [paid EXCEPT ![a] = @ + StakerReword(a, end)]
    /\ claimed' = IF StakerReword(a, end) = 0 THEN claimed
                  ELSE [claimed EXCEPT ![a] = [num |-> @.num + 1, at |-> now]]
    /\ irregular' = Noted(a, end)
    /\ UNCHANGED <<since, worked, joined, collected>>
    /\ Rest

ProvedSinceAccept(a, secs) == cur.pow[a] + secs

\* PutPow adds to what is pending already, else to what is in cur.
Proved(a, secs) == (IF pending.pow[a] # 0 THEN pending.pow[a] ELSE cur.pow[a]) + secs

\* ProofTx of the working node a; it is free of fees.
Proof(a, secs) ==
    /\ Executing
    /\ pending' = [pending EXCEPT !.pow[a] = Proved(a, secs)]
    /\ layer' = [layer EXCEPT !.pow[a] = Proved(a, secs)]
    /\ worked' = [worked EXCEPT ![a] = @ + secs]
    /\ UNCHANGED <<settled, paid, since, claimed, burnt, joined, collected, irregular>>
    /\ Rest

\* GetUserMeta: the cache, then the database of the block.
Known(u) == u \in cur.users \/ u \in layer.users

\* AddUserTx: the payment leaves the balance, and a part of it becomes yield.
AddUser(s, u) ==
    /\ Executing
    /\ ~Known(u) /\ Pays(s, TxFee + UserFee)
    /\ pending' = [pending EXCEPT !.users = @ \cup {u}, !.yields = cur.yields + Yield]
    /\ layer' = [layer EXCEPT !.bal[s] = @ - TxFee - UserFee, !.users = @ \cup {u},
                              !.yields = cur.yields + Yield]
    /\ burnt' = burnt + TxFee + UserFee
    /\ joined' = [joined EXCEPT ![u] = @ + 1]
    /\ collected' = collected + Yield
    /\ irregular' = irregular \cup {x \in {"yields"} : pending.users # {}}
    /\ UNCHANGED <<settled, paid, since, claimed, worked>>
    /\ Rest

-----------------------------------------------------------------------------
(* Blocks, time and restarts.                                               *)

\* A block of a node whose clock agrees with this one's.  verify admits blocks from up
\* to futureBound, ten seconds, beyond the clock (block.go:166), which only a node
\* whose clock is ahead makes: they are left out.
StartBlock ==
    /\ phase = "idle"
    /\ phase' = "block" /\ executed' = 0 /\ settled' = 0
    /\ btime' \in btime..now /\ now - btime' <= MaxLag
    /\ layer' = disk
    /\ UNCHANGED <<memVars, disk, now, total, paid, since, claimed, burnt, worked, joined,
                   collected, irregular>>

\* Commit.  The global record has nothing pending, so that cur keeps its own.
Merged ==
    [cur EXCEPT
        !.stakers = [a \in Address |-> IF a \in pending.leave THEN -1
                                       ELSE IF pending.join[a] # -1 THEN pending.join[a] ELSE @[a]],
        !.rewards = [a \in Address |-> IF pending.rewards[a] # NoReward
                                       THEN pending.rewards[a] ELSE @[a]],
        !.pow = [a \in Address |-> IF pending.pow[a] # 0 THEN pending.pow[a] ELSE @[a]],
        !.yields = IF pending.yields # 0 THEN pending.yields ELSE @,
        !.users = @ \cup pending.users]

Accept ==
    /\ phase = "block" /\ executed > 0
    /\ phase' = "idle" /\ executed' = 0
    /\ disk' = layer
    /\ cur' = Merged /\ pending' = NoPending
    /\ UNCHANGED <<layer, now, btime, total, history>>

Tick ==
    /\ phase = "idle" /\ now < MaxTime
    /\ now' = now + 1
    /\ UNCHANGED <<phase, memVars, dbVars, btime, executed, total, history>>

\* SamaNew: everything is read back, the global record too.
Restart ==
    /\ phase = "idle"
    /\ cur' = disk /\ pending' = NoPending
    /\ UNCHANGED <<phase, dbVars, now, btime, executed, total, history>>

Next ==
    \/ Load \/ PutLastAcceptedKey \/ PutGenesisBlock \/ CrashAtFirstStart
    \/ StartBlock \/ Accept \/ Tick \/ Restart
    \/ \E s, a \in Address : Transfer(s, a, 1) \/ Stake(s, a)
    \/ \E a \in Address : \E end \in 0..now : Unstake(a, end) \/ Claim(a, end)
    \/ \E a \in Address : Proof(a, 1)
    \/ \E s \in Address, u \in User : AddUser(s, u)

Spec == Init /\ [][Next]_vars

-----------------------------------------------------------------------------
(* Properties.                                                              *)

\* Tokens are neither made nor lost: what the accounts hold and have locked, with
\* what was burnt, is the genesis allocation and the rewards paid, over any number
\* of crashes in the first start (genesis.go:165, storage.go:350, tx.go:104).
Conservation ==
    phase \in {"keyed", "idle", "block"} =>
        LET db == IF phase = "block" THEN layer ELSE disk IN
        SumOver(db.bal) + SumOver(db.locked) + burnt = Cardinality(Address) * Alloc + SumOver(paid)

\* Every staker is backed by a locked stake, although the stake is locked in the
\* sender's name and two stakes may pass in one block: unless a sender that locked
\* a second stake for somebody else releases both in one block
\* (stake_tx.go:47, unstake_tx.go:55).
StakesBacked ==
    "released" \notin irregular => \A db \in {disk, layer} :
        Cardinality({a \in Address : db.stakers[a] >= 0}) * StakeAmount <= SumOver(db.locked)

\* Each second a staker has staked is credited once, either in its record or paid
\* out, over years, claims, releases and stakes of others: unless two settlements
\* shared a block, one went back in time, one was skipped after a restart, or the
\* staker came back to an old record (state.go:297, state.go:460).
CreditedOnce ==
    phase = "idle" /\ irregular \subseteq {"yields"} =>
        \A a \in Address : cur.rewards[a] # NoReward =>
            paid[a] + cur.rewards[a].acc = cur.rewards[a].last - since[a]

\* Two claims of one staker that pay something are at least a week apart, up to the
\* rounding to days: unless two settlements share a block, one is skipped, or the
\* staker came back to an old record, which UpdateStakerReward passes over as long
\* as the stake is not older than the claim (claim_tx.go:36, state.go:476).
ClaimsSpaced ==
    [][\A a \in Address :
         /\ claimed[a].num > 0 /\ claimed'[a].num > claimed[a].num
         /\ irregular' \cap {"twice", "skipped", "again"} = {}
         => claimed'[a].at - claimed[a].at >= Week - Day]_vars

\* The proved time of a node is the sum of its proofs, also of several in one block
\* (pow_status.go:135).
WorkCounted == phase = "idle" => cur.pow = worked

\* A user pays once: GetUserMeta sees the users of the same block, and those that
\* have left the cache (add_user_tx.go:57, users_status.go:81).
UserPaysOnce == \A u \in User : joined[u] <= 1

\* The yields are the sum of what users paid for, as long as no block holds
\* something after a user that modifies them again (yields_status.go:66).
YieldsCounted == phase = "idle" /\ "yields" \notin irregular => cur.yields = collected

\* An accepted block leaves the maps as a restart would, the global record aside:
\* cur has it only from the last restart (state.go:157, reward_status.go:165).
CommitMatchesReload ==
    phase = "idle" =>
        /\ [cur EXCEPT !.bal = disk.bal, !.locked = disk.locked, !.global = disk.global] = disk
        /\ cur.global <= disk.global

\* The counters and the maps of an accepted block say what the transactions did, and
\* what a restart would read, although proofs, users and settlements of one block start
\* from different copies of them (state.go:157): the parts above, together.
RecordsRight == TypeOK /\ WorkCounted /\ YieldsCounted /\ UserPaysOnce /\ CommitMatchesReload
=============================================================================
