-------------------------------- MODULE Issue ---------------------------------
(***************************************************************************)
(* From a command to an accepted transaction.  A client asks the API for    *)
(* the typed data of its transaction and signs it (SignIssueTx), or makes   *)
(* the transaction itself from the last accepted block and the suggested    *)
(* fee, asked for in two calls (SignIssueRawTx); or the node signs for it   *)
(* (SignSubmitRawTx).  The transaction is executed on the preferred block,  *)
(* goes to the mempool, and from there into a block whose price and cost    *)
(* follow from the recent blocks.  The client polls until the transaction   *)
(* is in the database.  IssueRawTx and the gossip between nodes take        *)
(* anybody's bytes: what was once signed may be sent again by others, as    *)
(* any transaction that the signature is good for and with the signature    *)
(* written in any way that is accepted, and accounts other than the clients *)
(* send what they like.  Nobody else can make a client's signature.         *)
(*                                                                          *)
(* The blocks are one line: chain, of which the first accepted ones are     *)
(* accepted; the last is preferred.  Building, verifying and preferring a   *)
(* block is one step, for the engine does it holding the node's lock.  Trees *)
(* of blocks are in Chain, the order of the mempool in Mempool, and what    *)
(* each transaction checks in Governance, Ledger and Nodes: here it may     *)
(* fail for any reason.                                                     *)
(***************************************************************************)
EXTENDS TypedData, FiniteSets, SequencesExt, FiniteSetsExt

CONSTANTS
    Client,
    Other,          \* values that others may put in a field
    Recoded,        \* the other byte strings that DeriveSender takes for a signature
    Outside,        \* bound: the kind, fields and price of what others may sign
    Asks,           \* Client -> the kinds it may ask for, and how: "typed", "raw", "node"
    StakerOf,       \* Client -> "route", "ser" or "none": what it stakes as
    LookbackWindow, TargetBlockRate, TargetUnits, MinPrice, MaxBlockSize, CacheSize,
    Word,           \* 2^64
    MaxTime,        \* bound: the clock
    MaxBlocks,      \* bound: blocks after genesis
    MaxTries,       \* bound: Client -> how often it runs its command
    MaxRestarts     \* bound: restarts of the node

\* What a field may hold.
Value == {Zero} \cup Other \cup (Client \X Field)

ASSUME IssueAssumption ==
    /\ Stranger \notin Client
    /\ \A o \in Outside : o.kind \in Kind /\ o.f \in [Struct[o.kind] -> Value] /\ o.price \in Nat
    /\ Asks \in [Client -> SUBSET (Kind \X {"typed", "raw", "node"})] /\ StakerOf \in [Client -> {"route", "ser", "none"}]
    /\ MaxTries \in [Client -> Nat]
    /\ {MinPrice, MaxTime, MaxBlocks, MaxRestarts} \subseteq Nat
    /\ {LookbackWindow, TargetBlockRate, TargetUnits, MaxBlockSize, CacheSize, Word}
         \subseteq Nat \ {0}
    /\ (MinPrice + MaxBlocks) * (MaxBlocks * TargetBlockRate) < Word

VARIABLES
    now,            \* the clock
    chain,          \* the blocks, from genesis to the preferred one
    accepted,       \* how many of them are accepted
    pool,           \* the mempool
    activityCache, cursor,  \* the ring of recent activity
    client,         \* what each client is doing
    asked,          \* history: what was asked for
    signed,         \* history: the signatures that clients have sent
    since,          \* history: accepted blocks when the node started
    restarts

nodeVars == <<chain, accepted, pool, activityCache, cursor, since, restarts>>
vars == <<nodeVars, now, client, asked, signed>>

-----------------------------------------------------------------------------
\* The places of the transactions in the first n blocks.
Executed(n) == UNION {{<<i, j>> : j \in DOMAIN chain[i].txs} : i \in 1..n}

At(p) == chain[p[1]].txs[p[2]]

Init ==
    /\ now = 0
    /\ chain = <<[time |-> 0, price |-> MinPrice, cost |-> 0, units |-> 0, txs |-> <<>>]>>
    /\ accepted = 1 /\ pool = {} /\ since = 1 /\ restarts = 0
    /\ activityCache = [i \in 0..CacheSize - 1 |-> <<>>] /\ cursor = 0
    /\ client = [c \in Client |-> [pc |-> "idle", kind |-> "none", tries |-> 0, held |-> <<>>]]
    /\ asked = {} /\ signed = {}

\* The client holds typed data, an unsigned or a signed transaction.
TypeOK ==
    /\ now \in 0..MaxTime
    /\ accepted \in 1..Len(chain) /\ since \in 1..accepted
    /\ \A b \in Range(chain) : b.time <= now /\ b.price >= MinPrice /\ b.cost \in Nat
    /\ \A t \in pool : t.by \in Client \cup {Stranger} /\ t.u.kind \in Kind
    /\ \A c \in Client :
         /\ client[c].pc \in {"idle", "signing", "accepted", "priced", "polling", "confirmed", "failed"}
         /\ client[c].kind \in Kind \cup {"none"} /\ client[c].tries \in 0..MaxTries[c]

-----------------------------------------------------------------------------
(* The execution context and the fees.                                      *)

\* lookback, from the preferred block, which is always in, to the first that is too old.
RecentBlocks(t) ==
    {i \in DOMAIN chain : \A j \in i..Len(chain) :
        t - chain[j].time <= LookbackWindow \/ j = Len(chain)}

RecentTxs(t) == UNION {Range(chain[i].txs) : i \in RecentBlocks(t)}

\* The sum of a sequence of numbers.
Total(s) ==
    LET sum[n \in 0..Len(s)] == IF n = 0 THEN 0 ELSE sum[n - 1] + s[n]
    IN  sum[Len(s)]

RecentUnits(t) ==
    Total([i \in DOMAIN chain |-> IF i \in RecentBlocks(t) THEN chain[i].units ELSE 0])

\* ExecutionContext's next cost, with BlockCostEnabled as in DefaultGenesis; MinBlockCost
\* is 0.
NextCost(t) ==
    LET last == Last(chain)
        elapsed == t - last.time
    IN  IF elapsed < TargetBlockRate THEN last.cost + TargetBlockRate - elapsed
        ELSE IF elapsed - TargetBlockRate < last.cost
             THEN last.cost - (elapsed - TargetBlockRate) ELSE 0

\* ExecutionContext's next price.
NextPrice(t) ==
    LET last == Last(chain)
        windows == (t - last.time) \div LookbackWindow + 1
    IN  CASE RecentUnits(t) > TargetUnits -> last.price + 1
          [] RecentUnits(t) < TargetUnits ->
                IF windows < last.price - MinPrice THEN last.price - windows ELSE MinPrice
          [] OTHER -> last.price

\* The value at feePercentile of the sorted values f: the smallest with enough of them up
\* to it.
Percentile(f) ==
    Min({v \in Range(f) :
            Cardinality({i \in DOMAIN f : f[i] <= v}) > ((Cardinality(DOMAIN f) - 1) * 60) \div 100})

\* SuggestedFee of the VM: a price, and the part of the cost for one transaction.
SuggestedFee(t) ==
    LET price == Percentile([i \in RecentBlocks(t) |-> chain[i].price])
        cost == Percentile([i \in RecentBlocks(t) |-> chain[i].cost])
        txs == Cardinality(RecentTxs(t))
    IN  [price |-> IF price < MinPrice THEN MinPrice ELSE price,
         cost  |-> IF txs = 0 THEN cost ELSE (cost \div txs) \div Cardinality(RecentBlocks(t))]

-----------------------------------------------------------------------------
(* Execution.                                                               *)

\* Whether the transaction's own checks and the fee can pass: whom a signature of something
\* else is taken for has no balance, and only these four kinds ask nothing of the sender.
OwnChecks(tx) ==
    /\ tx.u.kind = "proposal" => tx.u.f["ActionType"] # Zero
    /\ TypedDataOf(tx.u) # tx.digest =>
         tx.u.kind \in {"set", "register", "govern", "proposal"} /\ tx.u.price = 0

ExecutesAgain(tx, t) ==
    /\ tx.u.block # 0 /\ tx.u.price >= MinPrice
    /\ tx.u.block \in RecentBlocks(t)
    /\ OwnChecks(tx)

\* ExecuteBase and Execute, on the preferred block.
Executes(tx, t) ==
    /\ tx.u.block # 0 /\ tx.u.price >= MinPrice
    /\ tx.u.block \in RecentBlocks(t)
    /\ tx \notin RecentTxs(t)
    /\ OwnChecks(tx)

-----------------------------------------------------------------------------
(* The clients.                                                             *)

Becomes(c, pc, held) == client' = [client EXCEPT ![c].pc = pc, ![c].held = held]

\* A command is run, or run again because it did not succeed.
Begins(c, kind, how, pc, held) ==
    /\ client[c].pc \in {"idle", "failed"} /\ client[c].tries < MaxTries[c]
    /\ <<kind, how>> \in Asks[c] /\ client[c].kind \in {kind, "none"}
    /\ client' = [client EXCEPT ![c] = [pc |-> pc, kind |-> kind, tries |-> @.tries + 1,
                                        held |-> held]]

Wants(c, kind, given) == asked' = asked \cup {[by |-> c, kind |-> kind,
                                               f |-> Filled(kind, given, c).f]}

\* The signature leaves the client, for anybody to see.
Signs(c, td) == signed' = signed \cup {[by |-> c, digest |-> td]}

\* Submit, with the answer to the client, which may be lost.
Submit(c, tx, then) ==
    /\ Signs(c, tx.digest)
    /\ \/ Executes(tx, now) /\ pool' = pool \cup {tx}
          /\ (Becomes(c, then, <<tx>>) \/ Becomes(c, "failed", <<>>))
       \/ pool' = pool /\ Becomes(c, "failed", <<>>)
    /\ UNCHANGED <<chain, accepted, activityCache, cursor, since, restarts, now, asked>>

\* The API's SuggestedFee; the caller fills every field of the Input it can.
SuggestedFeeAPI(c, kind) ==
    LET fee == SuggestedFee(now)
        u == Filled(kind, Decoded[kind], c)
        price == fee.price + (IF FeeUnits(u) # 0 THEN fee.cost \div FeeUnits(u) ELSE 0)
    IN  /\ IF kind \in DOMAIN Decoded /\ HasBaseTx(kind)
           THEN Begins(c, kind, "typed", "signing",
                       <<TypedDataOf([u EXCEPT !.block = accepted, !.price = price])>>)
           ELSE Begins(c, kind, "typed", "failed", <<>>)
        /\ Wants(c, kind, Struct[kind])
        /\ UNCHANGED <<nodeVars, now, signed>>

\* The typed data is signed as it is; IssueTx makes the transaction from it.
IssueTx(c) ==
    /\ client[c].pc = "signing"
    /\ LET td == client[c].held[1]
           u == ParseTypedData(td)
       IN  IF u = <<>>
           THEN Signs(c, td) /\ Becomes(c, "failed", <<>>) /\ UNCHANGED <<nodeVars, now, asked>>
           ELSE Submit(c, Signed(u[1], td, c), "polling")

(* What the commands fill in.                                               *)
SetCmd == {"Value"}

TransferCmd == {"To", "Units"}

StakeCmd == {"StakerType", "StakeAmount", "StakerAddr"}

UnStakeCmd == {"StakerType", "RewardAmount", "EndTime"}

RegisterCmd == {"ActionID", "StakerType", "Params", "WorkKey", "StakerAddr"}

RefreshCmd == {"Params", "WorkKey"}

ProofCmd == {"Netflow", "StartTime", "EndTime"}

GovernCmd == {"ActionID"}

ClaimCmd == {"RewardAmount", "EndTime"}

VoteCmd == {"ActionID"}

ProposalCmd == {"ActionID", "ActionType", "Key", "NewValue", "StartTime", "EndTime"}

AddUserCmd == {"StartTime", "EndTime", "PayAmount", "UserType", "Address"}

Command ==
    [set |-> SetCmd, transfer |-> TransferCmd, stake |-> StakeCmd, unstake |-> UnStakeCmd,
     register |-> RegisterCmd, refresh |-> RefreshCmd, proof |-> ProofCmd,
     govern |-> GovernCmd, claim |-> ClaimCmd, vote |-> VoteCmd, proposal |-> ProposalCmd,
     addUser |-> AddUserCmd]

\* GetStakerType, which asks twice for a route and so finds no ser.
GetStakerType(c) == IF StakerOf[c] = "route" THEN <<"route">> ELSE <<>>

\* A command; the claim needs the type of the staker.  Then SignIssueRawTx: Accepted,
LastAccepted(c, kind) ==
    /\ IF kind = "claim" /\ GetStakerType(c) = <<>> THEN Begins(c, kind, "raw", "failed", <<>>)
       ELSE Begins(c, kind, "raw", "accepted",
                   <<[Filled(kind, Command[kind], c) EXCEPT !.block = accepted]>>)
    /\ Wants(c, kind, Command[kind])
    /\ UNCHANGED <<nodeVars, now, signed>>

\* ... SuggestedRawFee,
SuggestedRawFee(c) ==
    LET u == client[c].held[1]
        fee == SuggestedFee(now)
    IN  /\ client[c].pc = "accepted"
        /\ Becomes(c, "priced", <<IF FeeUnits(u) = 0 THEN u
                                  ELSE [u EXCEPT !.price = fee.price + fee.cost \div FeeUnits(u)]>>)
        /\ UNCHANGED <<nodeVars, now, asked, signed>>

\* ... and IssueRawTx.
IssueRawTx(c) ==
    /\ client[c].pc = "priced"
    /\ LET u == client[c].held[1] IN Submit(c, Signed(u, TypedDataOf(u), c), "polling")

\* SignSubmitRawTx, for Proof and Refresh of the API; nobody polls.
SignSubmitRawTx(c, kind) ==
    LET fee == SuggestedFee(now)
        u == [Filled(kind, Command[kind], c) EXCEPT !.block = accepted, !.price = fee.price]
        tx == Signed(u, TypedDataOf(u), c)
    IN  /\ kind \in {"proof", "refresh"}
        /\ \/ /\ Executes(tx, now) /\ pool' = pool \cup {tx} /\ Signs(c, tx.digest)
              /\ Begins(c, kind, "node", "idle", <<>>)
           \/ UNCHANGED <<pool, signed>> /\ Begins(c, kind, "node", "failed", <<>>)
        /\ Wants(c, kind, Command[kind])
        /\ UNCHANGED <<chain, accepted, activityCache, cursor, since, restarts, now>>

HasTxPreferred(tx) == \E p \in Executed(Len(chain)) : At(p) = tx

\* HasTx reads the database.
HasTx(tx) == \E p \in Executed(accepted) : At(p) = tx

\* PollTx ends when the transaction is there ...
PollTx(c) ==
    /\ client[c].pc = "polling" /\ HasTx(client[c].held[1])
    /\ Becomes(c, "confirmed", client[c].held)
    /\ UNCHANGED <<nodeVars, now, asked, signed>>

\* ... or its context is done.
GiveUp(c) ==
    /\ client[c].pc = "polling"
    /\ Becomes(c, "failed", <<>>)
    /\ UNCHANGED <<nodeVars, now, asked, signed>>

-----------------------------------------------------------------------------
(* Everybody else.                                                          *)

\* IssueRawTx and AppGossip, with bytes from anywhere.
SubmitBytes(tx) ==
    /\ Executes(tx, now) /\ pool' = pool \cup {tx}
    /\ UNCHANGED <<chain, accepted, activityCache, cursor, since, restarts, now, client, asked, signed>>

\* A client's signature is sent again, by a node that gossips or by anybody who has it,
\* as it is or written differently: without the offset that Sign adds, for instance.
Resubmit ==
    \E s \in signed, sig \in {"signed"} \cup Recoded : \E u \in Readings(s.digest, Other) :
        SubmitBytes([Signed(u, s.digest, s.by) EXCEPT !.sig = sig])

\* Another account's own transaction, on any block that the node has.
SubmitOther ==
    \E o \in Outside, b \in DOMAIN chain :
        LET u == [kind |-> o.kind, f |-> o.f, block |-> b, price |-> o.price]
        IN  SubmitBytes(Signed(u, TypedDataOf(u), Stranger))

-----------------------------------------------------------------------------
(* The node.                                                                *)

PayingAny(price, txs) == txs

\* The transactions that PopMax returns before one that is too cheap.
Paying(price, txs) == {t \in txs : t.u.price >= price}

\* The loop of BuildBlock over the transactions in the order of PopMax: what is too large
\* goes back to the mempool.
Filling(order, bad) ==
    LET block[n \in 0..Len(order)] ==
          IF n = 0 THEN [txs |-> <<>>, units |-> 0, large |-> {}]
          ELSE LET b == block[n - 1] IN
               IF b.units + FeeUnits(order[n].u) > MaxBlockSize
               THEN [b EXCEPT !.large = @ \cup {order[n]}]
               ELSE IF order[n] \in bad THEN b
               ELSE [b EXCEPT !.txs = Append(@, order[n]), !.units = @ + FeeUnits(order[n].u)]
    IN  block[Len(order)]

\* verify's surplus, in uint64.
Surplus(txs, price) ==
    Total([i \in DOMAIN txs |-> ((txs[i].u.price - price) % Word) * FeeUnits(txs[i].u)]) % Word

\* BuildBlock, and Verify of what it built; a block that fails takes its transactions
\* along.
BuildBlock ==
    LET price == NextPrice(now)
        cost == NextCost(now)
        pruned == {t \in pool : t.u.block \in RecentBlocks(now)}
        paying == Paying(price, pruned)
    IN  /\ pool # {} /\ Len(chain) <= MaxBlocks
        /\ \E order \in {s \in SetToSeqs(paying) : \A i, j \in DOMAIN s :
                            i < j => s[i].u.price >= s[j].u.price},
              fails \in SUBSET paying :
             LET bad == fails \cup {t \in paying : ~Executes(t, now)}
                 b == Filling(order, bad)
             IN  /\ pool' = (pruned \ paying) \cup b.large
                 /\ IF b.txs # <<>> /\ Surplus(b.txs, price) >= (price * cost) % Word
                    THEN chain' = Append(chain, [time |-> now, price |-> price, cost |-> cost,
                                                 units |-> b.units, txs |-> b.txs])
                    ELSE chain' = chain
        /\ UNCHANGED <<accepted, activityCache, cursor, since, restarts, now, client, asked, signed>>

\* Activity, of a transaction; the vote's type is GovernTx's.
Activity(tx) ==
    [type |-> IF tx.u.kind = "vote" THEN "govern" ELSE tx.u.kind, sender |-> Sender(tx), tx |-> tx]

\* Accepted of the VM: the block's transactions go round the ring.
Accept ==
    LET txs == chain[accepted + 1].txs IN
    /\ accepted < Len(chain)
    /\ accepted' = accepted + 1
    /\ activityCache' = [k \in 0..CacheSize - 1 |->
                            LET at == {i \in DOMAIN txs : (cursor + i - 1) % CacheSize = k}
                            IN  IF at = {} THEN activityCache[k] ELSE <<Activity(txs[Max(at)])>>]
    /\ cursor' = cursor + Len(txs)
    /\ UNCHANGED <<chain, pool, since, restarts, now, client, asked, signed>>

\* RecentActivity of the API: from the newest back, at most once round.
RecentActivity ==
    LET n == Min({cursor, CacheSize}) IN
    [k \in 1..n |-> activityCache[(cursor - k) % CacheSize]]

Tick == now < MaxTime /\ now' = now + 1 /\ UNCHANGED <<nodeVars, client, asked, signed>>

\* The node stops and starts: the mempool, the ring and what is not accepted are gone.
Restart ==
    /\ restarts < MaxRestarts /\ restarts' = restarts + 1
    /\ chain' = SubSeq(chain, 1, accepted) /\ pool' = {} /\ since' = accepted
    /\ activityCache' = [i \in 0..CacheSize - 1 |-> <<>>] /\ cursor' = 0
    /\ UNCHANGED <<accepted, now, client, asked, signed>>

Next ==
    \/ BuildBlock \/ Accept \/ Tick \/ Restart \/ Resubmit \/ SubmitOther
    \/ \E c \in Client :
          \/ IssueTx(c) \/ SuggestedRawFee(c) \/ IssueRawTx(c) \/ PollTx(c) \/ GiveUp(c)
          \/ \E kind \in Kind :
                SuggestedFeeAPI(c, kind) \/ LastAccepted(c, kind) \/ SignSubmitRawTx(c, kind)

Spec == Init /\ [][Next]_vars

-----------------------------------------------------------------------------
(* Properties.                                                              *)

\* What c asked for is u, field by field, except for what no signature covers: when an
\* unstake ends, and whether an action is voted for or taken as decided.
AsSigned(a, u) ==
    /\ a.kind = u.kind \/ {a.kind, u.kind} = {"vote", "govern"}
    /\ \A x \in Struct[u.kind] : a.f[x] = u.f[x] \/ (u.kind = "unstake" /\ x = "EndTime")

\* Every transaction that is executed in a client's name is one that it asked for, in
\* every field a signature covers, whichever way it took to be described, signed and read
\* back and whoever sends it (decoder.go:261, 391, tx.go:45).  The end time of an unstake
\* is not covered (unstake_tx.go:89), and a vote is signed as a govern (vote_tx.go:83):
\* there whoever sends the bytes decides.
AsAsked ==
    \A p \in Executed(Len(chain)) :
        LET t == At(p) IN
        t.by \in Client =>
            Sender(t) = t.by /\ \E a \in asked : a.by = t.by /\ AsSigned(a, t.u)

\* No transaction is executed twice, and no client's signatures are for more than the
\* commands it ran, although answers get lost, commands are run again with what may be
\* the same bytes and anybody sends them again (tx.go:95, helper.go:120).  One signature is
\* for one execution, unless it leaves open which transaction it is for or is written in
\* another way, which makes another id (crypto.go:33, tx.go:52).
ExecutedOnce ==
    /\ \A p, q \in Executed(Len(chain)) : At(p) = At(q) => p = q
    /\ \A p, q \in Executed(Len(chain)) :
         p # q /\ At(p).by \in Client /\ At(p).by = At(q).by /\ At(p).digest = At(q).digest =>
            At(p).u.kind \in {"unstake", "vote", "govern"} \/ At(p).sig # At(q).sig
    /\ \A c \in Client :
         Cardinality({At(p).digest : p \in {q \in Executed(Len(chain)) : At(q).by = c}})
            <= client[c].tries

\* A confirmation is final: the transaction is in an accepted block, and stays there
\* through restarts (client.go:204, public_service.go:141).
ConfirmedIsStored ==
    \A c \in Client : client[c].pc = "confirmed" =>
        \E i \in 1..accepted : client[c].held[1] \in Range(chain[i].txs)

\* In the blocks this code builds every transaction pays at least the block's price and
\* together they pay the block's cost, in integers that do not wrap: the check of the
\* surplus alone, without the one of the builder, would not ensure it (block.go:217,
\* builder.go:54).
PriceCovered ==
    \A i \in 2..Len(chain) :
        LET b == chain[i] IN
        /\ \A t \in Range(b.txs) : t.u.price >= b.price
        /\ Total([j \in DOMAIN b.txs |-> (b.txs[j].u.price - b.price) * FeeUnits(b.txs[j].u)])
             >= b.price * b.cost

\* Waiting never makes the next block dearer: neither its cost nor its price rises with
\* time alone, and the cost stays below the number of blocks times the target rate
\* (chain_vm.go:91).
WaitingIsCheaper ==
    \A t \in now..MaxTime :
        /\ NextCost(t) <= NextCost(now) /\ NextPrice(t) <= NextPrice(now)
        /\ NextCost(t) <= Len(chain) * TargetBlockRate

\* RecentActivity gives the latest transactions accepted since the node started, newest
\* first, as many as the ring has room for, and none twice (public_service.go:279).
ActivityExact ==
    LET txs[n \in 0..accepted - since] ==
          IF n = 0 THEN <<>> ELSE txs[n - 1] \o chain[since + n].txs
        done == txs[accepted - since]
    IN  /\ Len(RecentActivity) = Min({Len(done), CacheSize})
        /\ \A k \in DOMAIN RecentActivity :
             RecentActivity[k] = <<Activity(done[Len(done) - k + 1])>>

\* What the API answers about accepted transactions is true of the chain: a confirmation
\* and the list of recent activity (public_service.go:141, 279).
AnswersRight == ConfirmedIsStored /\ ActivityExact

\* The fees of the blocks this code builds: prices and costs in their ranges, paid by
\* the transactions, and no dearer by waiting (block.go:217, chain_vm.go:91).
FeesRight == TypeOK /\ PriceCovered /\ WaitingIsCheaper
=============================================================================
