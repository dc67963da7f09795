# A verification project for SamaVM

SamaVM is a custom virtual machine for avalanchego: the consensus engine asks it
to build, parse, verify, accept and reject blocks, and the VM executes their
transactions (stakes, votes, rewards, users, values) on a key-value database.
This directory holds TLA+ models of the VM, TLC configurations that check them
on small instances, and TLAPS proofs of the results that matter most.

    tlc -workers 2 -config MCChain.cfg MCChain      # one run
    tlapm ChainProofs.tla                           # one proof module

`PROJECT.json` lists the components, the runs, the source lines behind every
definition, the hazards of the code, the findings and the theorems.

## Inventory

**Concurrency.** The engine, the API handlers and the gossip handler run under the
chain's context lock, so BuildBlock, ParseBlock, Verify, Accept, Reject, Submit and
SetPreference exclude each other. Two goroutines of the block builder do not take
that lock: `Build`, which turns mempool signals into messages to the engine, and
`Gossip`, which takes transactions from the mempool to send them to peers. The
mempool has a lock of its own, held per call. That avalanchego holds the context lock around
the engine's calls, around AppGossip and around handlers registered with `WriteLock`
(`vm.go:278`) is an assumption about code outside this repository, on which `Submit` of
Production (only between builds) and the one-step calls of the other modules rest.

| component | state | operations | interacts with | what must be right |
|---|---|---|---|---|
| mempool (`mempool/`) | two heaps with lookups, `newTxs`, `Pending` channel | Add, PopMax, PopMin, Remove, Prune, NewTxs | builder, gossip, Submit, Verified, Rejected | size limit, eviction of the worst paying, heaps in step, nothing left out of gossip |
| block builder (`vm/block_builder.go`, `vm/network.go`) | status, channels to the engine, gossip batch | Build, Gossip, signalTxsReady, HandleGenerateBlock, RegossipTxs | mempool, engine, timer | one request at a time, no lost wakeup, orderly shutdown |
| block production (`chain/builder.go`) | the block under construction, the transactions set aside | BuildBlock | mempool, samaState, layers | a transaction is in one place |
| timer (`utils/timer`) | timeout channel, flags, Go timer | SetTimeoutIn, Cancel, Stop, Dispatch | builder | requests fire, Stop is final |
| block tree (`chain/block.go`, `chain/tx.go`, `vm/chain_vm.go`, `vm/helpers.go`) | verified blocks, versiondb layers, last accepted | Verify, Accept, Reject, lookback, ExecutionContext | engine, database | no replay, layers complete, database is the accepted chain |
| life cycle (`vm/vm.go`) | preferred and last accepted block | Initialize, Shutdown, Submit | all | restart finds the accepted chain |
| samaState (`chain/state.go`, `*_status.go`, `users_type.go`, `node_params.go`, `system_params.go`) | per sub-state: cur, pendingAdd, pendingDel | Put, Del, Commit, Abort, Reload | transactions, Accept, BuildBlock, Submit | maps in memory agree with the database |
| transactions (`chain/*_tx.go`) | none | Execute | samaState, layers | checks hold also within a block |
| governance (`proposal_tx`, `register_tx`, `vote_tx`, `govern_tx`, `action_status`, `system_params`, `users_type`) | actions with their voters, parameters, user types | propose, register, vote, carry out | stakers, the wall clock | decisions rest on votes of earlier blocks, none counted twice |
| rewards and tokens (`stake_tx`, `unstake_tx`, `claim_tx`, `transfer_tx`, `add_user_tx`, `reward_status`, `pow_status`, `yields_status`, `users_status`) | balances and locked stakes in the database, records in memory | stake, unstake, claim, transfer, prove, add a user | layers, the wall clock | the books balance |
| nodes (`register_tx`, `refresh_tx`, `proof_tx`, `node_params`) | details by work address | register, refresh, prove | API cache and keystore | proofs count for registered nodes of stakers |
| storage, genesis (`chain/storage.go`, `chain/genesis.go`) | the database | SetLastAccepted, GetBlock, linkValues, Load | block tree | body and pointer written together, values restored |
| typed data (`chain/decoder.go`, `tdata/`) | none | TypedData, ParseTypedData, Decode | API, client | what is executed is what was asked for |
| API and client (`vm/public_service.go`, `vm/userkey.go`, `client/`, `cmd/`) | posted parameters, keys, the ring of recent activity | issue, poll, fees, keys | Submit, samaState | a repeated command is executed once, a confirmation is final |
| value tree (`tree/tree.go`) | the upload in progress | Upload, Download | client | what is downloaded is what was uploaded |

What is hard to test here: the two goroutines against BuildBlock; notifications that
are skipped or dropped; a status that waits for a timer; layers of blocks decided in
any order; a window that forgets; crashes between decisions; one set of pending maps
shared by every block, build attempt and submission; checks that read the maps of the
last accepted block while several transactions of one block write; records that are
written under one key and read back under another; answers that get lost and commands
that are run again; and prices that change between two calls of one client.

## Modules

**MempoolBase** has what the next three modules share: the transactions with their prices and
sizes, the limits, the list of transactions to gossip and the Pending channel.

**Mempool** is the pool as its users see it: a set `pool`, the list `newTxs`, the
one-slot channel `pending`. Each exported method is one action because it holds `mu`
throughout. Which of several equally priced transactions is taken is left open.
`handedOut` is a history variable. PopMax and PopMin of an empty pool panic in the
code; that step is in the modules of the callers.

**MempoolHeap** has the two heaps with their entries' indexes, as `tx_heap.go` and
`container/heap` (external) maintain them. `ImplementsMempool` says that it implements
Mempool, with `pool` mapped to the max-heap's lookup and `handedOut` to its own history
variable `gossiped`. The loops up and down of `container/heap` are rounds of one step
(`UpStep`, `DownStep`): a round that has nothing to swap leaves the heap as it is, and
there are at least as many rounds as swaps.

**Production** composes the mempool (an instance of Mempool, with `pool` for its
`mempool`), the engine thread inside BuildBlock (`pcE`), the Build goroutine (`pcB`), the
Gossip goroutine (`pcG`) and Shutdown. BuildBlock is one step per mempool call, since only
there can another goroutine come in between. The execution of a transaction may succeed or
fail; the final `verify` may fail. A panic ends the process (`crashed`). The build timer is
absent because nothing starts its dispatch loop.

**Timer** is the timer of `utils/timer` with its dispatch goroutine; the lock
sections are single steps, the gap between a receive and the Lock after it is not.
Requests are numbered so that an expiry can be traced to the request it was armed
for. `owed` and `cancelled` are history variables.

**Chain** is the tree of blocks: contents, status, the stack of versiondb layers
(`base`, `delta`), the database (`disk`, `diskLast`), the clock. What a block writes
is its own id, so a view of the database is the set of blocks it contains. The engine
(external) verifies only on the last accepted or a processing block, accepts only
children of the last accepted one and rejects the conflicting blocks before it goes
on. Blocks are as a builder of this program makes them, apart from their timestamps,
parents and transactions, which are arbitrary. `Restart` may come between any two
calls; Accept writes the database in one batch, so a crash inside it is a crash before
or after it.

**StateCache** is samaState with the sub-states of actions and stakers: `cur`, the
pending maps, the layer being executed on, the database. Transactions check `cur` and
write to both the pending maps and the layer. Any number of blocks may be verified and
undecided at once, each with its layer (`view`) over its parent's; they all write the one
set of pending maps, and Accept commits what is in it, whichever block wrote it. `Calls`
says what the engine does besides verifying the next block, accepting it and restarting:
verifying further blocks before it has decided the first (`ahead`), failing verifications,
rejections, builds, submissions. A bootstrapping node does none of these. Actions are voted on by
root, as while there are fewer than three routes. `cache` is a history variable that
records whether, since the last start, pending entries were left behind by a block, taken
away from one, or mixed with those of a block on another line: a block verified on any
other than the one verified last (`tip`).

The next three modules take the transactions one by one, with the state they read
(`cur`, the maps of the last accepted block) and write (`pending` and the block's
`layer`), and let blocks follow one another undisturbed, since StateCache is about what
disturbs them. Only transactions that succeed are steps, because a block with a failing
one is not accepted. In each, `Accept` is Commit and `Restart` is SamaNew, and
the wall clock is used where the code calls `time.Now`.

**Governance** has actions with their voters, the routes, the parameters that are voted
on and the user types. `Confirmed` is the decision, `FirstVoters` the proposer's own vote.
`Restart` shows that a node with a decided user type cannot start (`phase = "down"`):
`PrefixUserTypesKey` uses the prefix of the users. `Reloaded` is what the Reload functions
read: no overdue action, and no user type ever. `renewed` is a history variable.

**Ledger** has balances, locked stakes, stakers, reward records with the global one,
proved work, yields and users, and before the first block the first start with its crash
points. Rewards are counted in seconds: one token a second, the base share; rates, merit
and the shares in the yields are left out, so that crediting every second once is a
property one can state. `irregular` is a history variable that names the events the books
do not survive: two settlements in one block, one that goes back in time, one that is
skipped because a restart has read the global record, a stake over an old record, a
settlement or a second user after a user in one block, two releases in one block. The
properties say what holds as long as these are absent.

**Nodes** has the details of the nodes, the API's cache of posted parameters, the keystore
with its two writes, and the transactions under way between a client that made them and
the block that executes them. Work addresses and stakers overlap, for the code reads
details back under the stakers' addresses. `registered`, `foreign` and `torn` are history
variables; `foreign` collects the keys that a refresh wrote into a detail that is not the
key's own: another address's key, or one's own key in a detail one was not registered for,
which a restart may have put in the place of one's own.

**TypedData** is a table: for each kind of transaction its fields, the names they are
described under, and the names `ParseTypedData` and `Decode` read. A transaction read back
with a field that differs from the signed one has an unknown sender. Every field has a value of
its own, so that one read from another's name is noticed. Some kinds lose a
field in one of the directions (`unstake` is signed without its end time, `proposal` is
decoded without its type, `vote` is signed as `govern`). `Readings` are the transactions that
one signature is good for.

**Issue** extends TypedData and follows a transaction from a command to an accepted block.
It has the three ways to issue one (typed data, raw, signed by the node), each call of the
client a step of its own, the execution context with price and cost, the suggested fees,
the builder's choice by price and size, the surplus in uint64 (`Word` stands for 2^64 and is
small in the instance), the ring of recent activity, and polling. Not only honest senders
issue: whatever a client has signed (`signed`) may be sent again by anybody, as any
transaction the signature is good for and with the signature written in any way that
`DeriveSender` takes (`Resubmit`, `Recoded`), and other accounts send transactions of their
own (`SubmitOther`). What nobody can do is make a client's signature. The blocks form a
line, since trees are in Chain.

**Values** is what storage does to the values of a block when it is written and read back,
and the upload of a file chunk by chunk on top of it, with several clients, rejected
blocks, restarts and repeated uploads. A value is its own hash.

The modules named *Proofs* (of Production, Chain, StateCache, Governance, Ledger, Nodes,
Issue and Values) hold the theorems, the MC modules the instances. ProductionProofs also has
those of Mempool, MempoolHeap and Timer.

## Runs

| run | instance | shows |
|---|---|---|
| mempool | 3 transactions, two of one price, one filling a round; pool of 2; 4 entries in `newTxs` | limit, gossip coverage, every pooled transaction is handed out or leaves |
| heap | 7 transactions with ties, pool of 6 (three levels, so that a removal may sift up) | order, positions, membership, and the refinement of Mempool, checked on every transition; the view leaves out the gossip state, on which the heaps do not depend |
| production | 3 transactions: one below the block's price, two that do not fit together; pool of 2; one entry in `newTxs` | status exact, no lost wakeup, each transaction held once, a signal leads to a build, shutdown ends |
| timer | 3 requests, 3 cancellations | requests fire, Stop ends, cancelled requests stay quiet |
| chain | 3 blocks over genesis, 3 transactions, one per block, window 1, clock 0..2, future bound 2 | replay, layers, database, ancestry, restarts |
| state | 2 addresses, all calls, 2 blocks undecided at once, each with up to 2 transactions, 1 stake per address | maps right until disturbed, with several undecided blocks sharing the pending maps; a disturbed node only restarts in this instance, since the properties are about clean states |
| governance | 3 addresses and root, 2 actions, one pair of parameters, one user type, 3 transactions besides decisions, clock 0..2 with a week of 1 | no double votes, unique proposals, decisions rest on earlier votes, shares within a hundred |
| ledger | 2 addresses, 1 user, 4 transactions, clock 0..5 with a day of 2, a week of 4 and a year of 3 | tokens conserved, stakers backed, seconds credited once, claims spaced, users pay once |
| nodes | 2 work addresses and 2 stakers with one in common, 3 transactions, 2 API calls, 2 stakes, 1 restart | proofs backed, registry kept, keys listed |
| issue | either a client that asks once, for any kind in any way, with another account's transfers and others' value in the fields a signature leaves open, clock 0..1; or a server that runs one of four commands twice, with its signatures sent again in two ways of writing, clock 0..2, 1 restart; 2 blocks after genesis, window 1, ring of 2 | asked is executed, but for what no signature covers, and once; confirmations final; prices covered; activity exact |
| values | 2 clients, files of up to 3 chunks with one in common, a small and an empty file, 3 uploads, 1 restart | uploads whole, blocks restored, first setter kept |

Invariants whose parts belong together are checked as one conjunction of named parts, each
with its comment in the module: `HeapInvariant`, `StatusExact` (Production),
`ActionsWellFormed` (Governance), `RecordsRight` (Ledger), `DetailsRight` (Nodes),
`AnswersRight` and `FeesRight` (Issue), `StoreRight` (Values). The type invariants of
Mempool, Chain and StateCache are theorems and are not checked again.

The bounds make the interesting cases happen: the pool overflows, a transaction is too
large for the rest of a block, the chain is longer than the window, a block has a
sibling and a child, an address registers, stakes and leaves in one block; there are
three routes, so that two thirds decide; a claim falls into a second year and after a
week; a node is refreshed with another's key; the same command is run twice on one
accepted block, the window passes, the ring goes round; two uploads set one chunk. The theorems
below remove the bounds for the properties they cover.

Deadlock is checked for the mempool and the heaps, which always have a next call. The
others may stop: after a shutdown or a panic, when the timer is stopped, when all blocks
are decided and the clock has reached its bound, when a bootstrapping node halts, when the
bounded numbers of transactions, calls or tries are used up.

One run shows a disagreement between the code and what it says of itself (`findings`),
*production_panic*: Len and PopMax are two lock sections, in BuildBlock and in
RegossipTxs.

The models contain more that a reader should know of, each at its place among the hazards:

- a build that leaves transactions behind sets `mayBuild`, and no goroutine dispatches
  the timer that should end it (Production);
- a cancelled deadline fires for a later request, and the handler is called outside the
  lock, so that a Cancel right before the call comes too late (Timer, `overtaken`):
  `CancelledStaysQuiet` says what remains true;
- a build that fails its last verification leaves writes in the pending maps, which the
  next accepted block commits (StateCache, `cache = "disturbed"`);
- several verified and undecided blocks share the pending maps: Accept of the first also
  commits what the ones on top of it wrote, so that checks see transactions that are not
  accepted yet, and what a rejected block wrote stays (StateCache). `UndisturbedMatchesDB`
  says that until something disturbs the maps they are those of the accepted block or of an
  undecided one above it, not that they are always the accepted ones;
- two StakeTx of one address in one block both lock a stake (Ledger);
- a crash between the lastAccepted key and the genesis block, or a decided user type,
  leaves a node that cannot start (Ledger, Governance);
- after a restart the second of two nodes of one staker is unknown (Nodes);
- after a restart details are found under the stakers' addresses, so that a node's refresh
  with its own key may start from the detail of another one (`node_params.go:117`); the
  node's work then counts for a staker it was not registered for, also after its own staker
  has left (Nodes, `foreign`);
- a staker that leaves, stakes again and claims up to its new stake time is paid, but
  `UpdateStakerReward` passes over its record (`state.go:476`), so that the next claim need
  not wait for a week (Ledger, the event `again`);
- `UnStakeTx.TypedData` leaves out the end time (`unstake_tx.go:89`) and a vote is signed as a
  govern (`vote_tx.go:83`): in these two places the bytes that arrive decide, and not what
  was signed (Issue, `AsSigned`);
- a transaction's id covers the bytes of its signature, which `DeriveSender` also takes without
  the offset (`crypto.go:33`): the same signature written in another way is another
  transaction to the replay check (Issue, the exception in `ExecutedOnce`);
- the commands poll with a context that never ends (`client.go:206`), so a transaction that a
  failed build has dropped is polled for ever (in Issue a poll may be given up, as a user does);
- `GetStakerType` asks twice for a route, so that a server's claim command fails, and an
  empty file is stored as a chunk of zeros (Issue, Values).

## Fairness

*mempool*: weak fairness of NewTxs, because the gossip ticker fires as long as the node
runs. *production*: weak fairness of the goroutines' steps and of the engine, which
serves the messages it receives; strong fairness of the gossip loop's exit, since Go's
select chooses among ready cases at random and a stop case that stays ready is taken
although the tickers go on. Nothing is assumed of clients, peers, tickers or decisions.
The bound on `newTxs` delays an addition until a gossip round has drained the list.
*timer*: Dispatch runs, as the package's tests do it, deadlines pass, a waiting Stop is
resumed.

## Proofs

The theorems hold for every value of the constants under the named assumption of each
module. Every one is of the form `Spec => []Inv` or `Spec => [][A]_vars`,
but for the refinement, whose conclusion is the specification of Mempool. The inductive
invariants are conjunctions of named parts with a lemma per action or group of actions;
what an action does is stated once, in an "Effect" lemma, and cited from there.

- **ProductionProofs** is about the mempool, the goroutines around it and their timer. It
  extends Mempool, MempoolHeap, Production and Timer, whose definitions have different names
  for that.
  - *The pool*: type correctness; `SizeBounded` by counting the set that Add leaves;
    `GossipMissesNothing` from the position at which the loop of NewTxs stops: every
    earlier entry that is in the pool is handed out, every later one is kept. That the pool
    evicts a worst paying transaction is the abstract action; that the heaps do is
    `HeapsImplementPool`.
  - *The heaps*: `HeapsSound` and, step by step, the refinement `HeapsImplementPool`. A heap
    is in `Heaps` when its lookup gives for every entry the place it is at, so that no entry
    is there twice, and is `Ordered` when no child is better than its parent. A
    swap keeps the first and not the second. While up moves an entry, the order holds but for that
    entry and its parent (`Rising`); while down does, but for the entry and its children
    (`Sinking`); in both the children of the entry are not better than its parent
    (`Spanned`), which is what makes the swap safe. With every
    swap the place, in up, or its distance to the end, in down, shrinks, so the loop has ended
    when its rounds have. Remove of an entry in the middle may
    need either loop: the last entry, put into the gap, goes down or, when it did not move,
    up. `HeapInv` adds that the two heaps hold the same transactions; the root being best then
    gives the abstract PopMax, PopMin and eviction.
  - *The goroutines*: `StatusIsExact` is inductive once it also says that BuildBlock has a
    transaction in hand whenever it puts one back (`StatusInv`). `HoldsEachOnce` needs
    `HeldInv`: block and set-aside are sequences without repetition, disjoint from each other
    and from the pool, the transaction in hand is in none of them, and both are empty between
    builds. The gossip goroutine only takes from the pool, submissions exclude BuildBlock, and
    what BuildBlock puts back it held, so no interleaving puts a transaction in two places.
  - *The timer*: `TimerTypeCorrect` and `CancelledTimerStaysQuiet`. The Go timer is not
    stopped by Cancel, so an expiry may be on its way; `TimerInv` says that the flag the
    handler depends on, `shouldExecute`, is set only when a request came after the last Cancel,
    and that a Cancel finds the handler about to be called only when it overtakes that call.
- **IssueProofs**: `IssueAsAsked`, `IssueExecutedOnce`, `IssueAnswersRight` and
  `IssueFeesRight`, from one invariant with these parts.
  - *Signatures* (`SignedInv`, `Backed`): every signature a client has sent is of the typed data
    of something it asked for, or of a proposal that has lost its type and is refused. Two
    transactions with the same typed data agree in everything but the end time of an
    unstake and vote against govern (`DescribedAlike`), so whoever sends the bytes, what is
    executed is what was asked for up to that.
  - *What was asked for* (`PoolInv`, `Holding`): what a client is about to sign or to send is
    what it asked for, and so is what is in the pool in its name, up to what its signature
    covers. This rests on lemmas about the tables of
    TypedData: `TypedRoundTrip` says that a kind that is read back at all is read back as it
    was described, a proposal excepted, which loses its type and is refused for that.
  - *Once* (`PlaceInv`, `CountInv`): a transaction on the chain names a block before its own and is
    at no other place. A second execution would need the named block in the window, and then
    everything since is in it, the first execution included. The signatures that a client has
    sent, and the one it is about to make, are at most as many as its commands; what is
    executed in its name has one of them, so that nobody who sends the bytes again adds to
    their number. Counting signatures, and not places, is what survives a block that takes
    transactions from the pool and a restart that drops both.
  - *Answers* (`Confirmed`, `ActivityInv`): the cursor is the number of transactions accepted
    since the start, and each of the last `CacheSize` of them is at its number modulo
    `CacheSize`, also when one block has more than the ring takes.
  - *Fees* (`FeeInv`, `CoveredInv`): a price or cost grows by at most one step with each
    block. So the required surplus does not wrap; the sum of the surpluses may, but a
    wrapped sum is only smaller, and no summand is negative because the builder has passed
    over what pays less than the price.
- **ChainProofs**: type correctness; `NoTransactionReplayed`; `DatabaseIsAcceptedChain`;
  `NeverRollsBack`; `LookbackNeverFails`; `ReadsSeeTheChain`. Replay protection is not
  inductive by itself. `ReplayInv` says that heights and timestamps grow along ancestry and
  that every transaction of a verified block names a block that was in its window, so is an
  ancestor. A second occurrence would need the named block in the later window; windows are
  closed upwards, so the earlier occurrence would be in that window too and is refused. The
  database theorem needs that children of the last accepted block lie directly over the
  database, and that layers of undecided blocks hold exactly their own effects (`DiskInv`).
  The last two need that the ancestors of a block are ancestors of one another
  (`AncestryInv`): so a rejected block is never between an undecided one and the last
  accepted one, and a walk down or a read through the layers meets accepted and undecided
  blocks only.
- **StateCacheProofs**: type correctness; `UndisturbedCacheIsRight` and
  `PendingIsWhatTheBlockWrote`, for any number of undecided blocks. As long as nothing has
  disturbed the maps, the undecided blocks are one line on the last accepted block, of
  different heights, and whatever is verified is on its tip (`LineInv`). Then a transaction
  adds the same to the pending maps and to the layer; Accept takes the lowest block of the
  line off and makes the maps those of the tip, the line above it staying as it is; and only
  with nothing pending may a build start (`BuildsAside`). `BootstrappingCacheIsRight` is about a
  node that makes no other calls: it has one undecided block at a time, and there the maps
  are always those of the database.
- **GovernanceProofs**: `CommitIsReload` from `MatchInv`: in the middle of a block, the layer
  is field by field what Commit would make of the database, and the maps are the database but
  for expired actions. What a start reads is not that database but `Reloaded`: it has dropped
  the same expired actions and finds no user types, so that the two agree as long as none is
  decided, and from then on there is no start to compare with. `RecordsWellFormed`,
  `VotesAreKept` and `ChangesWereDecided` share `DecisionInv`. Keys of open proposals differ
  also across accepted and pending maps; every pending decision rests on a decided action of
  the accepted state; and a proposal still open
  would change its parameter, unless the two halves already make a hundred (`NeverMoot`).
  Without the last part, the sum of two shares could grow by a decision that moves only one of
  them. Two thirds of three or more routes are at least two different addresses because voters
  do not repeat, which turns the length of a list into the size of a set.
- **LedgerProofs**: five theorems over `BaseInv` (maps, pending maps, layer and database
  agree; records lie between the first block and now). `RecordsAreRight` adds what has been
  counted (`CountInv`). `TokensAreConserved` has the books of the database or of the block's
  layer balanced after every transaction (`MoneyInv`): nothing needs to be regular for that,
  the fees of a failed first start included. `StakersAreBacked` (`BackedInv`): as many
  stakes are locked as there are stakers. `TimeIsCreditedOnce` (`OnceInv`, `CreditInv`): until a
  block settles for the first time it has no records pending, so that the settlement starts
  from the accepted records; what was paid and what is on record then add up to the time
  since the stake, because the years that StakerReword adds up tile the interval.
  `ClaimsAreSpaced` (`SpaceInv`): whoever was paid has a record not older than that claim less
  a day.
- **NodesProofs**: `DetailsAreRight` needs to say where a detail is found after restarts have
  moved it (`Found`): under its own address, under its staker's, or displaced by a node that
  works at that address. `KeysAreListed` needs that the address being imported is neither
  listed nor torn. `ProofsAreBacked` needs that the key of every detail, in memory, in the
  block and in the database, was registered for the detail's staker or is `foreign`.
- **ValuesProofs**: `KeysAreKept` and `StoreIsRight` from `StoreInv`: every value on the chain
  has the transaction that set it, that one is linked to it, and blocks are stored stripped of
  values that are all linked. `UploadsAreWhole` from `UpInv`, which follows an upload: the
  chunks passed are the file's and are on the chain, what is waited for is the next chunk or
  the root of them all. Values are never removed, so no other client, rejected block or
  restart can take a chunk away between two steps of the loop.

Two properties were corrected by their proofs, at places TLC's bounds do not reach: the
exception for stakers that came back in `ClaimsSpaced`, and a node's own key among `foreign`
in `ProofsBacked` (both above).

**Sums.** SumOver and the years of StakerReword are folds over sets. The provers cannot use
an induction scheme, which has an operator as a parameter, but they can use well-foundedness:
a set of counterexamples among the subsets of a finite set, or among the numbers, has a least
element. LedgerProofs derives from that, for an arbitrary finite set, that such a sum exists,
does not depend on the order, and changes by the difference when one summand changes.
Loops are handled alike: a set of numbers that has 0 and with every number the next has them
all (`NumbersUpTo`, `UpToN`), so that the values of a recursive function exist for every number
of rounds (`LoopRuns`, `RoundsExist`), and a loop whose every swap lessens a measure has come
to rest after that many (`RoundsEnd`).

**Assumptions**, beyond the types of the constants:

| module | assumption | why |
|---|---|---|
| Production | `NoTx` is no transaction | nil |
| Issue | no client is `Stranger`; what others may sign is a transaction of some kind | it stands for an unknown sender |
| | `(MinPrice + MaxBlocks) * (MaxBlocks * TargetBlockRate) < Word` | price and cost rise by at most 1 and `TargetBlockRate` per block; with `DefaultGenesis` (`MinPrice` 0, one block a second) it holds for every chain of fewer than 2^32 blocks |
| StateCache | no block is called `accepted`, `conflict` or `none` | the other values of a parent |
| Governance | keys of parameters, of user types and addresses are different; root does not stake; both halves of a share are parameters | a key is a parameter's name, a number (`proposal_tx.go:39`) or an address in hex; root votes for the routes as long as there are none |
| Ledger | `Yield <= UserFee` | a part of the fee |
| | `2 * Day <= Week`, `MaxLag <= Day` | a week has seven days; a block more than a day old is out of the model |
| | `Effective <= Day`, `Effective <= StakeAmount` | EffectiveSecs is 100 (`unstake_tx.go:15`), RouteStake 200000000 (`genesis.go:135`): a settlement that lies up to that much in the past takes back less than the stake that is returned |
| Nodes | no address is `NoAddress` or the key that does not decode; no version is 0 | they stand for no import, a decoding error and no posted parameters |
| Values | files are finite, only the last chunk is short | reading a regular file fills the chunk until its end (`tree.go:38`) |

**Only model-checked.** Liveness (`EventuallyHandedOut`, `ArrivalTriggersBuild`,
`ShutdownCompletes`, `RequestFires`, `StopTerminates`), which is out of the prover's reach,
and the violated `NeverPopsEmpty`. Every safety invariant and every action property
that a run checks is also a theorem, and so is the safety part of `ImplementsMempool`, which
is all of it, since `PoolSpec` states no fairness.

## Not modelled

- The access proof (`SelectRandomValue`): a pseudo-random choice among stored values.
- The amounts of rewards: rates by year and role, merit by proved work, shares in the
  yields, and the foundation's share, which nobody can claim because its address is never
  set. Ledger counts seconds instead.
- Hashing of typed data, the binary codec and JSON: stateless, taken as injective. A signature
  that a client has not made is taken not to be derived as its own.
- Handlers and commands that only print what samaState holds; the LRU of gossiped ids; the
  user cache's limit (that it forgets is in `Known`, which falls back to the database).
- WithdrawnTx, which the codec does not know.
- Two nodes with different clocks: the same block may be valid on one and not on the other,
  because checks use `time.Now`; and a block may be up to `futureBound`, ten seconds, ahead of
  the clock (`block.go:166`). Chain has such blocks; in Governance and Ledger a block's time is
  at most the clock's.
- That `linkValues` replaces the value in the transaction object itself (`storage.go:195`)
  while the block keeps a copy: transactions are values in the models, and whoever else holds
  the old object, such as `newTxs`, does not see it change.
- Blocks that no builder of this program makes.

## Plan

1. Done: Mempool, MempoolHeap, Production, Timer, Chain, StateCache, and their first
   theorems.
2. Done: Governance, Ledger with the first start, Nodes, TypedData and Issue with the fees,
   Values, model-checked.
3. Done: every safety invariant and action property, and the refinement of the mempool by
   its heaps, is a theorem.
4. Open: two nodes with different clocks over Governance; rewards in tokens; what the books
   of Ledger say of a restart.
