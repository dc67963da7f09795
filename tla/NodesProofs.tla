------------------------------ MODULE NodesProofs ------------------------------
(***************************************************************************)
(* Proofs about Nodes: for all sets of work addresses and stakers, however  *)
(* they overlap, and any number of transactions, calls and restarts, the    *)
(* details of the nodes are kept, the keystore lists its keys, and work is  *)
(* counted for registered nodes of stakers only.                            *)
(***************************************************************************)
EXTENDS Nodes, FiniteSetTheorems, TLAPS

-----------------------------------------------------------------------------
(* Types and what pending and layer have to do with each other.             *)

Change == [details : Details, stakers : [Staker -> Type \cup {"none", "left"}], pow : [Work -> Nat]]

\* What pending details make of the details d.
Over(d) == [a \in Address |-> IF pending.details[a] # NoDetail THEN pending.details[a] ELSE d[a]]

\* The block's layer is the database with the pending details over it.
LayerMatches ==
    /\ phase = "block" => layer.details = Over(disk.details)
    /\ phase = "idle" => pending = NoPending

BaseInv == TypeOK /\ pending \in Change /\ LayerMatches

LEMMA NoDetailIsNone == NoDetail \notin DetailMeta
BY DEF NoDetail, DetailMeta, Type

LEMMA EmptyType == Empty \in State /\ NoPending \in Change
<1> DEFINE r == 0
           details == [a \in Address |-> NoDetail]
           stakers == [s \in Staker |-> "none"]
           pow == [w \in Work |-> r]
<1>1. details \in Details /\ stakers \in [Staker -> Type \cup {"none"}] /\ pow \in [Work -> Nat]
  BY DEF Details
<1>2. stakers \in [Staker -> Type \cup {"none", "left"}]
  OBVIOUS
<1>3. Empty = [details |-> details, stakers |-> stakers, pow |-> pow] /\ NoPending = Empty
  BY DEF Empty, NoPending
<1> HIDE DEF details, stakers, pow
<1> QED BY <1>1, <1>2, <1>3 DEF State, Change

LEMMA BaseInit == Init => BaseInv
<1> SUFFICES ASSUME Init PROVE BaseInv
  OBVIOUS
<1>1. cache \in [Work -> Version \cup {0}]
  <2> DEFINE r == 0
  <2>1. cache = [w \in Work |-> r]
    BY DEF Init
  <2> HIDE DEF r
  <2>2. cache \in [Work -> Version \cup {r}]
    BY <2>1
  <2> QED BY <2>2 DEF r
<1>2. listed \in Seq(Work)
  BY DEF Init
<1>3. pending \in Change /\ cur \in State /\ layer \in State /\ disk \in State
  BY EmptyType DEF Init
<1>4. LayerMatches
  BY DEF Init, LayerMatches
<1> QED BY <1>1, <1>2, <1>3, <1>4 DEF BaseInv, TypeOK, Init, Change

\* A detail is put: into pending and layer, at the same place.
LEMMA PutKeepsTypes ==
    ASSUME BaseInv, NEW a \in Address, NEW d \in DetailMeta, PutDetail(a, d), phase = "block",
           UNCHANGED <<disk, phase>>
    PROVE  /\ pending' \in Change /\ layer' \in State /\ LayerMatches'
           /\ pending'.details = [pending.details EXCEPT ![a] = d]
           /\ layer'.details = [layer.details EXCEPT ![a] = d]
           /\ layer'.stakers = layer.stakers /\ layer'.pow = layer.pow
           /\ pending'.stakers = pending.stakers /\ pending'.pow = pending.pow
<1>1. pending \in Change /\ layer \in State /\ d # NoDetail
  BY NoDetailIsNone DEF BaseInv, TypeOK
<1>2. /\ pending' = [pending EXCEPT !.details[a] = d] /\ layer' = [layer EXCEPT !.details[a] = d]
  BY DEF PutDetail
<1>3. /\ pending'.details = [pending.details EXCEPT ![a] = d]
      /\ layer'.details = [layer.details EXCEPT ![a] = d]
      /\ layer'.stakers = layer.stakers /\ layer'.pow = layer.pow
      /\ pending'.stakers = pending.stakers /\ pending'.pow = pending.pow
  BY <1>1, <1>2 DEF Change, State
<1>4. pending' \in Change /\ layer' \in State
  BY <1>1, <1>2 DEF Change, State, Details
<1>5. layer'.details = Over(disk.details)'
  <2>1. layer.details = Over(disk.details) /\ pending.details \in Details
    BY <1>1 DEF BaseInv, LayerMatches, Change
  <2> QED BY <1>1, <1>3, <2>1 DEF Over, Details
<1> QED BY <1>3, <1>4, <1>5 DEF LayerMatches

LEMMA MergedType ==
    ASSUME BaseInv
    PROVE  Merged \in State /\ Merged.details = Over(cur.details)
<1> DEFINE details == Over(cur.details)
           stakers == [s \in Staker |-> IF pending.stakers[s] = "left" THEN "none"
                                        ELSE IF pending.stakers[s] # "none" THEN pending.stakers[s]
                                        ELSE cur.stakers[s]]
           pow == [w \in Work |-> cur.pow[w] + pending.pow[w]]
<1>1. pending \in Change /\ cur \in State
  BY DEF BaseInv, TypeOK
<1>2. details \in Details
  BY <1>1 DEF Over, Details, State, Change
<1>3. stakers \in [Staker -> Type \cup {"none"}]
  BY <1>1 DEF State, Change
<1>4. pow \in [Work -> Nat]
  BY <1>1 DEF State, Change
<1>5. Merged = [details |-> details, stakers |-> stakers, pow |-> pow]
  BY DEF Merged, Over
<1> HIDE DEF details, stakers, pow
<1>6. Merged \in State /\ Merged.details = details
  BY <1>2, <1>3, <1>4, <1>5 DEF State
<1> QED BY <1>6 DEF details

\* What ReloadDetails may make of the details d.
LEMMA ReloadedIs ==
    ASSUME NEW d \in Details, NEW r \in Reloaded(d)
    PROVE  /\ r \in Details
           /\ \A a \in Address : r[a] = NoDetail \/ \E b \in Address : r[a] = d[b]
           /\ \A a \in Address : d[a] # NoDetail => r[d[a].stake].stake = d[a].stake
<1> DEFINE own(s) == {a \in Address : d[a] # NoDetail /\ d[a].stake = s}
<1>1. PICK f \in [Staker -> Address \cup {NoAddress}] :
        /\ \A s \in Staker : IF own(s) = {} THEN f[s] = NoAddress ELSE f[s] \in own(s)
        /\ r = [a \in Address |-> IF a \in Staker /\ f[a] # NoAddress THEN d[f[a]] ELSE NoDetail]
  BY DEF Reloaded
<1>2. \A a \in Address : r[a] = NoDetail \/ \E b \in Address : r[a] = d[b]
  BY <1>1
<1>3. r \in Details
  BY <1>1, <1>2 DEF Details
<1>4. ASSUME NEW a \in Address, d[a] # NoDetail PROVE r[d[a].stake].stake = d[a].stake
  <2> DEFINE s == d[a].stake
  <2>1. s \in Staker /\ s \in Address
    BY <1>4 DEF Details, DetailMeta, Address
  <2>2. a \in own(s)
    BY <1>4
  <2>3. f[s] \in own(s) /\ f[s] # NoAddress
    BY <1>1, <2>1, <2>2, NodesAssumption
  <2>4. r[s] = d[f[s]]
    BY <1>1, <2>1, <2>3
  <2> QED BY <2>3, <2>4
<1> QED BY <1>2, <1>3, <1>4

\* Work or stakers are counted: the details stay.
LEMMA CountingKeeps ==
    ASSUME BaseInv, pending' \in Change, layer' \in State, UNCHANGED <<disk, phase>>, phase = "block",
           pending'.details = pending.details, layer'.details = layer.details
    PROVE  LayerMatches'
BY DEF BaseInv, LayerMatches, Over

LEMMA ProofKeepsTypes ==
    ASSUME BaseInv, NEW t \in sent, Proof(t)
    PROVE  /\ pending' \in Change /\ layer' \in State /\ t.work \in Work
           /\ pending'.details = pending.details /\ layer'.details = layer.details
           /\ layer'.pow = [layer.pow EXCEPT ![t.work] = @ + 1]
<1>1. pending \in Change /\ layer \in State
  BY DEF BaseInv, TypeOK
<1>2. t.work \in Work
  BY DEF BaseInv, TypeOK, Transaction
<1>3. /\ pending' = [pending EXCEPT !.pow[t.work] = @ + 1]
      /\ layer' = [layer EXCEPT !.pow[t.work] = @ + 1]
  BY DEF Proof
<1>4. /\ pending'.pow = [pending.pow EXCEPT ![t.work] = @ + 1]
      /\ layer'.pow = [layer.pow EXCEPT ![t.work] = @ + 1]
      /\ pending'.details = pending.details /\ layer'.details = layer.details
  BY <1>1, <1>3 DEF Change, State
<1>5. pending' \in Change /\ layer' \in State
  BY <1>1, <1>2, <1>3 DEF Change, State
<1> QED BY <1>2, <1>4, <1>5

LEMMA StakesKeepTypes ==
    ASSUME BaseInv, NEW s \in Staker, (\E type \in Type : Stake(s, type)) \/ Unstake(s)
    PROVE  /\ pending' \in Change /\ layer' \in State
           /\ pending'.details = pending.details /\ layer'.details = layer.details
           /\ layer'.pow = layer.pow
<1>1. pending \in Change /\ layer \in State
  BY DEF BaseInv, TypeOK
<1>2. PICK x \in Type \cup {"left"}, y \in Type \cup {"none"} :
        pending' = [pending EXCEPT !.stakers[s] = x] /\ layer' = [layer EXCEPT !.stakers[s] = y]
  BY DEF Stake, Unstake
<1> QED BY <1>1, <1>2 DEF Change, State

\* What makes a transaction makes it of the right type.
LEMMA SendType ==
    ASSUME TypeOK, NEW t \in Transaction, Send(t)
    PROVE  sent' \subseteq Transaction /\ UNCHANGED <<apiVars, stateVars, history, restarts>>
BY DEF Send, TypeOK

LEMMA MakingTypes ==
    ASSUME TypeOK, NEW w \in Work,
           \/ \E v \in Version : RefreshCmd(w, v)
           \/ \E key \in WorkKey, v \in Version : RefreshAPI(w, key, v)
           \/ \E s \in Staker, type \in Type : RegisterCmd(w, s, type)
           \/ ProofCmd(w) \/ ProofAPI(w)
    PROVE  sent' \subseteq Transaction /\ UNCHANGED <<apiVars, stateVars, history, restarts>>
<1>1. ASSUME NEW v \in Version, RefreshCmd(w, v)
      PROVE  sent' \subseteq Transaction /\ UNCHANGED <<apiVars, stateVars, history, restarts>>
  <2> DEFINE key == GetDetailMeta(w).key
  <2>1. key \in WorkKey
    BY <1>1 DEF RefreshCmd, GetDetailMeta, TypeOK, State, Details, DetailMeta, Address
  <2>2. Send([kind |-> "refresh", work |-> w, key |-> key, version |-> v])
    BY <1>1 DEF RefreshCmd
  <2> HIDE DEF key
  <2>3. [kind |-> "refresh", work |-> w, key |-> key, version |-> v] \in Transaction
    BY <2>1 DEF Transaction
  <2> QED BY <2>2, <2>3, SendType
<1>2. ASSUME NEW key \in WorkKey, NEW v \in Version, RefreshAPI(w, key, v)
      PROVE  sent' \subseteq Transaction /\ UNCHANGED <<apiVars, stateVars, history, restarts>>
  <2>1. [kind |-> "refresh", work |-> w, key |-> key, version |-> v] \in Transaction
    BY DEF Transaction
  <2> QED BY <1>2, <2>1, SendType DEF RefreshAPI
<1>3. ASSUME NEW s \in Staker, NEW type \in Type, RegisterCmd(w, s, type)
      PROVE  sent' \subseteq Transaction /\ UNCHANGED <<apiVars, stateVars, history, restarts>>
  <2> DEFINE v == GetLocalParams(w)
             t == [kind |-> "register", type |-> type, work |-> w, stake |-> s, version |-> v]
  <2>1. v \in Version
    BY <1>3 DEF RegisterCmd, GetLocalParams, TypeOK
  <2>2. Send(t)
    BY <1>3 DEF RegisterCmd
  <2>3. t \in Transaction
    <3> HIDE DEF v
    <3> QED BY <2>1 DEF Transaction
  <2> HIDE DEF t
  <2> QED BY <2>2, <2>3, SendType
<1>4. ASSUME ProofCmd(w) \/ ProofAPI(w)
      PROVE  sent' \subseteq Transaction /\ UNCHANGED <<apiVars, stateVars, history, restarts>>
  <2>1. [kind |-> "proof", work |-> w] \in Transaction
    BY DEF Transaction
  <2> QED BY <1>4, <2>1, SendType DEF ProofCmd, ProofAPI
<1> QED BY <1>1, <1>2, <1>3, <1>4

\* Steps that change no details: those of the API and the clients, and the start of a block.
Quiet ==
    /\ UNCHANGED <<cur, disk, pending, restarts, foreign, registered>>
    /\ layer' = layer \/ phase = "idle"

LEMMA StepCases ==
    ASSUME [Next]_vars
    PROVE  \/ Quiet \/ Accept \/ Restart
           \/ \E t \in sent : Register(t) \/ Refresh(t) \/ Proof(t)
           \/ \E s \in Staker : (\E type \in Type : Stake(s, type)) \/ Unstake(s)
<1>1. ASSUME NEW t, Send(t) PROVE Quiet
  BY <1>1 DEF Send, Quiet, stateVars, history
<1>2. ASSUME NEW w \in Work,
             \/ \E v \in Version : PostParams(w, v) \/ RefreshCmd(w, v)
             \/ \E key \in WorkKey, v \in Version : RefreshAPI(w, key, v)
             \/ \E s \in Staker, type \in Type : RegisterCmd(w, s, type)
             \/ ImportKey(w) \/ ProofCmd(w) \/ ProofAPI(w)
      PROVE  Quiet
  <2>1. ASSUME NEW v \in Version, PostParams(w, v) PROVE Quiet
    BY <2>1 DEF PostParams, Quiet, stateVars, history
  <2>2. CASE ImportKey(w)
    BY <2>2 DEF ImportKey, Quiet, stateVars, history
  <2>3. ASSUME NEW v \in Version, RefreshCmd(w, v) PROVE Quiet
    BY <1>1, <2>3 DEF RefreshCmd
  <2>4. ASSUME NEW key \in WorkKey, NEW v \in Version, RefreshAPI(w, key, v) PROVE Quiet
    BY <1>1, <2>4 DEF RefreshAPI
  <2>5. ASSUME NEW s \in Staker, NEW type \in Type, RegisterCmd(w, s, type) PROVE Quiet
    BY <1>1, <2>5 DEF RegisterCmd
  <2>6. CASE ProofCmd(w) \/ ProofAPI(w)
    BY <1>1, <2>6 DEF ProofCmd, ProofAPI
  <2> QED BY <1>2, <2>1, <2>2, <2>3, <2>4, <2>5, <2>6
<1>3. ASSUME StartBlock PROVE Quiet
  BY <1>3 DEF StartBlock, Quiet, history
<1>4. ASSUME PutList PROVE Quiet
  BY <1>4 DEF PutList, Quiet, stateVars, history
<1>5. ASSUME UNCHANGED vars PROVE Quiet
  BY <1>5 DEF vars, Quiet, stateVars, history
<1> QED BY <1>2, <1>3, <1>4, <1>5 DEF Next, Serve

\* The details that registrations and refreshes put.
RegisterDetail(t) == [type |-> t.type, key |-> t.work, stake |-> t.stake, version |-> t.version]

RefreshDetail(t) == [GetDetailMeta(t.work) EXCEPT !.key = t.key, !.version = t.version]

LEMMA RegisterPuts ==
    ASSUME BaseInv, NEW t \in sent, Register(t)
    PROVE  /\ t.work \in Work /\ t.work \in Address /\ RegisterDetail(t) \in DetailMeta
           /\ PutDetail(t.work, RegisterDetail(t)) /\ t.stake \in Staker
           /\ RegisterDetail(t).key = t.work /\ RegisterDetail(t).stake = t.stake
<1>1. t \in Transaction /\ t.kind = "register"
  BY DEF BaseInv, TypeOK, Register
<1>2. t.type \in Type /\ t.work \in Work /\ t.stake \in Staker /\ t.version \in Version
  BY <1>1 DEF Transaction
<1>3. RegisterDetail(t) \in DetailMeta
  BY <1>2 DEF RegisterDetail, DetailMeta, WorkKey
<1> QED BY <1>2, <1>3 DEF Register, RegisterDetail, Address

LEMMA RefreshPuts ==
    ASSUME BaseInv, NEW t \in sent, Refresh(t)
    PROVE  /\ t.work \in Work /\ t.work \in Address /\ RefreshDetail(t) \in DetailMeta
           /\ PutDetail(t.work, RefreshDetail(t)) /\ cur.details[t.work] # NoDetail
           /\ RefreshDetail(t).key = t.key /\ RefreshDetail(t).stake = cur.details[t.work].stake
<1>1. t \in Transaction /\ t.kind = "refresh"
  BY DEF BaseInv, TypeOK, Refresh
<1>2. t.work \in Work /\ t.key \in WorkKey /\ t.version \in Version
  BY <1>1 DEF Transaction
<1>3. cur.details[t.work] # NoDetail /\ PutDetail(t.work, RefreshDetail(t))
  BY DEF Refresh, RefreshDetail, GetDetailMeta
<1>4. cur.details[t.work] \in DetailMeta
  BY <1>2, <1>3 DEF BaseInv, TypeOK, State, Details, Address
<1> QED BY <1>2, <1>3, <1>4 DEF RefreshDetail, GetDetailMeta, DetailMeta, Address

LEMMA BaseStep == BaseInv /\ [Next]_vars => BaseInv'
<1> SUFFICES ASSUME BaseInv, [Next]_vars PROVE BaseInv'
  OBVIOUS
<1>0. /\ cache \in [Work -> Version \cup {0}]
      /\ keys \subseteq Work /\ listed \in Seq(Work) /\ importing \in Work \cup {NoAddress}
      /\ cur \in State /\ layer \in State /\ disk \in State /\ pending \in Change
      /\ sent \subseteq Transaction /\ phase \in {"idle", "block"}
  BY DEF BaseInv, TypeOK
<1>1. ASSUME /\ cache' \in [Work -> Version \cup {0}]
             /\ keys' \subseteq Work /\ listed' \in Seq(Work) /\ importing' \in Work \cup {NoAddress}
             /\ cur' \in State /\ layer' \in State /\ disk' \in State /\ pending' \in Change
             /\ sent' \subseteq Transaction /\ phase' \in {"idle", "block"} /\ LayerMatches'
      PROVE  BaseInv'
  BY <1>1 DEF BaseInv, TypeOK, Change
<1>2. ASSUME UNCHANGED stateVars PROVE LayerMatches'
  BY <1>2 DEF BaseInv, LayerMatches, stateVars, Over
<1>3. ASSUME UNCHANGED <<apiVars, stateVars>>, sent' \subseteq Transaction PROVE BaseInv'
  BY <1>0, <1>1, <1>2, <1>3 DEF apiVars, stateVars
<1>4. ASSUME UNCHANGED stateVars, UNCHANGED sent,
             /\ cache' \in [Work -> Version \cup {0}]
             /\ keys' \subseteq Work /\ listed' \in Seq(Work) /\ importing' \in Work \cup {NoAddress}
      PROVE  BaseInv'
  BY <1>0, <1>1, <1>2, <1>4 DEF stateVars
<1>5. ASSUME NEW t \in sent, Executing(t), pending' \in Change, layer' \in State, LayerMatches'
      PROVE  BaseInv'
  BY <1>0, <1>1, <1>5 DEF Executing, apiVars
<1>6. CASE StartBlock
  <2>1. layer'.details = Over(disk.details)'
    <3>1. pending = NoPending /\ pending' = pending /\ layer' = disk /\ disk' = disk
      BY <1>6 DEF StartBlock, BaseInv, LayerMatches
    <3>2. \A a \in Address : pending.details[a] = NoDetail
      BY <3>1 DEF NoPending, Empty
    <3>3. disk.details = [a \in Address |-> disk.details[a]]
      BY <1>0 DEF State, Details
    <3> QED BY <3>1, <3>2, <3>3 DEF Over
  <2>2. LayerMatches'
    BY <1>6, <2>1 DEF StartBlock, LayerMatches
  <2> QED BY <1>0, <1>1, <1>6, <2>2 DEF StartBlock, apiVars
<1>7. CASE Accept
  <2>1. LayerMatches'
    BY <1>7 DEF Accept, LayerMatches
  <2> QED BY <1>0, <1>1, <1>7, <2>1, MergedType, EmptyType DEF Accept, apiVars
<1>8. ASSUME NEW w \in Work, NEW v \in Version, PostParams(w, v) PROVE BaseInv'
  BY <1>0, <1>4, <1>8 DEF PostParams
<1>9. ASSUME NEW w \in Work, ImportKey(w) PROVE BaseInv'
  BY <1>0, <1>4, <1>9 DEF ImportKey
<1>10. CASE PutList
  <2>1. listed' \in Seq(Work)
    BY <1>0, <1>10 DEF PutList
  <2> QED BY <1>0, <1>4, <1>10, <2>1 DEF PutList
<1>11. ASSUME NEW w \in Work,
              \/ \E v \in Version : RefreshCmd(w, v)
              \/ \E key \in WorkKey, v \in Version : RefreshAPI(w, key, v)
              \/ \E s \in Staker, type \in Type : RegisterCmd(w, s, type)
              \/ ProofCmd(w) \/ ProofAPI(w)
       PROVE  BaseInv'
  <2>1. sent' \subseteq Transaction /\ UNCHANGED <<apiVars, stateVars>>
    BY <1>11, MakingTypes DEF BaseInv
  <2> QED BY <1>3, <2>1
<1>12. ASSUME NEW t \in sent, Register(t) PROVE BaseInv'
  <2>1. Executing(t)
    BY <1>12 DEF Register
  <2>2. pending' \in Change /\ layer' \in State /\ LayerMatches'
    BY <1>12, <2>1, RegisterPuts, PutKeepsTypes DEF Executing
  <2> QED BY <1>5, <2>1, <2>2
<1>13. ASSUME NEW t \in sent, Refresh(t) PROVE BaseInv'
  <2>1. Executing(t)
    BY <1>13 DEF Refresh
  <2>2. pending' \in Change /\ layer' \in State /\ LayerMatches'
    BY <1>13, <2>1, RefreshPuts, PutKeepsTypes DEF Executing
  <2> QED BY <1>5, <2>1, <2>2
<1>14. ASSUME NEW t \in sent, Proof(t) PROVE BaseInv'
  <2>1. Executing(t)
    BY <1>14 DEF Proof
  <2>2. pending' \in Change /\ layer' \in State /\ LayerMatches'
    BY <1>14, <2>1, ProofKeepsTypes, CountingKeeps DEF Executing
  <2> QED BY <1>5, <2>1, <2>2
<1>15. ASSUME NEW s \in Staker, (\E type \in Type : Stake(s, type)) \/ Unstake(s) PROVE BaseInv'
  <2>1. phase = "block" /\ UNCHANGED <<apiVars, cur, disk, phase, sent>>
    BY <1>15 DEF Stake, Unstake
  <2>2. pending' \in Change /\ layer' \in State /\ LayerMatches'
    BY <1>15, <2>1, StakesKeepTypes, CountingKeeps
  <2> QED BY <1>0, <1>1, <2>1, <2>2 DEF apiVars
<1>16. CASE Restart
  <2>1. PICK r \in Reloaded(disk.details) : cur' = [disk EXCEPT !.details = r]
    BY <1>16 DEF Restart
  <2>2. r \in Details
    BY <1>0, <2>1, ReloadedIs DEF State
  <2>3. cur' \in State
    BY <1>0, <2>1, <2>2 DEF State
  <2>4. cache' \in [Work -> Version \cup {0}]
    <3> DEFINE z == 0
    <3>1. cache' = [w \in Work |-> z]
      BY <1>16 DEF Restart
    <3> HIDE DEF z
    <3>2. cache' \in [Work -> Version \cup {z}]
      BY <3>1
    <3> QED BY <3>2 DEF z
  <2>5. LayerMatches' /\ pending' \in Change
    BY <1>16, EmptyType DEF Restart, LayerMatches
  <2> QED BY <1>0, <1>1, <1>16, <2>3, <2>4, <2>5 DEF Restart
<1>17. CASE UNCHANGED vars
  BY <1>0, <1>3, <1>17 DEF vars
<1> QED BY <1>6, <1>7, <1>8, <1>9, <1>10, <1>11, <1>12, <1>13, <1>14, <1>15, <1>16, <1>17 DEF Next, Serve

-----------------------------------------------------------------------------
(* The registry.                                                            *)

\* A node's detail is known under its own address or, since a restart, its staker's; there
\* it may only be displaced by the detail of a node that works at that address, and that
\* one then stays in the database.
Found(a) ==
    disk.details[a] # NoDetail =>
        \/ cur.details[a] = disk.details[a]
        \/ cur.details[disk.details[a].stake].stake = disk.details[a].stake
        \/ disk.details[disk.details[a].stake] # NoDetail

\* Until a restart, the key of a detail is that of its address or was put there by a
\* refresh that made it foreign.
OwnKey(details) == \A a \in Address, w \in Work : details[a].key = w => w = a \/ w \in foreign

KeptInv ==
    /\ \A a \in Address : Found(a)
    /\ restarts = 0 => cur.details = disk.details /\ OwnKey(cur.details) /\ OwnKey(pending.details)
    /\ restarts \in Nat

LEMMA KeptInit == Init => KeptInv
<1> SUFFICES ASSUME Init PROVE KeptInv
  OBVIOUS
<1>1. \A a \in Address : /\ cur.details[a] = NoDetail /\ disk.details[a] = NoDetail
                         /\ pending.details[a] = NoDetail
  BY DEF Init, Empty, NoPending
<1>2. NoDetail.key \notin Work
  BY NodesAssumption DEF NoDetail, Address
<1> QED BY <1>1, <1>2 DEF Init, KeptInv, Found, OwnKey

\* Changes of neither cur nor disk, nor of the pending details.
LEMMA KeptUntouched ==
    ASSUME KeptInv, UNCHANGED <<cur, disk, restarts, foreign>>, pending'.details = pending.details
    PROVE  KeptInv'
BY DEF KeptInv, Found, OwnKey

LEMMA KeptPut ==
    ASSUME BaseInv, KeptInv, UNCHANGED <<cur, disk, restarts>>, foreign \subseteq foreign',
           NEW a \in Address, NEW d, pending'.details = [pending.details EXCEPT ![a] = d],
           restarts = 0 => d.key = a \/ d.key \in foreign'
    PROVE  KeptInv'
<1>1. \A b \in Address : Found(b)'
  BY DEF KeptInv, Found
<1>2. ASSUME restarts' = 0 PROVE OwnKey(cur.details)' /\ OwnKey(pending.details)'
  <2>1. OwnKey(cur.details) /\ OwnKey(pending.details)
    BY <1>2 DEF KeptInv
  <2>2. DOMAIN pending.details = Address
    BY DEF BaseInv, Change, Details
  <2>3. OwnKey(cur.details)'
    BY <2>1 DEF OwnKey
  <2>4. ASSUME NEW b \in Address, NEW w \in Work, pending'.details[b].key = w
        PROVE  w = b \/ w \in foreign'
    <3>1. CASE b = a
      BY <1>2, <2>2, <2>4, <3>1
    <3>2. CASE b # a
      BY <2>1, <2>2, <2>4, <3>2 DEF OwnKey
    <3> QED BY <3>1, <3>2
  <2> QED BY <2>3, <2>4 DEF OwnKey
<1> QED BY <1>1, <1>2 DEF KeptInv

LEMMA KeptAccept ==
    ASSUME BaseInv, KeptInv, Accept
    PROVE  KeptInv'
<1>1. /\ cur'.details = Over(cur.details) /\ disk'.details = Over(disk.details)
      /\ pending' = NoPending /\ UNCHANGED <<restarts, foreign>>
  BY MergedType DEF Accept, BaseInv, LayerMatches, history
<1>2. pending \in Change /\ cur \in State /\ disk \in State
  BY DEF BaseInv, TypeOK
<1>3. \A a \in Address : IF pending.details[a] # NoDetail
                         THEN cur'.details[a] = pending.details[a] /\ disk'.details[a] = pending.details[a]
                         ELSE cur'.details[a] = cur.details[a] /\ disk'.details[a] = disk.details[a]
  BY <1>1 DEF Over
<1>4. ASSUME NEW a \in Address PROVE Found(a)'
  <2>1. CASE pending.details[a] # NoDetail
    BY <1>3, <2>1 DEF Found
  <2>2. CASE pending.details[a] = NoDetail
    <3> SUFFICES ASSUME disk.details[a] # NoDetail
                 PROVE  \/ cur'.details[a] = disk'.details[a]
                        \/ cur'.details[disk'.details[a].stake].stake = disk'.details[a].stake
                        \/ disk'.details[disk'.details[a].stake] # NoDetail
      BY <1>3, <2>2 DEF Found
    <3> DEFINE s == disk.details[a].stake
    <3>1. s \in Address
      BY <1>2 DEF State, Details, DetailMeta, Address
    <3>2. cur.details[a] = disk.details[a] \/ cur.details[s].stake = s \/ disk.details[s] # NoDetail
      BY DEF KeptInv, Found
    <3>3. disk'.details[a] = disk.details[a] /\ cur'.details[a] = cur.details[a]
      BY <1>3, <2>2
    <3> HIDE DEF s
    <3>4. \/ cur'.details[a] = disk'.details[a] \/ cur'.details[s].stake = s \/ disk'.details[s] # NoDetail
      BY <1>3, <3>1, <3>2, <3>3
    <3> QED BY <3>3, <3>4 DEF s
  <2> QED BY <2>1, <2>2
<1>5. ASSUME restarts = 0
      PROVE  cur'.details = disk'.details /\ OwnKey(cur.details)' /\ OwnKey(pending.details)'
  <2>1. cur.details = disk.details /\ OwnKey(cur.details) /\ OwnKey(pending.details)
    BY <1>5 DEF KeptInv
  <2>2. cur'.details = disk'.details
    BY <1>1, <2>1
  <2>3. OwnKey(cur.details)'
    BY <1>1, <1>3, <2>1 DEF OwnKey
  <2>4. \A a \in Address : pending'.details[a].key \notin Work
    BY <1>1, NodesAssumption DEF NoPending, Empty, NoDetail, Address
  <2>5. OwnKey(pending.details)'
    BY <2>4 DEF OwnKey
  <2> QED BY <2>2, <2>3, <2>5
<1> QED BY <1>1, <1>4, <1>5 DEF KeptInv

LEMMA KeptStep == BaseInv /\ KeptInv /\ [Next]_vars => KeptInv'
<1> SUFFICES ASSUME BaseInv, KeptInv, [Next]_vars PROVE KeptInv'
  OBVIOUS
<1>1. CASE Quiet
  BY <1>1, KeptUntouched DEF Quiet
<1>2. CASE Accept
  BY <1>2, KeptAccept
<1>3. CASE Restart
  <2>1. PICK r \in Reloaded(disk.details) : cur' = [disk EXCEPT !.details = r]
    BY <1>3 DEF Restart
  <2>2. disk \in State /\ disk' = disk /\ restarts' = restarts + 1 /\ restarts \in Nat
    BY <1>3 DEF BaseInv, TypeOK, Restart, KeptInv
  <2>3. cur'.details = r
    BY <2>1, <2>2 DEF State
  <2>4. \A a \in Address : disk.details[a] # NoDetail => r[disk.details[a].stake].stake = disk.details[a].stake
    BY <2>1, <2>2, ReloadedIs DEF State
  <2>5. \A a \in Address : Found(a)'
    BY <2>2, <2>3, <2>4 DEF Found
  <2>6. restarts' # 0 /\ restarts' \in Nat
    BY <2>2
  <2> QED BY <2>5, <2>6 DEF KeptInv
<1>4. ASSUME NEW t \in sent, Register(t) PROVE KeptInv'
  <2>1. /\ t.work \in Address /\ RegisterDetail(t) \in DetailMeta /\ PutDetail(t.work, RegisterDetail(t))
        /\ RegisterDetail(t).key = t.work
    BY <1>4, RegisterPuts
  <2>2. phase = "block" /\ UNCHANGED <<cur, disk, phase, restarts, foreign>>
    BY <1>4 DEF Register, Executing
  <2>3. pending'.details = [pending.details EXCEPT ![t.work] = RegisterDetail(t)]
    BY <2>1, <2>2, PutKeepsTypes
  <2> QED BY <2>1, <2>2, <2>3, KeptPut
<1>5. ASSUME NEW t \in sent, Refresh(t) PROVE KeptInv'
  <2>1. /\ t.work \in Address /\ RefreshDetail(t) \in DetailMeta /\ PutDetail(t.work, RefreshDetail(t))
        /\ RefreshDetail(t).key = t.key
    BY <1>5, RefreshPuts
  <2>2. /\ phase = "block" /\ UNCHANGED <<cur, disk, phase, restarts>>
    BY <1>5 DEF Refresh, Executing
  <2>3. pending'.details = [pending.details EXCEPT ![t.work] = RefreshDetail(t)]
    BY <2>1, <2>2, PutKeepsTypes
  <2>4. t.key = t.work \/ t.key \in foreign'
    BY <1>5 DEF Refresh
  <2>5. foreign \subseteq foreign'
    BY <1>5 DEF Refresh
  <2> QED BY <2>1, <2>2, <2>3, <2>4, <2>5, KeptPut
<1>6. ASSUME NEW t \in sent, Proof(t) PROVE KeptInv'
  <2>1. UNCHANGED <<cur, disk, restarts, foreign>>
    BY <1>6 DEF Proof, Executing
  <2> QED BY <1>6, <2>1, ProofKeepsTypes, KeptUntouched
<1>7. ASSUME NEW s \in Staker, (\E type \in Type : Stake(s, type)) \/ Unstake(s) PROVE KeptInv'
  <2>1. UNCHANGED <<cur, disk, restarts, foreign>>
    BY <1>7 DEF Stake, Unstake, history
  <2> QED BY <1>7, <2>1, StakesKeepTypes, KeptUntouched
<1> QED BY <1>1, <1>2, <1>3, <1>4, <1>5, <1>6, <1>7, StepCases

\* The details of the nodes are kept and told apart (DetailsRight): through registrations
\* and refreshes in one block, through blocks and through restarts that move the details
\* from the nodes' addresses to their stakers'.
THEOREM DetailsAreRight == Spec => []DetailsRight
<1>1. BaseInv /\ KeptInv => DetailsRight
  <2> SUFFICES ASSUME BaseInv, KeptInv PROVE DetailsRight
    OBVIOUS
  <2>1. RegistryKept
    <3>1. restarts = 0 => cur.details = disk.details
      BY DEF KeptInv
    <3>2. ASSUME NEW a \in Address, disk.details[a] # NoDetail
          PROVE  \/ \E b \in Address : cur.details[b].stake = disk.details[a].stake
                 \/ disk.details[disk.details[a].stake] # NoDetail
      <4>1. disk.details[a].stake \in Address
        BY <3>2 DEF BaseInv, TypeOK, State, Details, DetailMeta, Address
      <4>2. Found(a)
        BY DEF KeptInv
      <4> QED BY <3>2, <4>1, <4>2 DEF Found
    <3> QED BY <3>1, <3>2 DEF RegistryKept
  <2>2. WorkDetermined
    <3> SUFFICES ASSUME restarts = 0, NEW w \in Work \ foreign
                 PROVE  Cardinality({a \in Address : cur.details[a].key = w}) <= 1
      BY DEF WorkDetermined
    <3> DEFINE S == {a \in Address : cur.details[a].key = w}
    <3>1. S \subseteq {w}
      BY DEF KeptInv, OwnKey
    <3>2. IsFiniteSet({w}) /\ Cardinality({w}) = 1
      BY FS_Singleton
    <3>3. Cardinality(S) <= Cardinality({w})
      BY <3>1, <3>2, FS_Subset
    <3> QED BY <3>2, <3>3
  <2> QED BY <2>1, <2>2 DEF DetailsRight, BaseInv
<1> QED BY <1>1, BaseInit, BaseStep, KeptInit, KeptStep, PTL DEF Spec

-----------------------------------------------------------------------------
(* The keystore.                                                            *)

\* The address that is being imported is neither listed nor torn yet.
KeyInv == KeysListed /\ (importing # NoAddress => importing \notin Range(listed) \cup torn)

LEMMA KeyStep ==
    ASSUME BaseInv, KeyInv, [Next]_vars
    PROVE  KeyInv'
<1>0. listed \in Seq(Work) /\ importing \in Work \cup {NoAddress} /\ keys \subseteq Work
  BY DEF BaseInv, TypeOK
<1>1. CASE UNCHANGED <<keys, listed, importing, torn>>
  BY <1>1 DEF KeyInv, KeysListed
<1>2. ASSUME NEW w \in Work, ImportKey(w), importing = NoAddress PROVE KeyInv'
  <2>1. CASE w \in keys
    BY <1>1, <1>2, <2>1 DEF ImportKey, history
  <2>2. CASE w \notin keys
    <3>1. keys' = keys \cup {w} /\ importing' = w /\ UNCHANGED <<listed, torn>>
      BY <1>2, <2>2 DEF ImportKey, history
    <3>2. w # NoAddress
      BY NodesAssumption DEF Address
    <3>3. keys = Range(listed) \cup torn
      BY <1>2 DEF KeyInv, KeysListed
    <3>4. keys' = Range(listed') \cup torn' \cup ({importing'} \ {NoAddress})
      BY <3>1, <3>2, <3>3
    <3>5. w \notin Range(listed') \cup torn'
      BY <2>2, <3>1, <3>3
    <3>6. /\ \A i, j \in 1..Len(listed') : listed'[i] = listed'[j] => i = j
          /\ Range(listed') \cap torn' = {}
      BY <3>1 DEF KeyInv, KeysListed
    <3> QED BY <3>1, <3>4, <3>5, <3>6 DEF KeyInv, KeysListed
  <2> QED BY <2>1, <2>2
<1>3. CASE PutList
  <2> DEFINE w == importing
  <2>1. /\ w # NoAddress /\ w \in Work /\ importing' = NoAddress /\ UNCHANGED <<keys, torn>>
        /\ listed' = Append(listed, w)
    BY <1>0, <1>3 DEF PutList, history
  <2> HIDE DEF w
  <2>2. /\ Len(listed') = Len(listed) + 1 /\ listed' \in Seq(Work) /\ Len(listed) \in Nat
        /\ \A i \in 1..Len(listed) : listed'[i] = listed[i]
        /\ listed'[Len(listed) + 1] = w
        /\ DOMAIN listed' = 1..Len(listed) + 1 /\ DOMAIN listed = 1..Len(listed)
    BY <1>0, <2>1
  <2>3. Range(listed') = Range(listed) \cup {w}
    <3>1. \A x \in Range(listed') : x \in Range(listed) \cup {w}
      <4> SUFFICES ASSUME NEW i \in 1..Len(listed) + 1 PROVE listed'[i] \in Range(listed) \cup {w}
        BY <2>2 DEF Range
      <4>1. i \in 1..Len(listed) \/ i = Len(listed) + 1
        BY <2>2
      <4> QED BY <2>2, <4>1 DEF Range
    <3>2. \A x \in Range(listed) : x \in Range(listed')
      <4> SUFFICES ASSUME NEW i \in 1..Len(listed) PROVE listed[i] \in Range(listed')
        BY <2>2 DEF Range
      <4>1. i \in 1..Len(listed) + 1
        BY <2>2
      <4> QED BY <2>2, <4>1 DEF Range
    <3>3. w \in Range(listed')
      <4>1. Len(listed) + 1 \in 1..Len(listed) + 1
        BY <2>2
      <4> QED BY <2>2, <4>1 DEF Range
    <3> QED BY <3>1, <3>2, <3>3
  <2>4. w \notin Range(listed) \cup torn /\ keys = Range(listed) \cup torn \cup ({w} \ {NoAddress})
    BY <2>1 DEF KeyInv, KeysListed, w
  <2>5. keys' = Range(listed') \cup torn' \cup ({importing'} \ {NoAddress})
    BY <2>1, <2>3, <2>4
  <2>6. Range(listed') \cap torn' = {}
    BY <2>1, <2>3, <2>4 DEF KeyInv, KeysListed
  <2>7. \A i \in 1..Len(listed) : listed[i] # w
    BY <2>2, <2>4 DEF Range
  <2>8. \A i, j \in 1..Len(listed') : listed'[i] = listed'[j] => i = j
    <3>1. \A i \in 1..Len(listed') : i \in 1..Len(listed) \/ i = Len(listed) + 1
      BY <2>2
    <3>2. \A i, j \in 1..Len(listed) : listed[i] = listed[j] => i = j
      BY DEF KeyInv, KeysListed
    <3> QED BY <2>2, <2>7, <3>1, <3>2
  <2> QED BY <2>1, <2>5, <2>6, <2>8 DEF KeyInv, KeysListed
<1>4. CASE Restart
  BY <1>4 DEF Restart, KeyInv, KeysListed
<1>5. \/ UNCHANGED <<keys, listed, importing, torn>> \/ PutList \/ Restart
      \/ importing = NoAddress /\ \E w \in Work : ImportKey(w)
  <2>1. ASSUME NEW t, Send(t) PROVE UNCHANGED <<keys, listed, importing, torn>>
    BY <2>1 DEF Send, apiVars, history
  <2>2. ASSUME NEW t \in sent, Register(t) \/ Refresh(t) \/ Proof(t)
        PROVE  UNCHANGED <<keys, listed, importing, torn>>
    BY <2>2 DEF Register, Refresh, Proof, Executing, apiVars
  <2>3. ASSUME NEW s \in Staker, (\E type \in Type : Stake(s, type)) \/ Unstake(s)
        PROVE  UNCHANGED <<keys, listed, importing, torn>>
    BY <2>3 DEF Stake, Unstake, apiVars, history
  <2>4. ASSUME StartBlock \/ Accept PROVE UNCHANGED <<keys, listed, importing, torn>>
    BY <2>4 DEF StartBlock, Accept, apiVars, history
  <2>5. ASSUME NEW w \in Work, NEW v \in Version, PostParams(w, v) \/ RefreshCmd(w, v)
        PROVE  UNCHANGED <<keys, listed, importing, torn>>
    BY <2>1, <2>5 DEF PostParams, RefreshCmd, history
  <2>6. ASSUME NEW w \in Work, NEW key \in WorkKey, NEW v \in Version, RefreshAPI(w, key, v)
        PROVE  UNCHANGED <<keys, listed, importing, torn>>
    BY <2>1, <2>6 DEF RefreshAPI
  <2>7. ASSUME NEW w \in Work, NEW s \in Staker, NEW type \in Type, RegisterCmd(w, s, type)
        PROVE  UNCHANGED <<keys, listed, importing, torn>>
    BY <2>1, <2>7 DEF RegisterCmd
  <2>8. ASSUME NEW w \in Work, ProofCmd(w) \/ ProofAPI(w)
        PROVE  UNCHANGED <<keys, listed, importing, torn>>
    BY <2>1, <2>8 DEF ProofCmd, ProofAPI
  <2>9. ASSUME UNCHANGED vars PROVE UNCHANGED <<keys, listed, importing, torn>>
    BY <2>9 DEF vars, apiVars, history
  <2>10. CASE importing = NoAddress /\ Serve
    BY <2>2, <2>3, <2>4, <2>5, <2>6, <2>7, <2>8, <2>10 DEF Serve
  <2> QED BY <2>9, <2>10 DEF Next
<1> QED BY <1>1, <1>2, <1>3, <1>4, <1>5

\* The keystore lists every key once, but for those whose import a crash interrupted
\* (KeysListed): between its two writes the address is in the keystore and nowhere else.
THEOREM KeysAreListed == Spec => []KeysListed
<1>1. Init => KeyInv
  BY DEF Init, KeyInv, KeysListed, Range
<1>2. BaseInv /\ KeyInv /\ [Next]_vars => KeyInv'
  BY KeyStep
<1>3. KeyInv => KeysListed
  BY DEF KeyInv
<1> QED BY <1>1, <1>2, <1>3, BaseInit, BaseStep, PTL DEF Spec

-----------------------------------------------------------------------------
(* Work.                                                                    *)

\* The key of a detail was registered for the detail's staker, or a refresh put it there.
Registered(d) == d.key \in Work => d.key \in foreign \/ <<d.key, d.stake>> \in registered

\* ... in memory, in the block and in the database.
RegisteredInv ==
    \A a \in Address : /\ Registered(cur.details[a]) /\ Registered(pending.details[a])
                       /\ Registered(disk.details[a])

LEMMA NoDetailRegistered == Registered(NoDetail)
BY NodesAssumption DEF Registered, NoDetail, Address

LEMMA RegisteredInit == Init => RegisteredInv
<1> SUFFICES ASSUME Init PROVE RegisteredInv
  OBVIOUS
<1>1. \A a \in Address : /\ cur.details[a] = NoDetail /\ disk.details[a] = NoDetail
                         /\ pending.details[a] = NoDetail
  BY DEF Init, Empty, NoPending
<1> QED BY <1>1, NoDetailRegistered DEF RegisteredInv

LEMMA RegisteredPut ==
    ASSUME BaseInv, RegisteredInv, UNCHANGED <<cur, disk>>,
           foreign \subseteq foreign', registered \subseteq registered',
           NEW a \in Address, NEW d, pending'.details = [pending.details EXCEPT ![a] = d],
           d.key \in Work => d.key \in foreign' \/ <<d.key, d.stake>> \in registered'
    PROVE  RegisteredInv'
<1>1. DOMAIN pending.details = Address
  BY DEF BaseInv, Change, Details
<1>2. \A b \in Address : pending'.details[b] = IF b = a THEN d ELSE pending.details[b]
  BY <1>1
<1> QED BY <1>2 DEF RegisteredInv, Registered

LEMMA RegisteredStep == BaseInv /\ RegisteredInv /\ [Next]_vars => RegisteredInv'
<1> SUFFICES ASSUME BaseInv, RegisteredInv, [Next]_vars PROVE RegisteredInv'
  OBVIOUS
<1>1. ASSUME UNCHANGED <<cur, disk, foreign, registered>>, pending'.details = pending.details
      PROVE  RegisteredInv'
  BY <1>1 DEF RegisteredInv, Registered
<1>2. CASE Quiet
  BY <1>1, <1>2 DEF Quiet
<1>3. CASE Accept
  <2>1. /\ cur'.details = Over(cur.details) /\ disk'.details = Over(disk.details)
        /\ pending' = NoPending /\ UNCHANGED <<foreign, registered>>
    BY <1>3, MergedType DEF Accept, BaseInv, LayerMatches, history
  <2>2. \A a \in Address : /\ cur'.details[a] \in {pending.details[a], cur.details[a]}
                           /\ disk'.details[a] \in {pending.details[a], disk.details[a]}
                           /\ pending'.details[a] = NoDetail
    BY <2>1 DEF Over, NoPending, Empty
  <2>3. \A d : Registered(d) => Registered(d)'
    BY <2>1 DEF Registered
  <2>4. ASSUME NEW a \in Address
        PROVE  /\ Registered(cur'.details[a]) /\ Registered(pending'.details[a])
               /\ Registered(disk'.details[a])
    BY <2>2, NoDetailRegistered DEF RegisteredInv
  <2> QED BY <2>1, <2>4 DEF RegisteredInv, Registered
<1>4. CASE Restart
  <2>1. PICK r \in Reloaded(disk.details) : cur' = [disk EXCEPT !.details = r]
    BY <1>4 DEF Restart
  <2>2. disk \in State /\ disk' = disk /\ pending' = NoPending /\ UNCHANGED <<foreign, registered>>
    BY <1>4 DEF BaseInv, TypeOK, Restart
  <2>3. cur'.details = r
    BY <2>1, <2>2 DEF State
  <2>4. \A a \in Address : r[a] = NoDetail \/ \E b \in Address : r[a] = disk.details[b]
    BY <2>1, <2>2, ReloadedIs DEF State
  <2>5. \A a \in Address : pending'.details[a] = NoDetail
    BY <2>2 DEF NoPending, Empty
  <2>6. ASSUME NEW a \in Address
        PROVE  /\ Registered(cur'.details[a]) /\ Registered(pending'.details[a])
               /\ Registered(disk'.details[a])
    BY <2>2, <2>3, <2>4, <2>5, NoDetailRegistered DEF RegisteredInv
  <2> QED BY <2>2, <2>6 DEF RegisteredInv, Registered
<1>5. ASSUME NEW t \in sent, Register(t) PROVE RegisteredInv'
  <2> DEFINE d == RegisterDetail(t)
  <2>1. /\ t.work \in Address /\ d \in DetailMeta /\ PutDetail(t.work, d)
        /\ d.key = t.work /\ d.stake = t.stake
    BY <1>5, RegisterPuts
  <2>2. /\ phase = "block" /\ UNCHANGED <<cur, disk, phase>>
        /\ foreign' = foreign /\ registered' = registered \cup {<<t.work, t.stake>>}
    BY <1>5 DEF Register, Executing
  <2> HIDE DEF d
  <2>3. pending'.details = [pending.details EXCEPT ![t.work] = d]
    BY <2>1, <2>2, PutKeepsTypes
  <2>4. <<d.key, d.stake>> \in registered' /\ foreign \subseteq foreign' /\ registered \subseteq registered'
    BY <2>1, <2>2
  <2> QED BY <2>1, <2>2, <2>3, <2>4, RegisteredPut
<1>6. ASSUME NEW t \in sent, Refresh(t) PROVE RegisteredInv'
  <2> DEFINE d == RefreshDetail(t)
  <2>1. /\ t.work \in Address /\ d \in DetailMeta /\ PutDetail(t.work, d)
        /\ d.key = t.key /\ d.stake = cur.details[t.work].stake
    BY <1>6, RefreshPuts
  <2>2. /\ phase = "block" /\ UNCHANGED <<cur, disk, phase>> /\ registered' = registered
        /\ foreign' = foreign \cup
             {k \in {t.key} : k # t.work \/ <<k, cur.details[t.work].stake>> \notin registered}
    BY <1>6 DEF Refresh, Executing, GetDetailMeta
  <2> HIDE DEF d
  <2>3. pending'.details = [pending.details EXCEPT ![t.work] = d]
    BY <2>1, <2>2, PutKeepsTypes
  <2>4. d.key \in foreign' \/ <<d.key, d.stake>> \in registered'
    BY <2>1, <2>2
  <2>5. foreign \subseteq foreign' /\ registered \subseteq registered'
    BY <2>2
  <2> QED BY <2>1, <2>2, <2>3, <2>4, <2>5, RegisteredPut
<1>7. ASSUME NEW t \in sent, Proof(t) PROVE RegisteredInv'
  <2>1. UNCHANGED <<cur, disk, foreign, registered>>
    BY <1>7 DEF Proof, Executing
  <2> QED BY <1>1, <1>7, <2>1, ProofKeepsTypes
<1>8. ASSUME NEW s \in Staker, (\E type \in Type : Stake(s, type)) \/ Unstake(s) PROVE RegisteredInv'
  <2>1. UNCHANGED <<cur, disk, foreign, registered>>
    BY <1>8 DEF Stake, Unstake, history
  <2> QED BY <1>1, <1>8, <2>1, StakesKeepTypes
<1> QED BY <1>2, <1>3, <1>4, <1>5, <1>6, <1>7, <1>8, StepCases

\* Whom a step counts work for.
Counted ==
    \A w \in Work : layer'.pow[w] > layer.pow[w] /\ phase = "block" =>
        \/ w \in foreign
        \/ \E s \in Staker : <<w, s>> \in registered /\ cur.stakers[s] # "none"

LEMMA CountedRightly == BaseInv /\ RegisteredInv /\ [Next]_vars => [Counted]_vars
<1> SUFFICES ASSUME BaseInv, RegisteredInv, [Next]_vars, NEW w \in Work,
                    layer'.pow[w] > layer.pow[w], phase = "block"
             PROVE  \/ w \in foreign
                    \/ \E s \in Staker : <<w, s>> \in registered /\ cur.stakers[s] # "none"
  BY DEF Counted
<1>0. layer.pow \in [Work -> Nat] /\ cur \in State
  BY DEF BaseInv, TypeOK, State
<1>1. layer'.pow # layer.pow
  BY <1>0
<1>2. ~Quiet /\ ~Accept /\ ~Restart
  BY <1>1 DEF Quiet, Accept, Restart
<1>3. ASSUME NEW s \in Staker, (\E type \in Type : Stake(s, type)) \/ Unstake(s) PROVE FALSE
  BY <1>1, <1>3, StakesKeepTypes
<1>4. ASSUME NEW t \in sent, Register(t) PROVE FALSE
  BY <1>1, <1>4, RegisterPuts, PutKeepsTypes DEF Register, Executing
<1>5. ASSUME NEW t \in sent, Refresh(t) PROVE FALSE
  BY <1>1, <1>5, RefreshPuts, PutKeepsTypes DEF Refresh, Executing
<1>6. PICK t \in sent : Proof(t)
  BY <1>2, <1>3, <1>4, <1>5, StepCases
<1>7. t.work = w
  <2>1. t.work \in Work /\ layer'.pow = [layer.pow EXCEPT ![t.work] = layer.pow[t.work] + 1]
    BY <1>6, ProofKeepsTypes
  <2>2. ASSUME t.work # w PROVE layer'.pow[w] = layer.pow[w]
    BY <1>0, <2>1, <2>2
  <2>3. layer.pow[w] \in Nat
    BY <1>0
  <2> QED BY <2>2, <2>3
<1>8. PICK d \in Range(cur.details) : d.key = w /\ cur.stakers[d.stake] = d.type
  BY <1>6, <1>7 DEF Proof, WorkingAs
<1>9. PICK a \in Address : d = cur.details[a]
  BY <1>0, <1>8 DEF Range, State, Details
<1>10. d \in DetailMeta
  BY <1>0, <1>8, <1>9, NodesAssumption DEF State, Details, NoDetail, Address
<1>11. d.stake \in Staker /\ cur.stakers[d.stake] # "none"
  BY <1>8, <1>10 DEF DetailMeta, Type
<1>12. Registered(d)
  BY <1>9 DEF RegisteredInv
<1> QED BY <1>8, <1>11, <1>12 DEF Registered

\* Work is counted for an address that was registered for somebody who stakes, whatever
\* refreshes and restarts did to the details in between, or for a key that a refresh put
\* into another's detail (ProofsBacked): every detail in memory, in the block and in the
\* database has such a key.
THEOREM ProofsAreBacked == Spec => ProofsBacked
<1>1. BaseInv /\ RegisteredInv /\ [Next]_vars => [Counted]_vars
  BY CountedRightly
<1> QED BY <1>1, BaseInit, BaseStep, RegisteredInit, RegisteredStep, PTL DEF Spec, ProofsBacked, Counted
=============================================================================
