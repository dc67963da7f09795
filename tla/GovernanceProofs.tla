--------------------------- MODULE GovernanceProofs ---------------------------
(* Proofs of the safety properties of Governance, for every set of           *)
(* addresses, actions and proposed values and every length of the week.      *)
EXTENDS Governance, FiniteSetTheorems, SequenceTheorems, TLAPS

-----------------------------------------------------------------------------
(* The operators on the pending maps and the layer, field by field.          *)

\* PutAction (action_status.go:95) and the write to the block's database.
LEMMA WriteFields ==
  ASSUME TypeOK, NEW id \in ActionID, NEW a \in ActionMeta, WriteAction(id, a)
  PROVE  /\ pending' \in Change /\ layer' \in State
         /\ pending'.put = [pending.put EXCEPT ![id] = a] /\ pending'.del = pending.del \ {id}
         /\ pending'.join = pending.join /\ pending'.leave = pending.leave
         /\ pending'.params = pending.params /\ pending'.types = pending.types
         /\ layer'.actions = [layer.actions EXCEPT ![id] = a] /\ layer'.routes = layer.routes
         /\ layer'.params = layer.params /\ layer'.types = layer.types
BY DEF TypeOK, WriteAction, PutAction, Change, State

\* StakeTx deletes the action and adds the route (stake_tx.go:24).
LEMMA StakeFields ==
  ASSUME TypeOK, NEW id \in ActionID, NEW a \in Address,
         pending' = [DelAction(pending, id) EXCEPT !.join = @ \cup {a}, !.leave = @ \ {a}],
         layer' = [layer EXCEPT !.actions[id] = None, !.routes = @ \cup {a}]
  PROVE  /\ pending' \in Change /\ layer' \in State
         /\ pending'.put = [pending.put EXCEPT ![id] = None] /\ pending'.del = pending.del \cup {id}
         /\ pending'.join = pending.join \cup {a} /\ pending'.leave = pending.leave \ {a}
         /\ pending'.params = pending.params /\ pending'.types = pending.types
         /\ layer'.actions = [layer.actions EXCEPT ![id] = None] /\ layer'.routes = layer.routes \cup {a}
         /\ layer'.params = layer.params /\ layer'.types = layer.types
BY DEF TypeOK, DelAction, Change, State

LEMMA UnstakeFields ==
  ASSUME TypeOK, NEW a \in Address, Unstake(a)
  PROVE  /\ pending' \in Change /\ layer' \in State
         /\ pending'.put = pending.put /\ pending'.del = pending.del
         /\ pending'.join = pending.join \ {a} /\ pending'.leave = pending.leave \cup {a}
         /\ pending'.params = pending.params /\ pending'.types = pending.types
         /\ layer'.actions = layer.actions /\ layer'.routes = layer.routes \ {a}
         /\ layer'.params = layer.params /\ layer'.types = layer.types
BY DEF TypeOK, Unstake, Change, State

\* GovernTx that sets parameters (govern_tx.go:23).
LEMMA GovernParamFields ==
  ASSUME TypeOK, NEW p \in [ParamKey -> Nat],
         pending' = [pending EXCEPT !.params = p], layer' = [layer EXCEPT !.params = p]
  PROVE  /\ pending' \in Change /\ layer' \in State
         /\ pending'.put = pending.put /\ pending'.del = pending.del
         /\ pending'.join = pending.join /\ pending'.leave = pending.leave
         /\ pending'.params = p /\ pending'.types = pending.types
         /\ layer'.actions = layer.actions /\ layer'.routes = layer.routes
         /\ layer'.params = p /\ layer'.types = layer.types
BY DEF TypeOK, Change, State

\* GovernTx that sets the fee of a user type.
LEMMA GovernTypeFields ==
  ASSUME TypeOK, NEW k \in TypeKey, NEW v \in Fee,
         pending' = [pending EXCEPT !.types[k] = v], layer' = [layer EXCEPT !.types[k] = v]
  PROVE  /\ pending' \in Change /\ layer' \in State
         /\ pending'.put = pending.put /\ pending'.del = pending.del
         /\ pending'.join = pending.join /\ pending'.leave = pending.leave
         /\ pending'.params = pending.params /\ pending'.types = [pending.types EXCEPT ![k] = v]
         /\ layer'.actions = layer.actions /\ layer'.routes = layer.routes
         /\ layer'.params = layer.params /\ layer'.types = [layer.types EXCEPT ![k] = v]
BY DEF TypeOK, Change, State

\* What a node that can be started reads: every field as it is stored, the overdue
\* actions aside.
LEMMA ReloadedFields ==
  ASSUME disk \in State, Startable
  PROVE  /\ Reloaded.routes = disk.routes /\ Reloaded.params = disk.params
         /\ Reloaded.types = disk.types
         /\ \A i \in ActionID : Reloaded.actions[i] = IF disk.actions[i].end < now
                                                      THEN None ELSE disk.actions[i]
<1>1. /\ Reloaded.routes = disk.routes /\ Reloaded.params = disk.params
      /\ Reloaded.types = [t \in TypeKey |-> 0]
      /\ Reloaded.actions = WithoutOverdue(disk.actions)
  BY DEF Reloaded, State
<1>2. disk.types = [t \in TypeKey |-> 0]
  <2>1. disk.types \in [TypeKey -> Fee \cup {0}] /\ \A t \in TypeKey : disk.types[t] = 0
    BY DEF State, Startable
  <2> QED
    BY <2>1
<1> QED
  BY <1>1, <1>2 DEF WithoutOverdue

\* Commit and Reload return states (state.go:157, action_status.go:133).
LEMMA MergedState ==
  ASSUME TypeOK
  PROVE  Merged \in State /\ Reloaded \in State /\ NoPending \in Change
<1>1. Merged \in State
  BY DEF TypeOK, Merged, Change, State
<1>2. Reloaded \in State
  BY DEF TypeOK, Reloaded, WithoutOverdue, Change, State
<1>3. NoPending \in Change
  BY DEF NoPending, Change
<1> QED
  BY <1>1, <1>2, <1>3

LEMMA RangeOfPair ==
  ASSUME NEW x, NEW y
  PROVE  Range(<<x, y>>) = {x, y}
<1>1. DOMAIN <<x, y>> = {1, 2}
  OBVIOUS
<1> QED
  BY <1>1 DEF Range

\* The genesis parameters cover every key and leave no half above the whole.
LEMMA GenesisShares ==
  /\ \A k \in ParamKey : GenesisParams[k] \in Nat
  /\ \A h \in Halves : GenesisParams[h[1]] + GenesisParams[h[2]] <= 100
<1>1. \A k \in {"routePerc", "serPerc", "routeBase", "routeMerit", "serBase", "serMerit", "burn"} :
         GenesisParams[k] \in Nat
  BY DEF GenesisParams
<1>2. \A h \in Halves :
         Range(h) \subseteq {"routePerc", "serPerc", "routeBase", "routeMerit", "serBase", "serMerit"}
  <2> SUFFICES ASSUME NEW x, NEW y, <<x, y>> \in Halves
               PROVE  {x, y} \subseteq {"routePerc", "serPerc", "routeBase", "routeMerit",
                                        "serBase", "serMerit"}
    BY RangeOfPair DEF Halves
  <2> QED
    BY DEF Halves
<1>3. \A h \in Halves : GenesisParams[h[1]] + GenesisParams[h[2]] <= 100
  BY DEF Halves, GenesisParams
<1> QED
  BY <1>1, <1>2, <1>3, GovernanceAssumption

-----------------------------------------------------------------------------
(* The records of the actions.                                               *)

Distinct(s) == \A i, j \in 1..Len(s) : s[i] = s[j] => i = j

LEMMA DistinctCounts ==
  ASSUME NEW s \in Seq(Voter), Distinct(s)
  PROVE  Cardinality(Range(s)) = Len(s)
<1>1. Len(s) \in Nat /\ 1 \in Int /\ Len(s) \in Int
  OBVIOUS
<1>2. /\ IsFiniteSet(1..Len(s))
      /\ Cardinality(1..Len(s)) = IF 1 > Len(s) THEN 0 ELSE Len(s) - 1 + 1
  BY <1>1, FS_Interval
<1>3. s \in [1..Len(s) -> Range(s)]
  BY DEF Range
<1>4. s \in Bijection(1..Len(s), Range(s))
  BY <1>3 DEF Distinct, Bijection, Injection, IsInjective, Surjection, Range
<1> QED
  BY <1>1, <1>2, <1>4, FS_Bijection DEF ExistsBijection

\* Whoever is not among the voters may join them.
LEMMA DistinctAppend ==
  ASSUME NEW s \in Seq(Voter), NEW v \in Voter, Distinct(s), v \notin Range(s)
  PROVE  Distinct(Append(s, v)) /\ Append(s, v) \in Seq(Voter) /\ IsPrefix(s, Append(s, v))
<1>1. /\ Append(s, v) \in Seq(Voter) /\ Len(Append(s, v)) = Len(s) + 1
      /\ \A i \in 1..Len(s) : Append(s, v)[i] = s[i]
      /\ Append(s, v)[Len(s) + 1] = v
  BY AppendProperties
<1>2. Distinct(Append(s, v))
  BY <1>1 DEF Distinct, Range
<1>3. SubSeq(s, 1, Len(s)) = SubSeq(Append(s, v), 1, Len(s))
  BY <1>1
<1> QED
  BY <1>1, <1>2, <1>3 DEF IsPrefix

\* What the transactions have checked of an action before they write it.
Sound(a) ==
    /\ a \in ActionMeta
    /\ Distinct(a.voters)
    /\ a.type = "param" => a.key \in ParamKey /\ a.val \in Percent
    /\ a.type \in {"addType", "modType"} => a.key \in TypeKey /\ a.val \in Fee
    /\ a.type = "addStaker" => a.key \in Address

ActionsSound ==
    \A i \in ActionID :
        \A a \in {cur.actions[i], pending.put[i], layer.actions[i], disk.actions[i]} :
            a # None => Sound(a)

RecordInv == TypeOK /\ ActionsSound

LEMMA FirstVotersSound ==
  ASSUME TypeOK, NEW s \in Voter
  PROVE  FirstVoters(s) \in Seq(Voter) /\ Distinct(FirstVoters(s))
BY DEF FirstVoters, Distinct

\* Where a written action comes from: a proposal with a key that no action has, a
\* registration, or a vote for the action in cur.
Fresh(id, a) ==
    ~Repeated(id, a.key) /\ (a.type = "param" => cur.params[a.key] # a.val)

Voted(id, a) ==
    /\ cur.actions[id] # None
    /\ a.type = cur.actions[id].type /\ a.key = cur.actions[id].key /\ a.val = cur.actions[id].val
    /\ IsPrefix(cur.actions[id].voters, a.voters)

Lawful(id, a) ==
    \/ Fresh(id, a) /\ UNCHANGED renewed
    \/ a.type = "addStaker" /\ renewed' = renewed \cup {id}
    \/ Voted(id, a) /\ UNCHANGED renewed

\* Propose, Register and Vote write one sound action.
LEMMA WritesSound ==
  ASSUME RecordInv, NEW s \in Voter, NEW id \in ActionID,
         \/ \E type \in {"param", "addType", "modType"}, key \in ParamKey \cup TypeKey,
                val \in Percent \cup Fee : Propose(s, id, type, key, val)
         \/ \E a \in Address : Register(s, id, a)
         \/ Vote(s, id)
  PROVE  \E a : Sound(a) /\ WriteAction(id, a) /\ Lawful(id, a)
<1> USE GovernanceAssumption
<1>1. btime + Week \in Nat
  BY DEF RecordInv, TypeOK
<1>2. ASSUME NEW type \in {"param", "addType", "modType"}, NEW key \in ParamKey \cup TypeKey,
             NEW val \in Percent \cup Fee, Propose(s, id, type, key, val)
      PROVE  \E a : Sound(a) /\ WriteAction(id, a) /\ Lawful(id, a)
  <2> DEFINE a == [type |-> type, key |-> key, val |-> val, end |-> btime + Week,
                   voters |-> FirstVoters(s)]
  <2>1. a \in ActionMeta /\ Distinct(a.voters)
    BY <1>1, FirstVotersSound DEF RecordInv, ActionMeta, Key
  <2>2. Proposable(type, key, val) /\ WriteAction(id, a)
    BY <1>2 DEF Propose
  <2>3. Sound(a)
    BY <2>1, <2>2 DEF Sound, Proposable
  <2>4. Lawful(id, a)
    BY <1>2, <2>2 DEF Propose, Proposable, Lawful, Fresh
  <2> QED
    BY <2>2, <2>3, <2>4
<1>3. ASSUME NEW b \in Address, Register(s, id, b)
      PROVE  \E a : Sound(a) /\ WriteAction(id, a) /\ Lawful(id, a)
  <2> DEFINE a == [type |-> "addStaker", key |-> b, val |-> 0, end |-> btime + Week,
                   voters |-> FirstVoters(s)]
  <2>1. a \in ActionMeta /\ Distinct(a.voters)
    BY <1>1, FirstVotersSound DEF RecordInv, ActionMeta, Key
  <2>2. Sound(a)
    BY <2>1 DEF Sound
  <2> QED
    BY <1>3, <2>2 DEF Register, Lawful
<1>4. CASE Vote(s, id)
  <2> DEFINE old == cur.actions[id]
             a == [old EXCEPT !.voters = Append(@, s)]
  <2>1. old # None /\ s \notin Range(old.voters) /\ WriteAction(id, a)
    BY <1>4 DEF Vote, Open
  <2>2. Sound(old)
    BY <2>1 DEF RecordInv, ActionsSound
  <2>3. old.voters \in Seq(Voter) /\ Distinct(old.voters) /\ old \in ActionMeta
    BY <2>2 DEF Sound, ActionMeta
  <2>4. /\ Append(old.voters, s) \in Seq(Voter) /\ Distinct(Append(old.voters, s))
        /\ IsPrefix(old.voters, Append(old.voters, s))
    BY <2>1, <2>3, DistinctAppend
  <2>5. /\ a \in ActionMeta /\ a.voters = Append(old.voters, s)
        /\ a.type = old.type /\ a.key = old.key /\ a.val = old.val
    BY <2>3, <2>4 DEF ActionMeta
  <2>6. Sound(a)
    BY <2>2, <2>4, <2>5 DEF Sound
  <2>7. Lawful(id, a)
    BY <1>4, <2>1, <2>4, <2>5 DEF Vote, Lawful, Voted
  <2> QED
    BY <2>1, <2>6, <2>7
<1> QED
  BY <1>2, <1>3, <1>4

\* GovernTx in one of its two forms, with the types of what it writes.
LEMMA GovernCases ==
  ASSUME RecordInv, NEW id \in ActionID, Govern(id)
  PROVE  LET a == cur.actions[id] IN
         /\ Sound(a) /\ Open(id) /\ Confirmed(a)
         /\ \/ /\ a.type = "param" /\ a.val \in 5..95 /\ a.key \in ParamKey
               /\ Modified(cur.params, a.key, a.val) \in [ParamKey -> Nat]
               /\ pending' = [pending EXCEPT !.params = Modified(cur.params, a.key, a.val)]
               /\ layer' = [layer EXCEPT !.params = Modified(cur.params, a.key, a.val)]
            \/ /\ a.type \in {"addType", "modType"} /\ a.key \in TypeKey /\ a.val \in Fee
               /\ pending' = [pending EXCEPT !.types[a.key] = a.val]
               /\ layer' = [layer EXCEPT !.types[a.key] = a.val]
<1> DEFINE a == cur.actions[id]
<1>1. Sound(a) /\ Open(id) /\ Confirmed(a)
  BY DEF Govern, Open, RecordInv, ActionsSound
<1>2. CASE a.type = "param" /\ a.val \in 5..95
  <2>1. a.key \in ParamKey /\ cur.params \in [ParamKey -> Nat]
    BY <1>1, <1>2 DEF Sound, RecordInv, TypeOK, State
  <2>2. Modified(cur.params, a.key, a.val) \in [ParamKey -> Nat]
    <3> SUFFICES ASSUME NEW k \in ParamKey PROVE Modified(cur.params, a.key, a.val)[k] \in Nat
      BY DEF Modified
    <3>1. a.val \in Nat /\ 100 - a.val \in Nat /\ cur.params[k] \in Nat
      BY <1>2, <2>1
    <3>2. Modified(cur.params, a.key, a.val)[k] \in {a.val, 100 - a.val, cur.params[k]}
      BY DEF Modified
    <3> QED
      BY <3>1, <3>2
  <2> QED
    BY <1>1, <1>2, <2>1, <2>2 DEF Govern
<1>3. CASE a.type \in {"addType", "modType"}
  BY <1>1, <1>3 DEF Govern, Sound
<1> QED
  BY <1>1, <1>2, <1>3 DEF Govern

LEMMA GovernFields ==
  ASSUME RecordInv, NEW id \in ActionID, Govern(id)
  PROVE  /\ pending' \in Change /\ layer' \in State
         /\ pending'.put = pending.put /\ pending'.del = pending.del
         /\ pending'.join = pending.join /\ pending'.leave = pending.leave
         /\ layer'.actions = layer.actions /\ layer'.routes = layer.routes
         /\ LET a == cur.actions[id] IN
            \/ /\ a.type = "param" /\ a.val \in 5..95 /\ a.key \in ParamKey
               /\ pending'.params = Modified(cur.params, a.key, a.val)
               /\ layer'.params = Modified(cur.params, a.key, a.val)
               /\ pending'.types = pending.types /\ layer'.types = layer.types
            \/ /\ a.type \in {"addType", "modType"} /\ a.key \in TypeKey /\ a.val \in Fee
               /\ pending'.types = [pending.types EXCEPT ![a.key] = a.val]
               /\ layer'.types = [layer.types EXCEPT ![a.key] = a.val]
               /\ pending'.params = pending.params /\ layer'.params = layer.params
<1> DEFINE a == cur.actions[id]
           m == Modified(cur.params, a.key, a.val)
<1>1. CASE /\ a.type = "param" /\ a.val \in 5..95 /\ a.key \in ParamKey /\ m \in [ParamKey -> Nat]
           /\ pending' = [pending EXCEPT !.params = m] /\ layer' = [layer EXCEPT !.params = m]
  <2> HIDE DEF m
  <2>1. TypeOK /\ m \in [ParamKey -> Nat]
    BY <1>1 DEF RecordInv
  <2> QED
    BY <1>1, <2>1, GovernParamFields DEF m
<1>2. CASE /\ a.type \in {"addType", "modType"} /\ a.key \in TypeKey /\ a.val \in Fee
           /\ pending' = [pending EXCEPT !.types[a.key] = a.val]
           /\ layer' = [layer EXCEPT !.types[a.key] = a.val]
  BY <1>2, GovernTypeFields DEF RecordInv
<1> QED
  BY <1>1, <1>2, GovernCases

LEMMA RecordInvariant == Spec => []RecordInv
<1> USE GovernanceAssumption
<1>1. Init => RecordInv
  <2> SUFFICES ASSUME Init PROVE RecordInv
    OBVIOUS
  <2>1. PICK r \in SUBSET Address :
          cur = [actions |-> [i \in ActionID |-> None], routes |-> r,
                 params |-> [k \in ParamKey |-> GenesisParams[k]],
                 types |-> [t \in TypeKey |-> 0]]
    BY DEF Init
  <2>2. cur \in State /\ layer = cur /\ disk = cur
    BY <2>1, GenesisShares DEF Init, State
  <2>3. pending \in Change
    BY DEF Init, NoPending, Change
  <2>4. TypeOK
    <3>1. now \in 0..MaxTime /\ btime \in 0..now /\ total \in 0..MaxTxs
      BY DEF Init
    <3>2. phase \in {"idle", "block", "down"} /\ executed \in BOOLEAN /\ renewed \subseteq ActionID
      BY DEF Init
    <3> QED
      BY <2>2, <2>3, <3>1, <3>2 DEF TypeOK
  <2>5. \A i \in ActionID : cur.actions[i] = None /\ pending.put[i] = None
    BY <2>1 DEF Init, NoPending
  <2> QED
    BY <2>2, <2>4, <2>5 DEF RecordInv, ActionsSound
<1>2. RecordInv /\ [Next]_vars => RecordInv'
  <2> SUFFICES ASSUME RecordInv, [Next]_vars PROVE RecordInv'
    OBVIOUS
  <2>0. TypeOK /\ ActionsSound
    BY DEF RecordInv
  <2>1. ASSUME NEW s \in Voter, NEW id \in ActionID,
               \/ \E type \in {"param", "addType", "modType"}, key \in ParamKey \cup TypeKey,
                      val \in Percent \cup Fee : Propose(s, id, type, key, val)
               \/ \E a \in Address : Register(s, id, a)
               \/ Vote(s, id)
        PROVE  RecordInv'
    <3>1. PICK a : Sound(a) /\ WriteAction(id, a)
      BY <2>1, WritesSound
    <3>2. /\ pending' \in Change /\ layer' \in State
          /\ pending'.put = [pending.put EXCEPT ![id] = a]
          /\ layer'.actions = [layer.actions EXCEPT ![id] = a]
      BY <2>0, <3>1, WriteFields DEF Sound
    <3>3. /\ UNCHANGED <<cur, disk, now, btime, phase>> /\ executed' \in BOOLEAN
          /\ total' \in 0..MaxTxs /\ renewed' \in SUBSET ActionID
      <4>1. Executing /\ Rest /\ renewed' \in {renewed, renewed \cup {id}}
        BY <2>1 DEF Propose, Register, Vote
      <4>2. total' \in 0..MaxTxs
        BY <2>0, <4>1 DEF Executing, TypeOK
      <4> QED
        BY <2>0, <4>1, <4>2 DEF Executing, Rest, TypeOK
    <3>4. TypeOK'
      BY <2>0, <3>2, <3>3 DEF TypeOK
    <3>5. ActionsSound'
      BY <2>0, <3>1, <3>2, <3>3 DEF ActionsSound, TypeOK, Change, State
    <3> QED
      BY <3>4, <3>5 DEF RecordInv
  <2>2. ASSUME NEW id \in ActionID, Govern(id) PROVE RecordInv'
    <3>1. /\ pending' \in Change /\ layer' \in State
          /\ pending'.put = pending.put /\ layer'.actions = layer.actions
      BY <2>2, GovernFields
    <3>2. UNCHANGED <<cur, disk, now, btime, phase, total, renewed>> /\ executed' \in BOOLEAN
      BY <2>2 DEF Govern, Rest
    <3> QED
      BY <2>0, <3>1, <3>2 DEF RecordInv, TypeOK, ActionsSound
  <2>3. ASSUME NEW s \in Address, NEW a \in Address, Stake(s, a) PROVE RecordInv'
    <3>1. PICK id \in ActionID :
            /\ pending' = [DelAction(pending, id) EXCEPT !.join = @ \cup {a}, !.leave = @ \ {a}]
            /\ layer' = [layer EXCEPT !.actions[id] = None, !.routes = @ \cup {a}]
      BY <2>3 DEF Stake
    <3>2. /\ pending' \in Change /\ layer' \in State
          /\ pending'.put = [pending.put EXCEPT ![id] = None]
          /\ layer'.actions = [layer.actions EXCEPT ![id] = None]
      BY <2>0, <3>1, StakeFields
    <3>3. /\ UNCHANGED <<cur, disk, now, btime, phase, renewed>> /\ executed' \in BOOLEAN
          /\ total' \in 0..MaxTxs
      BY <2>0, <2>3 DEF Stake, Rest, Executing, TypeOK
    <3>4. ActionsSound'
      BY <2>0, <3>2, <3>3 DEF ActionsSound, TypeOK, Change, State
    <3> QED
      BY <2>0, <3>2, <3>3, <3>4 DEF RecordInv, TypeOK
  <2>4. ASSUME NEW a \in Address, Unstake(a) PROVE RecordInv'
    <3>1. /\ pending' \in Change /\ layer' \in State
          /\ pending'.put = pending.put /\ layer'.actions = layer.actions
      BY <2>0, <2>4, UnstakeFields
    <3>2. /\ UNCHANGED <<cur, disk, now, btime, phase, renewed>> /\ executed' \in BOOLEAN
          /\ total' \in 0..MaxTxs
      BY <2>0, <2>4 DEF Unstake, Rest, Executing, TypeOK
    <3> QED
      BY <2>0, <3>1, <3>2 DEF RecordInv, TypeOK, ActionsSound
  <2>5. CASE StartBlock
    <3>1. TypeOK'
      <4>1. btime' \in 0..now
        BY <2>0, <2>5 DEF StartBlock, TypeOK
      <4> QED
        BY <2>0, <2>5, <4>1 DEF StartBlock, TypeOK
    <3>2. ActionsSound'
      BY <2>0, <2>5 DEF StartBlock, ActionsSound
    <3> QED
      BY <3>1, <3>2 DEF RecordInv
  <2>6. CASE Accept
    <3>1. TypeOK'
      BY <2>0, <2>6, MergedState DEF Accept, TypeOK
    <3>2. \A i \in ActionID : cur'.actions[i] \in {None, pending.put[i], cur.actions[i]}
      BY <2>6 DEF Accept, Merged
    <3>3. \A i \in ActionID : pending'.put[i] = None
      BY <2>6 DEF Accept, NoPending
    <3>4. UNCHANGED layer /\ disk' = layer
      BY <2>6 DEF Accept
    <3>5. ActionsSound'
      BY <2>0, <3>2, <3>3, <3>4 DEF ActionsSound
    <3> QED
      BY <3>1, <3>5 DEF RecordInv
  <2>7. CASE Tick
    BY <2>0, <2>7 DEF Tick, RecordInv, TypeOK, ActionsSound
  <2>8. CASE Restart
    <3>1. TypeOK'
      BY <2>0, <2>8, MergedState DEF Restart, TypeOK
    <3>2. \A i \in ActionID : cur'.actions[i] \in {None, disk.actions[i], cur.actions[i]}
      BY <2>0, <2>8, ReloadedFields DEF Restart, TypeOK
    <3>3. \A i \in ActionID : pending'.put[i] = None
      BY <2>8 DEF Restart, NoPending
    <3>4. UNCHANGED <<layer, disk>>
      BY <2>8 DEF Restart
    <3>5. ActionsSound'
      BY <2>0, <3>2, <3>3, <3>4 DEF ActionsSound
    <3> QED
      BY <3>1, <3>5 DEF RecordInv
  <2>9. CASE UNCHANGED vars
    BY <2>0, <2>9 DEF vars, RecordInv, TypeOK, ActionsSound
  <2> QED
    BY <2>1, <2>2, <2>3, <2>4, <2>5, <2>6, <2>7, <2>8, <2>9 DEF Next
<1> QED
  BY <1>1, <1>2, PTL DEF Spec

-----------------------------------------------------------------------------
(* The maps in memory and the database.                                      *)

\* MapsAreStored, in the middle of a block too.
CurMatchesDisk ==
    /\ cur.routes = disk.routes /\ cur.params = disk.params /\ cur.types = disk.types
    /\ \A i \in ActionID : cur.actions[i] # disk.actions[i] =>
          cur.actions[i] = None /\ disk.actions[i].end < now

\* The database of the block being executed is what Commit would make of the disk.
LayerIsPending ==
    /\ \A i \in ActionID : layer.actions[i] = IF i \in pending.del THEN None
                                              ELSE IF pending.put[i] # None THEN pending.put[i]
                                              ELSE disk.actions[i]
    /\ layer.routes = (disk.routes \cup pending.join) \ pending.leave
    /\ layer.params = IF \E k \in ParamKey : pending.params[k] # 0 THEN pending.params
                                                                    ELSE disk.params
    /\ \A t \in TypeKey : layer.types[t] = IF pending.types[t] # 0 THEN pending.types[t]
                                                                    ELSE disk.types[t]

MatchInv ==
    /\ CurMatchesDisk
    /\ phase # "block" => pending = NoPending
    /\ phase = "block" => LayerIsPending

LEMMA NothingPending ==
  /\ \A i \in ActionID : NoPending.put[i] = None
  /\ NoPending.del = {} /\ NoPending.join = {} /\ NoPending.leave = {}
  /\ \A k \in ParamKey : NoPending.params[k] = 0
  /\ \A t \in TypeKey : NoPending.types[t] = 0
BY DEF NoPending

\* Accept writes the layer and Commit merges the pending maps: the same, field by field.
LEMMA AcceptKeepsMatch ==
  ASSUME RecordInv, MatchInv, Accept
  PROVE  CurMatchesDisk'
<1>1. cur' = Merged /\ disk' = layer /\ LayerIsPending /\ CurMatchesDisk /\ UNCHANGED now
  BY DEF Accept, MatchInv
<1>2. Merged \in State /\ layer \in State
  BY MergedState DEF RecordInv, TypeOK
<1>3. Merged.routes = layer.routes
  BY <1>1 DEF Merged, LayerIsPending, CurMatchesDisk
<1>4. Merged.params = layer.params
  BY <1>1 DEF Merged, LayerIsPending, CurMatchesDisk
<1>5. Merged.types = layer.types
  <2>1. \A t \in TypeKey : Merged.types[t] = layer.types[t]
    BY <1>1 DEF Merged, LayerIsPending, CurMatchesDisk
  <2> QED
    BY <1>2, <2>1 DEF State
<1>6. \A i \in ActionID : Merged.actions[i] # layer.actions[i] =>
         Merged.actions[i] = None /\ layer.actions[i].end < now
  <2> SUFFICES ASSUME NEW i \in ActionID, Merged.actions[i] # layer.actions[i]
               PROVE  Merged.actions[i] = None /\ layer.actions[i].end < now
    OBVIOUS
  <2>1. Merged.actions[i] = IF i \in pending.del THEN None
                            ELSE IF pending.put[i] # None THEN pending.put[i]
                            ELSE cur.actions[i]
    BY DEF Merged
  <2>2. Merged.actions[i] = cur.actions[i] /\ layer.actions[i] = disk.actions[i]
    BY <1>1, <2>1 DEF LayerIsPending
  <2> QED
    BY <1>1, <2>2 DEF CurMatchesDisk
<1> QED
  BY <1>1, <1>3, <1>4, <1>5, <1>6 DEF CurMatchesDisk

\* A transaction writes to the pending maps what it writes to the layer.
LEMMA ExecutionKeepsLayer ==
  ASSUME RecordInv, MatchInv, phase = "block", UNCHANGED <<cur, disk, now, phase>>,
         LayerIsPending'
  PROVE  MatchInv'
BY DEF MatchInv, CurMatchesDisk

LEMMA MatchInvariant == Spec => []MatchInv
<1> USE GovernanceAssumption
<1>1. Init => MatchInv
  BY DEF Init, MatchInv, CurMatchesDisk
<1>2. RecordInv /\ MatchInv /\ [Next]_vars => MatchInv'
  <2> SUFFICES ASSUME RecordInv, MatchInv, [Next]_vars PROVE MatchInv'
    OBVIOUS
  <2>0. /\ TypeOK /\ ActionsSound /\ CurMatchesDisk
        /\ pending \in Change /\ layer \in State /\ cur \in State /\ disk \in State
    BY DEF RecordInv, TypeOK, MatchInv
  <2>1. ASSUME NEW s \in Voter, NEW id \in ActionID,
               \/ \E type \in {"param", "addType", "modType"}, key \in ParamKey \cup TypeKey,
                      val \in Percent \cup Fee : Propose(s, id, type, key, val)
               \/ \E a \in Address : Register(s, id, a)
               \/ Vote(s, id)
        PROVE  MatchInv'
    <3>1. PICK a : Sound(a) /\ WriteAction(id, a)
      BY <2>1, WritesSound
    <3>2. a \in ActionMeta /\ a # None
      BY <3>1 DEF Sound, ActionMeta, None
    <3>3. phase = "block" /\ UNCHANGED <<cur, disk, now, phase>> /\ LayerIsPending
      BY <2>1 DEF Propose, Register, Vote, Rest, Executing, MatchInv
    <3>4. /\ pending'.put = [pending.put EXCEPT ![id] = a] /\ pending'.del = pending.del \ {id}
          /\ pending'.join = pending.join /\ pending'.leave = pending.leave
          /\ pending'.params = pending.params /\ pending'.types = pending.types
          /\ layer'.actions = [layer.actions EXCEPT ![id] = a] /\ layer'.routes = layer.routes
          /\ layer'.params = layer.params /\ layer'.types = layer.types
      BY <2>0, <3>1, <3>2, WriteFields
    <3>5. LayerIsPending'
      BY <2>0, <3>2, <3>3, <3>4 DEF LayerIsPending, Change, State
    <3> QED
      BY <3>3, <3>5, ExecutionKeepsLayer
  <2>2. ASSUME NEW id \in ActionID, Govern(id) PROVE MatchInv'
    <3> DEFINE a == cur.actions[id]
               m == Modified(cur.params, a.key, a.val)
    <3>1. phase = "block" /\ UNCHANGED <<cur, disk, now, phase>> /\ LayerIsPending
      BY <2>2 DEF Govern, Rest, MatchInv
    <3>2. /\ pending'.put = pending.put /\ pending'.del = pending.del
          /\ pending'.join = pending.join /\ pending'.leave = pending.leave
          /\ layer'.actions = layer.actions /\ layer'.routes = layer.routes
      BY <2>2, GovernFields
    <3>3. CASE /\ a.type = "param" /\ a.val \in 5..95 /\ a.key \in ParamKey
               /\ pending'.params = m /\ layer'.params = m
               /\ pending'.types = pending.types /\ layer'.types = layer.types
      <4>1. m[a.key] # 0
        BY <3>3 DEF Modified
      <4> HIDE DEF m
      <4>2. layer'.params = IF \E k \in ParamKey : pending'.params[k] # 0 THEN pending'.params
                                                                         ELSE disk.params
        BY <3>3, <4>1
      <4>3. LayerIsPending'
        <5> HIDE DEF a
        <5> QED
          BY <3>1, <3>2, <3>3, <4>2 DEF LayerIsPending
      <4> QED
        BY <3>1, <4>3, ExecutionKeepsLayer
    <3>4. CASE /\ a.type \in {"addType", "modType"} /\ a.key \in TypeKey /\ a.val \in Fee
               /\ pending'.types = [pending.types EXCEPT ![a.key] = a.val]
               /\ layer'.types = [layer.types EXCEPT ![a.key] = a.val]
               /\ pending'.params = pending.params /\ layer'.params = layer.params
      <4>1. a.val # 0 /\ pending.types \in [TypeKey -> Fee \cup {0}]
            /\ layer.types \in [TypeKey -> Fee \cup {0}]
        BY <2>0, <3>4 DEF Change, State
      <4>2. \A t \in TypeKey : layer'.types[t] = IF pending'.types[t] # 0 THEN pending'.types[t]
                                                                          ELSE disk.types[t]
        BY <3>1, <3>4, <4>1 DEF LayerIsPending
      <4>3. LayerIsPending'
        BY <3>1, <3>2, <3>4, <4>2 DEF LayerIsPending
      <4> QED
        BY <3>1, <4>3, ExecutionKeepsLayer
    <3> QED
      BY <2>2, <3>3, <3>4, GovernFields
  <2>3. ASSUME NEW s \in Address, NEW a \in Address, Stake(s, a) PROVE MatchInv'
    <3>1. PICK id \in ActionID :
            /\ pending' = [DelAction(pending, id) EXCEPT !.join = @ \cup {a}, !.leave = @ \ {a}]
            /\ layer' = [layer EXCEPT !.actions[id] = None, !.routes = @ \cup {a}]
      BY <2>3 DEF Stake
    <3>2. phase = "block" /\ UNCHANGED <<cur, disk, now, phase>> /\ LayerIsPending
      BY <2>3 DEF Stake, Rest, Executing, MatchInv
    <3>3. /\ pending'.put = [pending.put EXCEPT ![id] = None] /\ pending'.del = pending.del \cup {id}
          /\ pending'.join = pending.join \cup {a} /\ pending'.leave = pending.leave \ {a}
          /\ pending'.params = pending.params /\ pending'.types = pending.types
          /\ layer'.actions = [layer.actions EXCEPT ![id] = None]
          /\ layer'.routes = layer.routes \cup {a}
          /\ layer'.params = layer.params /\ layer'.types = layer.types
      BY <2>0, <3>1, StakeFields
    <3>4. LayerIsPending'
      BY <2>0, <3>2, <3>3 DEF LayerIsPending, Change, State
    <3> QED
      BY <3>2, <3>4, ExecutionKeepsLayer
  <2>4. ASSUME NEW a \in Address, Unstake(a) PROVE MatchInv'
    <3>1. /\ pending'.put = pending.put /\ pending'.del = pending.del
          /\ pending'.join = pending.join \ {a} /\ pending'.leave = pending.leave \cup {a}
          /\ pending'.params = pending.params /\ pending'.types = pending.types
          /\ layer'.actions = layer.actions /\ layer'.routes = layer.routes \ {a}
          /\ layer'.params = layer.params /\ layer'.types = layer.types
      BY <2>0, <2>4, UnstakeFields
    <3>2. phase = "block" /\ UNCHANGED <<cur, disk, now, phase>> /\ LayerIsPending
      BY <2>4 DEF Unstake, Rest, Executing, MatchInv
    <3>3. LayerIsPending'
      BY <3>1, <3>2 DEF LayerIsPending
    <3> QED
      BY <3>2, <3>3, ExecutionKeepsLayer
  <2>5. CASE StartBlock
    <3>1. pending' = NoPending /\ layer' = disk /\ phase' = "block" /\ UNCHANGED <<cur, disk, now>>
      BY <2>5 DEF StartBlock, MatchInv
    <3>2. LayerIsPending'
      BY <3>1, NothingPending DEF LayerIsPending
    <3> QED
      BY <2>0, <3>1, <3>2 DEF MatchInv, CurMatchesDisk
  <2>6. CASE Accept
    BY <2>6, AcceptKeepsMatch DEF Accept, MatchInv
  <2>7. CASE Tick
    <3>1. /\ now' = now + 1 /\ now \in Nat /\ \A i \in ActionID : disk.actions[i].end \in Nat
          /\ UNCHANGED <<cur, disk, pending, phase>> /\ phase = "idle"
      BY <2>0, <2>7 DEF Tick, TypeOK, State, ActionMeta, None
    <3> QED
      BY <2>0, <3>1 DEF MatchInv, CurMatchesDisk
  <2>8. CASE Restart
    <3>1. pending' = NoPending /\ phase' # "block" /\ UNCHANGED <<disk, now>>
      BY <2>8 DEF Restart
    <3>2. CASE UNCHANGED cur
      BY <2>0, <3>1, <3>2 DEF MatchInv, CurMatchesDisk
    <3>3. CASE cur' = Reloaded /\ Startable
      BY <2>0, <3>1, <3>3, ReloadedFields DEF MatchInv, CurMatchesDisk
    <3> QED
      BY <2>8, <3>2, <3>3 DEF Restart
  <2>9. CASE UNCHANGED vars
    BY <2>9 DEF vars, MatchInv, CurMatchesDisk, LayerIsPending
  <2> QED
    BY <2>1, <2>2, <2>3, <2>4, <2>5, <2>6, <2>7, <2>8, <2>9 DEF Next
<1> QED
  BY <1>1, <1>2, RecordInvariant, PTL DEF Spec

\* Commit (state.go:157) leaves in the maps what the block stored and, while the node can
\* be started, what the Reload functions would read, whatever the block put, deleted, put
\* again, voted or decided.
THEOREM CommitIsReload == Spec => []CommitMatchesReload
<1>1. RecordInv /\ MatchInv => CommitMatchesReload
  <2> SUFFICES ASSUME RecordInv, MatchInv PROVE CommitMatchesReload
    OBVIOUS
  <2>1. cur \in State /\ disk \in State /\ CurMatchesDisk
    BY DEF RecordInv, TypeOK, MatchInv
  <2>2. [cur EXCEPT !.actions = <<>>] = [disk EXCEPT !.actions = <<>>]
    BY <2>1 DEF State, CurMatchesDisk
  <2>3. ASSUME Startable
        PROVE  [cur EXCEPT !.actions = WithoutOverdue(cur.actions)] = Reloaded
    <3>1. WithoutOverdue(cur.actions) = WithoutOverdue(disk.actions)
      <4>1. \A i \in ActionID : WithoutOverdue(cur.actions)[i] = WithoutOverdue(disk.actions)[i]
        <5> SUFFICES ASSUME NEW i \in ActionID
                     PROVE  WithoutOverdue(cur.actions)[i] = WithoutOverdue(disk.actions)[i]
          OBVIOUS
        <5>1. CASE cur.actions[i] = disk.actions[i]
          BY <5>1 DEF WithoutOverdue
        <5>2. CASE cur.actions[i] = None /\ disk.actions[i].end < now
          BY <5>2 DEF WithoutOverdue
        <5> QED
          BY <2>1, <5>1, <5>2 DEF CurMatchesDisk
      <4> QED
        BY <4>1 DEF WithoutOverdue
    <3>2. cur.types = [t \in TypeKey |-> 0]
      <4>1. cur.types \in [TypeKey -> Fee \cup {0}] /\ \A t \in TypeKey : cur.types[t] = 0
        BY <2>1, <2>3 DEF State, Startable, CurMatchesDisk
      <4> QED
        BY <4>1
    <3>3. /\ cur = [actions |-> cur.actions, routes |-> cur.routes, params |-> cur.params,
                    types |-> cur.types]
          /\ disk = [actions |-> disk.actions, routes |-> disk.routes, params |-> disk.params,
                     types |-> disk.types]
      BY <2>1 DEF State
    <3>4. cur.routes = disk.routes /\ cur.params = disk.params
      BY <2>1 DEF CurMatchesDisk
    <3> QED
      BY <3>1, <3>2, <3>3, <3>4 DEF Reloaded
  <2> QED
    BY <2>1, <2>2, <2>3 DEF CommitMatchesReload, MapsAreStored, CurMatchesDisk
<1> QED
  BY <1>1, RecordInvariant, MatchInvariant, PTL

-----------------------------------------------------------------------------
(* The parameters: ModifyParams (system_params.go:223).                      *)

\* The pairs of halves do not overlap.
LEMMA HalvesApart ==
  /\ \A h \in Halves : Range(h) = {h[1], h[2]} /\ h[1] # h[2]
  /\ \A g, h \in Halves : g # h => {g[1], g[2]} \cap {h[1], h[2]} = {}
<1>1. \A h \in Halves : h[1] # h[2] /\ h = <<h[1], h[2]>>
  BY DEF Halves
<1>2. \A h \in Halves : Range(h) = {h[1], h[2]}
  BY <1>1, RangeOfPair
<1>3. \A g, h \in Halves : g # h => {g[1], g[2]} \cap {h[1], h[2]} = {}
  BY DEF Halves
<1> QED
  BY <1>1, <1>2, <1>3

LEMMA ModifiedShares ==
  ASSUME NEW p \in [ParamKey -> Nat], NEW key \in ParamKey, NEW val \in 0..100,
         NEW h \in Halves, h[1] \in ParamKey
  PROVE  \/ Modified(p, key, val)[h[1]] + Modified(p, key, val)[h[2]] = 100
         \/ \A k \in {h[1], h[2]} : Modified(p, key, val)[k] = p[k]
<1> DEFINE m == Modified(p, key, val)
           Partner(k) == \E g \in Halves : {k, key} = Range(g)
<1>1. h[1] \in ParamKey /\ h[2] \in ParamKey /\ Range(h) = {h[1], h[2]} /\ h[1] # h[2]
  BY GovernanceAssumption, HalvesApart
<1>2. \A k \in ParamKey : m[k] = IF k = key THEN val ELSE IF Partner(k) THEN 100 - val ELSE p[k]
  BY DEF Modified
<1>3. \A k \in {h[1], h[2]} : k # key => (Partner(k) <=> key \in {h[1], h[2]})
  <2> SUFFICES ASSUME NEW k \in {h[1], h[2]}, k # key
               PROVE  Partner(k) <=> key \in {h[1], h[2]}
    OBVIOUS
  <2>1. ASSUME NEW g \in Halves, {k, key} = Range(g) PROVE key \in {h[1], h[2]}
    <3>1. Range(g) = {g[1], g[2]}
      BY HalvesApart
    <3>2. g = h
      BY <2>1, <3>1, HalvesApart
    <3> QED
      BY <2>1, <3>1, <3>2
  <2>2. ASSUME key \in {h[1], h[2]} PROVE Partner(k)
    <3>1. {k, key} = Range(h)
      BY <1>1, <2>2
    <3> QED
      BY <3>1
  <2> QED
    BY <2>1, <2>2
<1> HIDE DEF m, Partner
<1>4. CASE key \in {h[1], h[2]}
  BY <1>1, <1>2, <1>3, <1>4 DEF m
<1>5. CASE key \notin {h[1], h[2]}
  BY <1>1, <1>2, <1>3, <1>5 DEF m
<1> QED
  BY <1>4, <1>5

\* A decision that changes nothing at its own key changes nothing at all, once the halves
\* add up to the whole.
LEMMA ModifiedMoot ==
  ASSUME NEW p \in [ParamKey -> Nat], NEW key \in ParamKey, NEW val \in Nat, p[key] = val,
         \A h \in Halves : key \in {h[1], h[2]} => p[h[1]] + p[h[2]] = 100
  PROVE  Modified(p, key, val) = p
<1>1. ASSUME NEW k \in ParamKey, k # key, NEW h \in Halves, {k, key} = Range(h)
      PROVE  p[k] = 100 - val
  <2>1. {k, key} = {h[1], h[2]} /\ h[1] # h[2]
    BY <1>1, HalvesApart
  <2>2. k \in {h[1], h[2]} /\ key \in {h[1], h[2]}
    BY <2>1, Zenon
  <2>3. p[h[1]] + p[h[2]] = 100 /\ p[k] \in Nat
    BY <2>2
  <2>4. CASE k = h[1]
    <3>1. key = h[2]
      BY <1>1, <2>2, <2>4
    <3> QED
      BY <2>3, <2>4, <3>1
  <2>5. CASE k = h[2]
    <3>1. key = h[1]
      BY <1>1, <2>2, <2>5
    <3> QED
      BY <2>3, <2>5, <3>1
  <2> QED
    BY <2>2, <2>4, <2>5
<1>2. \A k \in ParamKey : Modified(p, key, val)[k] = p[k]
  BY <1>1 DEF Modified
<1> QED
  BY <1>2 DEF Modified

-----------------------------------------------------------------------------
(* What the block in execution has decided, and what it may decide.          *)

\* Open proposals have keys of their own, also across the accepted and the pending maps.
KeysApart ==
    \A i, j \in ActionID : i # j =>
        \A a \in {cur.actions[i], pending.put[i]}, b \in {cur.actions[j], pending.put[j]} :
            a # None /\ b # None /\ a.type # "addStaker" => a.key # b.key

\* A proposal would change the parameter it names, or the halves already add up to the
\* whole: a decision never moves the other half alone.
NeverMoot ==
    \A i \in ActionID : \A a \in {cur.actions[i], pending.put[i]} :
        a.type = "param" =>
            \/ cur.params[a.key] # a.val
            \/ \A h \in Halves : a.key \in {h[1], h[2]} => cur.params[h[1]] + cur.params[h[2]] = 100

Decided(id, types) ==
    cur.actions[id] # None /\ cur.actions[id].type \in types /\ Confirmed(cur.actions[id])

\* Every pending decision rests on an action of the accepted state.
PendingDecided ==
    /\ (\E k \in ParamKey : pending.params[k] # 0) =>
          \E id \in ActionID :
              /\ Decided(id, {"param"}) /\ cur.actions[id].val \in 5..95
              /\ pending.params = Modified(cur.params, cur.actions[id].key, cur.actions[id].val)
    /\ \A t \in TypeKey : pending.types[t] # 0 =>
          \E id \in ActionID : Decided(id, {"addType", "modType"}) /\ cur.actions[id].key = t
    /\ pending.join # {} => \E id \in ActionID : Decided(id, {"addStaker"})

\* A pending action has the votes of the accepted one, unless RegisterTx wrote it.
VotesGrow ==
    \A i \in ActionID \ renewed :
        pending.put[i] # None => IsPrefix(cur.actions[i].voters, pending.put[i].voters)

DecisionInv == KeysApart /\ SharesWithinHundred /\ NeverMoot /\ PendingDecided /\ VotesGrow

\* With nothing pending, only the accepted state counts.
LEMMA NothingDecided ==
  ASSUME pending = NoPending
  PROVE  PendingDecided /\ VotesGrow
BY NothingPending DEF PendingDecided, VotesGrow

\* Propose, Register and Vote (proposal_tx.go:72, register_tx.go:90, vote_tx.go:46).
LEMMA WriteKeepsDecisions ==
  ASSUME RecordInv, MatchInv, DecisionInv, NEW id \in ActionID, NEW a,
         Sound(a), WriteAction(id, a), Lawful(id, a), UNCHANGED cur
  PROVE  DecisionInv'
<1>1. /\ pending'.put = [pending.put EXCEPT ![id] = a] /\ pending'.join = pending.join
      /\ pending'.params = pending.params /\ pending'.types = pending.types
  BY WriteFields DEF Sound, RecordInv
<1>2. pending.put \in [ActionID -> ActionMeta \cup {None}] /\ a \in ActionMeta
  BY DEF RecordInv, TypeOK, Change, Sound
<1>3. \A i \in ActionID : pending'.put[i] = IF i = id THEN a ELSE pending.put[i]
  BY <1>1, <1>2
<1>4. \A i \in ActionID : \A b \in {cur.actions[i], pending.put[i]} :
         b # None /\ b.type # "addStaker" => b.key \notin Address
  <2> SUFFICES ASSUME NEW i \in ActionID, NEW b \in {cur.actions[i], pending.put[i]},
                      b # None, b.type # "addStaker"
               PROVE  b.key \notin Address
    OBVIOUS
  <2>1. Sound(b)
    BY DEF RecordInv, ActionsSound
  <2>2. b.type \in {"param", "addType", "modType"}
    BY <2>1 DEF Sound, ActionMeta
  <2> QED
    BY <2>1, <2>2, GovernanceAssumption DEF Sound
<1>5. ASSUME NEW j \in ActionID, j # id, NEW b \in {cur.actions[j], pending.put[j]}, b # None
      PROVE  (a.type # "addStaker" \/ b.type # "addStaker") => a.key # b.key
  <2>1. CASE Fresh(id, a)
    BY <1>5, <2>1 DEF Fresh, Repeated
  <2>2. CASE a.type = "addStaker"
    BY <1>4, <1>5, <2>2 DEF Sound
  <2>3. CASE Voted(id, a)
    BY <1>5, <2>3 DEF Voted, DecisionInv, KeysApart
  <2> QED
    BY <2>1, <2>2, <2>3 DEF Lawful
<1>6. KeysApart'
  <2> SUFFICES ASSUME NEW i \in ActionID, NEW j \in ActionID, i # j,
                      NEW x \in {cur.actions[i], pending'.put[i]},
                      NEW y \in {cur.actions[j], pending'.put[j]},
                      x # None, y # None, x.type # "addStaker"
               PROVE  x.key # y.key
    BY DEF KeysApart
  <2>1. CASE x \in {cur.actions[i], pending.put[i]} /\ y \in {cur.actions[j], pending.put[j]}
    BY <2>1 DEF DecisionInv, KeysApart
  <2>2. CASE i = id /\ x = a
    <3>1. y \in {cur.actions[j], pending.put[j]}
      BY <1>3, <2>2
    <3> QED
      BY <1>5, <2>2, <3>1
  <2>3. CASE j = id /\ y = a
    <3>1. x \in {cur.actions[i], pending.put[i]}
      BY <1>3, <2>3
    <3> QED
      BY <1>5, <2>3, <3>1
  <2> QED
    BY <1>3, <2>1, <2>2, <2>3
<1>7. NeverMoot'
  <2>1. a.type = "param" =>
           \/ cur.params[a.key] # a.val
           \/ \A h \in Halves : a.key \in {h[1], h[2]} => cur.params[h[1]] + cur.params[h[2]] = 100
    BY DEF Lawful, Fresh, Voted, DecisionInv, NeverMoot
  <2> QED
    BY <1>3, <2>1 DEF DecisionInv, NeverMoot
<1>8. VotesGrow'
  <2>1. id \notin renewed' => IsPrefix(cur.actions[id].voters, a.voters)
    <3>1. CASE Fresh(id, a)
      <4>1. cur.actions[id].voters = <<>> /\ a.voters \in Seq(Voter)
        BY <1>2, <3>1 DEF Fresh, Repeated, None, ActionMeta
      <4>2. IsPrefix(<<>>, a.voters)
        BY <4>1 DEF IsPrefix
      <4> QED
        BY <4>1, <4>2
    <3> QED
      BY <3>1 DEF Lawful, Voted
  <2>2. renewed \subseteq renewed'
    BY DEF Lawful
  <2> QED
    BY <1>3, <2>1, <2>2 DEF DecisionInv, VotesGrow
<1>9. PendingDecided' /\ SharesWithinHundred'
  BY <1>1 DEF DecisionInv, PendingDecided, Decided, Confirmed, NumRoutes, SharesWithinHundred
<1> QED
  BY <1>6, <1>7, <1>8, <1>9 DEF DecisionInv

\* GovernTx, StakeTx and UnStakeTx write no action; what they decide is confirmed.
LEMMA DecidingKeepsDecisions ==
  ASSUME RecordInv, DecisionInv, UNCHANGED <<cur, renewed>>,
         \A i \in ActionID : pending'.put[i] \in {pending.put[i], None},
         PendingDecided'
  PROVE  DecisionInv'
<1>1. KeysApart'
  BY DEF DecisionInv, KeysApart
<1>2. NeverMoot'
  BY DEF DecisionInv, NeverMoot, None
<1>3. VotesGrow' /\ SharesWithinHundred'
  BY DEF DecisionInv, VotesGrow, SharesWithinHundred
<1> QED
  BY <1>1, <1>2, <1>3 DEF DecisionInv

\* What an accepted block makes of the parameters (state.go:157).
LEMMA MergedParams ==
  ASSUME RecordInv, DecisionInv, Merged.params # cur.params
  PROVE  \E id \in ActionID :
            LET a == cur.actions[id] IN
            /\ Decided(id, {"param"}) /\ Sound(a) /\ a.val \in 5..95 /\ a.key \in ParamKey
            /\ Merged.params = Modified(cur.params, a.key, a.val)
<1>1. Merged.params = pending.params /\ \E k \in ParamKey : pending.params[k] # 0
  BY DEF Merged
<1>2. PICK id \in ActionID :
        /\ Decided(id, {"param"}) /\ cur.actions[id].val \in 5..95
        /\ pending.params = Modified(cur.params, cur.actions[id].key, cur.actions[id].val)
  BY <1>1 DEF DecisionInv, PendingDecided
<1>3. Sound(cur.actions[id]) /\ cur.actions[id].key \in ParamKey
  BY <1>2 DEF Decided, RecordInv, ActionsSound, Sound
<1> QED
  BY <1>1, <1>2, <1>3

LEMMA AcceptKeepsDecisions ==
  ASSUME RecordInv, DecisionInv, Accept
  PROVE  DecisionInv'
<1> USE GovernanceAssumption
<1>1. pending' = NoPending /\ cur' = Merged
  BY DEF Accept
<1>2. /\ \A i \in ActionID : cur'.actions[i] \in {None, pending.put[i], cur.actions[i]}
      /\ \A i \in ActionID : pending'.put[i] = None
  BY <1>1, NothingPending DEF Merged
<1>3. KeysApart'
  BY <1>2 DEF DecisionInv, KeysApart
<1>4. cur.params \in [ParamKey -> Nat]
  BY DEF RecordInv, TypeOK, State
<1>5. PendingDecided' /\ VotesGrow'
  BY <1>1, NothingPending DEF PendingDecided, VotesGrow
<1>6. ASSUME NEW h \in Halves, h[1] \in ParamKey, cur'.params # cur.params
      PROVE  \/ cur'.params[h[1]] + cur'.params[h[2]] = 100
             \/ \A k \in {h[1], h[2]} : cur'.params[k] = cur.params[k]
  <2>1. PICK id \in ActionID :
          LET a == cur.actions[id] IN
          /\ a.val \in 5..95 /\ a.key \in ParamKey
          /\ cur'.params = Modified(cur.params, a.key, a.val)
    BY <1>1, <1>6, MergedParams
  <2> DEFINE key == cur.actions[id].key
             val == cur.actions[id].val
             p == cur.params
             m == Modified(p, key, val)
  <2>2. key \in ParamKey /\ val \in 0..100 /\ cur'.params = m
    BY <2>1
  <2>3. p \in [ParamKey -> Nat]
    BY <1>4
  <2> HIDE DEF key, val, p
  <2>4. m[h[1]] + m[h[2]] = 100 \/ \A k \in {h[1], h[2]} : m[k] = p[k]
    <3>1. h[1] \in ParamKey /\ key \in ParamKey /\ val \in 0..100
      BY <1>6, <2>2
    <3> HIDE GovernanceAssumption
    <3> QED
      BY <2>3, <3>1, ModifiedShares
  <2> HIDE DEF m
  <2> QED
    BY <2>2, <2>4 DEF p
<1>7. SharesWithinHundred'
  <2> SUFFICES ASSUME NEW h \in Halves, h[1] \in ParamKey
               PROVE  cur'.params[h[1]] + cur'.params[h[2]] <= 100
    BY DEF SharesWithinHundred
  <2>1. cur.params[h[1]] + cur.params[h[2]] <= 100
    BY DEF DecisionInv, SharesWithinHundred
  <2> QED
    BY <1>6, <2>1
<1>8. NeverMoot'
  <2> SUFFICES ASSUME NEW i \in ActionID, NEW a \in {cur'.actions[i], pending'.put[i]},
                      a.type = "param", cur'.params[a.key] = a.val,
                      NEW h \in Halves, a.key \in {h[1], h[2]}
               PROVE  cur'.params[h[1]] + cur'.params[h[2]] = 100
    BY DEF NeverMoot
  <2>1. a # None /\ a \in {pending.put[i], cur.actions[i]}
    BY <1>2 DEF None
  <2>2. Sound(a)
    BY <2>1 DEF RecordInv, ActionsSound
  <2>3. a.key \in ParamKey /\ h[1] \in ParamKey
    BY <2>2 DEF Sound
  <2>4. CASE \A k \in {h[1], h[2]} : cur'.params[k] = cur.params[k]
    <3>1. cur.params[a.key] = a.val
      BY <2>4
    <3>2. cur.params[h[1]] + cur.params[h[2]] = 100
      BY <2>1, <3>1 DEF DecisionInv, NeverMoot
    <3> QED
      BY <2>4, <3>2
  <2> QED
    BY <1>6, <2>3, <2>4
<1> QED
  BY <1>3, <1>5, <1>7, <1>8 DEF DecisionInv

LEMMA RestartKeepsDecisions ==
  ASSUME RecordInv, MatchInv, DecisionInv, Restart
  PROVE  DecisionInv' /\ cur'.params = cur.params /\ cur'.types = cur.types /\ cur'.routes = cur.routes
<1>1. pending' = NoPending
  BY DEF Restart
<1>2. /\ cur'.params = cur.params /\ cur'.types = cur.types /\ cur'.routes = cur.routes
      /\ \A i \in ActionID : cur'.actions[i] \in {None, cur.actions[i]}
  <2>1. CASE UNCHANGED cur
    BY <2>1
  <2>2. CASE cur' = Reloaded /\ Startable
    BY <2>2, ReloadedFields DEF RecordInv, TypeOK, MatchInv, CurMatchesDisk
  <2> QED
    BY <2>1, <2>2 DEF Restart
<1>3. KeysApart' /\ NeverMoot'
  BY <1>1, <1>2, NothingPending DEF DecisionInv, KeysApart, NeverMoot, None
<1>4. PendingDecided' /\ VotesGrow'
  BY <1>1, NothingPending DEF PendingDecided, VotesGrow
<1>5. SharesWithinHundred'
  BY <1>2 DEF DecisionInv, SharesWithinHundred
<1> QED
  BY <1>2, <1>3, <1>4, <1>5 DEF DecisionInv

LEMMA DecisionInvariant == Spec => []DecisionInv
<1> USE GovernanceAssumption
<1>1. Init => DecisionInv
  <2> SUFFICES ASSUME Init PROVE DecisionInv
    OBVIOUS
  <2>1. pending = NoPending /\ (\A i \in ActionID : cur.actions[i] = None /\ pending.put[i] = None)
        /\ \A k \in ParamKey : cur.params[k] = GenesisParams[k]
    BY NothingPending DEF Init
  <2>2. KeysApart /\ NeverMoot
    BY <2>1 DEF KeysApart, NeverMoot, None
  <2>3. SharesWithinHundred
    BY <2>1, GenesisShares DEF SharesWithinHundred
  <2> QED
    BY <2>1, <2>2, <2>3, NothingDecided DEF DecisionInv
<1>2. RecordInv /\ MatchInv /\ DecisionInv /\ [Next]_vars => DecisionInv'
  <2> SUFFICES ASSUME RecordInv, MatchInv, DecisionInv, [Next]_vars PROVE DecisionInv'
    OBVIOUS
  <2>0. TypeOK /\ pending.put \in [ActionID -> ActionMeta \cup {None}] /\ PendingDecided
    BY DEF RecordInv, TypeOK, Change, DecisionInv
  <2>1. ASSUME NEW s \in Voter, NEW id \in ActionID,
               \/ \E type \in {"param", "addType", "modType"}, key \in ParamKey \cup TypeKey,
                      val \in Percent \cup Fee : Propose(s, id, type, key, val)
               \/ \E a \in Address : Register(s, id, a)
               \/ Vote(s, id)
        PROVE  DecisionInv'
    <3>1. PICK a : Sound(a) /\ WriteAction(id, a) /\ Lawful(id, a)
      BY <2>1, WritesSound
    <3>2. UNCHANGED cur
      BY <2>1 DEF Propose, Register, Vote, Rest
    <3> QED
      BY <3>1, <3>2, WriteKeepsDecisions
  <2>2. ASSUME NEW id \in ActionID, Govern(id) PROVE DecisionInv'
    <3> DEFINE a == cur.actions[id]
    <3>1. /\ UNCHANGED <<cur, renewed>> /\ pending'.put = pending.put /\ pending'.join = pending.join
          /\ a # None /\ Confirmed(a)
      BY <2>2, GovernFields DEF Govern, Rest, Open
    <3>2. CASE /\ a.type = "param" /\ a.val \in 5..95
               /\ pending'.params = Modified(cur.params, a.key, a.val)
               /\ pending'.types = pending.types
      <4>1. PendingDecided'
        BY <2>0, <3>1, <3>2 DEF PendingDecided, Decided, Confirmed, NumRoutes
      <4> QED
        BY <3>1, <4>1, DecidingKeepsDecisions
    <3>3. CASE /\ a.type \in {"addType", "modType"} /\ a.key \in TypeKey
               /\ pending'.types = [pending.types EXCEPT ![a.key] = a.val]
               /\ pending'.params = pending.params
      <4>1. \A t \in TypeKey : t # a.key => pending'.types[t] = pending.types[t]
        BY <2>0, <3>3 DEF TypeOK, Change
      <4>2. PendingDecided'
        BY <2>0, <3>1, <3>3, <4>1 DEF PendingDecided, Decided, Confirmed, NumRoutes
      <4> QED
        BY <3>1, <4>2, DecidingKeepsDecisions
    <3> QED
      BY <2>2, <3>2, <3>3, GovernFields
  <2>3. ASSUME NEW s \in Address, NEW a \in Address, Stake(s, a) PROVE DecisionInv'
    <3>1. PICK id \in ActionID :
            /\ cur.actions[id].type = "addStaker" /\ Confirmed(cur.actions[id])
            /\ pending' = [DelAction(pending, id) EXCEPT !.join = @ \cup {a}, !.leave = @ \ {a}]
            /\ layer' = [layer EXCEPT !.actions[id] = None, !.routes = @ \cup {a}]
      BY <2>3 DEF Stake
    <3>2. /\ pending'.put = [pending.put EXCEPT ![id] = None]
          /\ pending'.params = pending.params /\ pending'.types = pending.types
      BY <2>0, <3>1, StakeFields
    <3>3. UNCHANGED <<cur, renewed>> /\ cur.actions[id] # None
      BY <2>3, <3>1 DEF Stake, Rest, None
    <3>4. PendingDecided'
      BY <2>0, <3>1, <3>2, <3>3 DEF PendingDecided, Decided, Confirmed, NumRoutes
    <3>5. \A i \in ActionID : pending'.put[i] \in {pending.put[i], None}
      BY <2>0, <3>2
    <3> QED
      BY <3>3, <3>4, <3>5, DecidingKeepsDecisions
  <2>4. ASSUME NEW a \in Address, Unstake(a) PROVE DecisionInv'
    <3>1. /\ pending'.put = pending.put /\ pending'.join = pending.join \ {a}
          /\ pending'.params = pending.params /\ pending'.types = pending.types
      BY <2>0, <2>4, UnstakeFields
    <3>2. UNCHANGED <<cur, renewed>>
      BY <2>4 DEF Unstake, Rest
    <3>3. PendingDecided'
      BY <2>0, <3>1, <3>2 DEF PendingDecided, Decided, Confirmed, NumRoutes
    <3> QED
      BY <3>1, <3>2, <3>3, DecidingKeepsDecisions
  <2>5. CASE StartBlock
    <3>1. pending' = NoPending /\ UNCHANGED <<cur, pending>>
      BY <2>5 DEF StartBlock, MatchInv
    <3>2. VotesGrow' /\ PendingDecided'
      BY <3>1, NothingPending DEF VotesGrow, PendingDecided
    <3>3. KeysApart' /\ NeverMoot' /\ SharesWithinHundred'
      BY <3>1 DEF DecisionInv, KeysApart, NeverMoot, SharesWithinHundred
    <3> QED
      BY <3>2, <3>3 DEF DecisionInv
  <2>6. CASE Accept
    BY <2>6, AcceptKeepsDecisions
  <2>7. CASE Restart
    BY <2>7, RestartKeepsDecisions
  <2>8. CASE Tick \/ UNCHANGED vars
    <3>1. UNCHANGED <<cur, pending, renewed>>
      BY <2>8 DEF Tick, vars
    <3>2. PendingDecided'
      BY <2>0, <3>1 DEF PendingDecided, Decided, Confirmed, NumRoutes
    <3> QED
      BY <3>1, <3>2, DecidingKeepsDecisions
  <2> QED
    BY <2>1, <2>2, <2>3, <2>4, <2>5, <2>6, <2>7, <2>8 DEF Next
<1> QED
  BY <1>1, <1>2, RecordInvariant, MatchInvariant, PTL DEF Spec

-----------------------------------------------------------------------------
(* The properties.                                                           *)

\* No double vote, no two open proposals with one key and no shares above a hundred,
\* whatever one block holds, although every transaction reads the accepted state only
\* (proposal_tx.go:72, vote_tx.go:46, system_params.go:223).
THEOREM RecordsWellFormed == Spec => []ActionsWellFormed
<1>1. RecordInv /\ DecisionInv => ActionsWellFormed
  <2> SUFFICES ASSUME RecordInv, DecisionInv PROVE ActionsWellFormed
    OBVIOUS
  <2>1. NoDoubleVote
    <3> SUFFICES ASSUME NEW i \in ActionID,
                        NEW a \in {cur.actions[i], pending.put[i], disk.actions[i]}
                 PROVE  Cardinality(Supporters(a)) = Len(a.voters)
      BY DEF NoDoubleVote
    <3>1. CASE a = None
      <4>1. None.voters = <<>> /\ Range(<<>>) = {} /\ Len(<<>>) = 0
        BY DEF None, Range
      <4> QED
        BY <3>1, <4>1, FS_EmptySet DEF Supporters
    <3>2. CASE a # None
      <4>1. a.voters \in Seq(Voter) /\ Distinct(a.voters)
        BY <3>2 DEF RecordInv, ActionsSound, Sound, ActionMeta
      <4> QED
        BY <4>1, DistinctCounts DEF Supporters
    <3> QED
      BY <3>1, <3>2
  <2>2. ProposalKeysUnique
    BY DEF DecisionInv, KeysApart, ProposalKeysUnique
  <2> QED
    BY <2>1, <2>2 DEF ActionsWellFormed, RecordInv, DecisionInv
<1> QED
  BY <1>1, RecordInvariant, DecisionInvariant, PTL

\* An accepted block takes no vote of an earlier block away (vote_tx.go:55), however many
\* votes for the same action it carries.
THEOREM VotesAreKept == Spec => VotesKept
<1>1. ASSUME RecordInv, DecisionInv, [Next]_vars, phase = "block", phase' = "idle",
             NEW i \in ActionID \ renewed, cur'.actions[i] # None
      PROVE  IsPrefix(cur.actions[i].voters, cur'.actions[i].voters)
  <2>1. Accept
    BY <1>1 DEF Next, StartBlock, Tick, Restart, Propose, Register, Vote, Govern, Stake, Unstake,
                Rest, vars
  <2>2. cur'.actions[i] \in {pending.put[i], cur.actions[i]}
    BY <1>1, <2>1 DEF Accept, Merged
  <2>3. cur.actions[i].voters \in Seq(Voter)
    <3>1. cur.actions[i] \in ActionMeta \cup {None}
      BY <1>1 DEF RecordInv, TypeOK, State
    <3>2. None.voters \in Seq(Voter)
      BY DEF None
    <3> QED
      BY <3>1, <3>2 DEF ActionMeta
  <2>4. CASE cur'.actions[i] = cur.actions[i]
    BY <2>3, <2>4 DEF IsPrefix
  <2>5. CASE cur'.actions[i] = pending.put[i]
    BY <1>1, <2>5 DEF DecisionInv, VotesGrow
  <2> QED
    BY <2>2, <2>4, <2>5
<1>2. RecordInv /\ DecisionInv /\ [Next]_vars =>
        [phase = "block" /\ phase' = "idle" =>
           \A i \in ActionID \ renewed :
               cur'.actions[i] # None => IsPrefix(cur.actions[i].voters, cur'.actions[i].voters)]_vars
  BY <1>1
<1> QED
  BY <1>2, RecordInvariant, DecisionInvariant, PTL DEF Spec, VotesKept

\* A confirmed action has the support of root or of two addresses: with three routes or
\* more, two thirds of them, rounded down, are at least two votes, and no vote counts twice.
LEMMA ConfirmedIsBacked ==
  ASSUME RecordInv, NEW id \in ActionID, NEW types, Decided(id, types)
  PROVE  Backed(types, cur.actions[id].key)
<1> DEFINE a == cur.actions[id]
<1>1. a.voters \in Seq(Voter) /\ Distinct(a.voters)
  BY DEF Decided, RecordInv, ActionsSound, Sound, ActionMeta
<1>2. Cardinality(Supporters(a)) = Len(a.voters) /\ Len(a.voters) \in Nat
  BY <1>1, DistinctCounts DEF Supporters
<1>3. NumRoutes \in Nat
  BY GovernanceAssumption, FS_Subset, FS_CardinalityType DEF RecordInv, TypeOK, State, NumRoutes
<1>4. Root \in Supporters(a) \/ Len(a.voters) >= 2
  <2>1. CASE NumRoutes < 3
    BY <2>1 DEF Decided, Confirmed, Supporters
  <2>2. CASE ~(NumRoutes < 3)
    <3>1. Len(a.voters) >= (NumRoutes * 2) \div 3
      BY <2>2 DEF Decided, Confirmed
    <3>2. (NumRoutes * 2) \div 3 >= 2
      BY <1>3, <2>2
    <3>3. (NumRoutes * 2) \div 3 \in Int
      BY <1>3
    <3> QED
      BY <1>2, <3>1, <3>2, <3>3
  <2> QED
    BY <2>1, <2>2
<1>5. Root \in Supporters(a) \/ Cardinality(Supporters(a)) >= 2
  BY <1>2, <1>4
<1> QED
  BY <1>5 DEF Backed, Decided

\* What a block changes was decided before it (govern_tx.go:47, state.go:609): the votes of
\* the block itself do not count, and a restart changes nothing.
THEOREM ChangesWereDecided == Spec => DecidedBefore
<1> DEFINE Goal ==
      /\ cur'.params # cur.params =>
             \E k \in ParamKey : cur'.params[k] # cur.params[k] /\ Backed({"param"}, k)
      /\ \A t \in TypeKey : cur'.types[t] # cur.types[t] => Backed({"addType", "modType"}, t)
      /\ cur'.routes \ cur.routes # {} => \E s \in Address : Backed({"addStaker"}, s)
<1>1. ASSUME RecordInv, DecisionInv, Accept PROVE Goal
  <2>1. cur' = Merged
    BY <1>1 DEF Accept
  <2>2. ASSUME cur'.params # cur.params
        PROVE  \E k \in ParamKey : cur'.params[k] # cur.params[k] /\ Backed({"param"}, k)
    <3>1. PICK id \in ActionID :
            LET a == cur.actions[id] IN
            /\ Decided(id, {"param"}) /\ Sound(a) /\ a.val \in 5..95 /\ a.key \in ParamKey
            /\ cur'.params = Modified(cur.params, a.key, a.val)
      BY <1>1, <2>1, <2>2, MergedParams
    <3> DEFINE key == cur.actions[id].key
               val == cur.actions[id].val
    <3>2. /\ key \in ParamKey /\ val \in Nat /\ cur'.params[key] = val
          /\ cur'.params = Modified(cur.params, key, val)
      BY <3>1 DEF Modified
    <3>3. cur.params \in [ParamKey -> Nat]
      BY <1>1 DEF RecordInv, TypeOK, State
    <3>4. cur.params[key] # val
      <4> SUFFICES ASSUME cur.params[key] = val PROVE FALSE
        OBVIOUS
      <4>1. \A h \in Halves : key \in {h[1], h[2]} => cur.params[h[1]] + cur.params[h[2]] = 100
        BY <1>1, <3>1 DEF DecisionInv, NeverMoot, Decided
      <4> HIDE DEF key, val
      <4>2. Modified(cur.params, key, val) = cur.params
        BY <3>2, <3>3, <4>1, ModifiedMoot
      <4> QED
        BY <2>2, <3>2, <4>2
    <3>5. Backed({"param"}, key)
      BY <1>1, <3>1, ConfirmedIsBacked
    <3> QED
      BY <3>2, <3>4, <3>5
  <2>3. ASSUME NEW t \in TypeKey, cur'.types[t] # cur.types[t]
        PROVE  Backed({"addType", "modType"}, t)
    <3>1. pending.types[t] # 0
      BY <2>1, <2>3 DEF Merged
    <3>2. PICK id \in ActionID : Decided(id, {"addType", "modType"}) /\ cur.actions[id].key = t
      BY <1>1, <3>1 DEF DecisionInv, PendingDecided
    <3> QED
      BY <1>1, <3>2, ConfirmedIsBacked
  <2>4. ASSUME cur'.routes \ cur.routes # {}
        PROVE  \E s \in Address : Backed({"addStaker"}, s)
    <3>1. pending.join # {}
      BY <2>1, <2>4 DEF Merged
    <3>2. PICK id \in ActionID : Decided(id, {"addStaker"})
      BY <1>1, <3>1 DEF DecisionInv, PendingDecided
    <3>3. cur.actions[id].key \in Address
      BY <1>1, <3>2 DEF Decided, RecordInv, ActionsSound, Sound
    <3> QED
      BY <1>1, <3>2, <3>3, ConfirmedIsBacked
  <2> QED
    BY <2>2, <2>3, <2>4
<1>2. ASSUME RecordInv, MatchInv, DecisionInv, [Next]_vars PROVE Goal
  <2>1. CASE Accept
    BY <1>1, <1>2, <2>1
  <2>2. CASE Restart
    BY <1>2, <2>2, RestartKeepsDecisions
  <2>3. CASE UNCHANGED cur
    BY <2>3
  <2> QED
    BY <1>2, <2>1, <2>2, <2>3 DEF Next, StartBlock, Tick, Propose, Register, Vote, Govern, Stake,
                                  Unstake, Rest, vars
<1>3. RecordInv /\ MatchInv /\ DecisionInv /\ [Next]_vars => [Goal]_vars
  BY <1>2
<1> QED
  BY <1>3, RecordInvariant, MatchInvariant, DecisionInvariant, PTL DEF Spec, DecidedBefore
=============================================================================
