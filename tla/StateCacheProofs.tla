--------------------------- MODULE StateCacheProofs ---------------------------
(***************************************************************************)
(* The maps in memory agree with the accepted database, for every set of   *)
(* addresses and every length of blocks.                                   *)
(*                                                                         *)
(* That cur and the database agree is not inductive: Accept replaces both, *)
(* cur by the merged pending maps and the database by a block's layer.     *)
(* The strengthening says that the merged maps agree with the layer of the *)
(* block verified last, from its first transaction on                      *)
(* (PendingMatchesLayer), and that the undecided blocks are one line up to *)
(* that block (OneLine), so that the block accepted is the lowest of them. *)
(* A build starts with nothing pending, and must leave the maps as it      *)
(* found them (BuildsAside).                                               *)
(***************************************************************************)
EXTENDS StateCache, TLAPS

\* The heights say that the line has no branches.
OneLine ==
    /\ tip = "accepted" => Undecided = {}
    /\ tip # "accepted" => tip \in Undecided
    /\ \A b \in Undecided :
          /\ height[b] >= 1 /\ height[b] <= height[tip]
          /\ parent[b] # "conflict"
          /\ parent[b] = "accepted" <=> height[b] = 1
          /\ parent[b] \in Block => parent[b] \in Undecided /\ height[b] = height[parent[b]] + 1
    /\ \A b, c \in Undecided : height[b] = height[c] => b = c
    /\ phase = "verify" => on = tip

LineInv == cache = "clean" => OneLine

BuildsAside ==
    /\ phase = "build" /\ executed = 0 => Empty
    /\ phase = "build" /\ cache = "clean" => Live(cur) = Live(StateOf(tip).entries)
    /\ phase = "halted" => cache = "disturbed"

CacheInv ==
    /\ TypeOK
    /\ LineInv
    /\ BuildsAside
    /\ PendingMatchesLayer
    /\ UndisturbedMatchesDB

-----------------------------------------------------------------------------
LEMMA Keys ==
  /\ \A a \in Address : Action(a) \in Key /\ Staker(a) \in Key
  /\ \A a, b \in Address : Action(a) # Staker(b)
BY DEF Action, Staker, Key

LEMMA LayerPutType ==
  ASSUME layer \in Database, NEW k \in Key, NEW v \in Value
  PROVE  [layer EXCEPT !.entries = LayerPut(k, v)] \in Database
BY DEF Database, LayerPut

\* Every variable keeps its type in every reachable state.
THEOREM TypeCorrect == Spec => []TypeOK
<1>1. Init => TypeOK
  BY StateCacheAssumption DEF Init, TypeOK, Database, Value, Blank, Parent
<1>2. TypeOK /\ [Next]_vars => TypeOK'
  <2> SUFFICES ASSUME TypeOK, [Next]_vars PROVE TypeOK'
    OBVIOUS
  <2> USE StateCacheAssumption, Keys DEF TypeOK, Database, Value, Parent
  <2>1. ASSUME NEW a \in Address, NEW v \in {1, 2}, Register(a, v) PROVE TypeOK'
    <3>1. /\ pendingAdd' \in [Key -> Value] /\ pendingDel' \subseteq Key
          /\ executed' \in 0..MaxBlockTxs
      BY <2>1 DEF Register, Executing, Put
    <3>2. layer' \in Database
      <4>1. layer \in Database /\ v \in Value /\ Action(a) \in Key
        OBVIOUS
      <4>2. layer' = [layer EXCEPT !.entries = LayerPut(Action(a), v)]
        BY <2>1 DEF Register
      <4> HIDE DEF TypeOK, Database, Value
      <4> QED
        BY <4>1, <4>2, LayerPutType
    <3> QED
      BY <2>1, <3>1, <3>2 DEF Register, Rest, treeVars
  <2>2. ASSUME NEW a \in Address, Vote(a) PROVE TypeOK'
    <3>1. /\ pendingAdd' \in [Key -> Value] /\ pendingDel' \subseteq Key
          /\ executed' \in 0..MaxBlockTxs
      BY <2>2 DEF Vote, Executing, Put
    <3>2. layer' \in Database
      <4>1. layer \in Database /\ 2 \in Value /\ Action(a) \in Key
        OBVIOUS
      <4>2. layer' = [layer EXCEPT !.entries = LayerPut(Action(a), 2)]
        BY <2>2 DEF Vote
      <4> HIDE DEF TypeOK, Database, Value
      <4> QED
        BY <4>1, <4>2, LayerPutType
    <3> QED
      BY <2>2, <3>1, <3>2 DEF Vote, Rest, treeVars
  <2>3. ASSUME NEW a \in Address, NEW s \in Address, Stake(a, s) PROVE TypeOK'
    <3>1. /\ pendingAdd' \in [Key -> Value] /\ pendingDel' \subseteq Key
          /\ executed' \in 0..MaxBlockTxs
      <4>1. pendingAdd' = [pendingAdd EXCEPT ![Staker(s)] = 1, ![Action(a)] = 0]
            /\ pendingDel' = (pendingDel \ {Staker(s)}) \cup {Action(a)}
        BY <2>3 DEF Stake
      <4>2. executed' \in 0..MaxBlockTxs
        BY <2>3 DEF Stake, Executing
      <4>3. pendingAdd \in [Key -> Value] /\ pendingDel \subseteq Key
        OBVIOUS
      <4> HIDE DEF TypeOK
      <4> QED
        BY <4>1, <4>2, <4>3
    <3>2. layer' \in Database
      <4>1. layer.entries \in [Key -> Value] /\ layer.locked \in [Address -> Nat]
        OBVIOUS
      <4>2. layer' = [entries |-> [layer.entries EXCEPT ![Staker(s)] = 1, ![Action(a)] = 0],
                      locked  |-> [layer.locked EXCEPT ![a] = layer.locked[a] + 1]]
        BY <2>3 DEF Stake
      <4> HIDE DEF TypeOK
      <4> QED
        BY <4>1, <4>2
    <3> QED
      BY <2>3, <3>1, <3>2 DEF Stake, Rest, treeVars
  <2>4. ASSUME NEW a \in Address, Unstake(a) PROVE TypeOK'
    <3>1. /\ pendingAdd' \in [Key -> Value] /\ pendingDel' \subseteq Key
          /\ executed' \in 0..MaxBlockTxs
      BY <2>4 DEF Unstake, Executing, Del
    <3>2. layer.entries \in [Key -> Value] /\ layer.locked \in [Address -> Nat]
      OBVIOUS
    <3>3. /\ layer' = [entries |-> LayerPut(Staker(a), 0),
                       locked  |-> [layer.locked EXCEPT ![a] = layer.locked[a] - 1]]
          /\ layer.locked[a] > 0
      BY <2>4 DEF Unstake
    <3>4. /\ LayerPut(Staker(a), 0) \in [Key -> Value]
          /\ [layer.locked EXCEPT ![a] = layer.locked[a] - 1] \in [Address -> Nat]
      BY <3>2, <3>3 DEF LayerPut
    <3>5. layer' \in Database
      BY <3>3, <3>4
    <3> QED
      BY <2>4, <3>1, <3>5 DEF Unstake, Rest, treeVars
  <2>5. ASSUME NEW a \in Address, Overdue(a) PROVE TypeOK'
    <3>1. \A f \in [Key -> Value] : Aged(f, a) \in [Key -> Value]
      BY DEF Aged
    <3>2. disk' \in Database /\ view' \in [Block -> Database]
      BY <2>5, <3>1 DEF Overdue
    <3> QED
      BY <2>5, <3>1, <3>2 DEF Overdue
  <2>6. Blank \in Database /\ \A p \in Parent : StateOf(p) \in Database
    BY DEF Blank, StateOf
  <2>7. ASSUME NEW q \in Parent, StartVerify(q) \/ StartBuild(q) PROVE TypeOK'
    BY <2>6, <2>7 DEF StartVerify, StartBuild, AbortAll, Abort, NothingPending, cacheVars, treeVars
  <2>8. ASSUME NEW b \in Block, VerifySucceeds(b) PROVE TypeOK'
    <3>1. parent' \in [Block -> Parent \cup {"conflict", "none"}] /\ height' \in [Block -> Nat]
      BY <2>8 DEF VerifySucceeds
    <3> QED
      BY <2>6, <2>8, <3>1 DEF VerifySucceeds, cacheVars
  <2>9. ASSUME NEW b \in Block, Accept(b) PROVE TypeOK'
    <3>1. Merged \in [Key -> Value]
      BY DEF Merged
    <3>2. parent' \in [Block -> Parent \cup {"conflict", "none"}] /\ height' \in [Block -> Nat]
      BY <2>9 DEF Accept
    <3> QED
      BY <2>6, <2>9, <3>1, <3>2 DEF Accept, Forget, Commit, NothingPending
  <2>10. ASSUME NEW b \in Block, Reject(b) PROVE TypeOK'
    <3>1. parent' \in [Block -> Parent \cup {"conflict", "none"}] /\ height' \in [Block -> Nat]
      BY <2>10 DEF Reject
    <3> QED
      BY <2>6, <2>10, <3>1 DEF Reject, Forget, cacheVars
  <2>11. CASE VerifyFails \/ Submit \/ BuildSucceeds \/ BuildFails
    BY <2>6, <2>11 DEF VerifyFails, Submit, BuildSucceeds, BuildFails, AbortAll, Abort,
         NothingPending, cacheVars, treeVars, dbVars
  <2>12. CASE Restart
    BY <2>6, <2>12 DEF Restart, Live, NothingPending
  <2>13. CASE UNCHANGED vars
    BY <2>13 DEF vars, cacheVars, treeVars, dbVars
  <2> HIDE DEF TypeOK, Database, Value, Parent
  <2>14. ASSUME NEW a \in Address, Execute(a) PROVE TypeOK'
    BY <2>1, <2>2, <2>3, <2>4, <2>14 DEF Execute
  <2> QED
    BY <2>5, <2>7, <2>8, <2>9, <2>10, <2>11, <2>12, <2>13, <2>14 DEF Next
<1> QED
  BY <1>1, <1>2, PTL DEF Spec

-----------------------------------------------------------------------------
(* Agreement key by key.                                                   *)

Same(x, y) == x = y \/ (x \in {0, 3} /\ y \in {0, 3})

Agree(f, g) == \A k \in Key : Same(f[k], g[k])

LEMMA LiveIsAgreement ==
  ASSUME NEW f \in [Key -> Value], NEW g \in [Key -> Value]
  PROVE  Live(f) = Live(g) <=> Agree(f, g)
<1>1. ASSUME Live(f) = Live(g), NEW k \in Key PROVE Same(f[k], g[k])
  <2>1. Live(f)[k] = Live(g)[k]
    BY <1>1
  <2> QED
    BY <2>1 DEF Live, Same
<1>2. ASSUME Agree(f, g) PROVE Live(f) = Live(g)
  <2>1. \A k \in Key : Live(f)[k] = Live(g)[k]
    BY <1>2 DEF Live, Agree, Same
  <2> QED
    BY <2>1 DEF Live
<1> QED
  BY <1>1, <1>2 DEF Agree

LEMMA MergedType == ASSUME TypeOK PROVE Merged \in [Key -> Value]
BY DEF TypeOK, Merged, Value

\* The invariant in terms of agreement.
AgreeInv ==
    /\ LineInv
    /\ phase = "build" /\ executed = 0 => Empty
    /\ phase = "halted" => cache = "disturbed"
    /\ phase = "verify" /\ cache = "clean" => Agree(Merged, layer.entries)
    /\ phase = "idle" /\ cache = "clean" => Agree(Merged, StateOf(tip).entries)
    /\ phase = "build" /\ cache = "clean" => Agree(cur, StateOf(tip).entries)
    /\ cache = "clean" =>
          \E p \in {"accepted"} \cup Undecided : Agree(cur, StateOf(p).entries)

LEMMA StateOfType == ASSUME TypeOK, NEW p \in Parent PROVE StateOf(p).entries \in [Key -> Value]
BY DEF TypeOK, Database, StateOf, Parent

LEMMA AgreeInvIsCacheInv ==
  ASSUME TypeOK
  PROVE  AgreeInv <=> LineInv /\ BuildsAside /\ PendingMatchesLayer /\ UndisturbedMatchesDB
<1>1. cur \in [Key -> Value] /\ layer.entries \in [Key -> Value] /\ tip \in Parent
  BY DEF TypeOK, Database
<1>2. {"accepted"} \cup Undecided \subseteq Parent
  BY DEF Undecided, Parent
<1>3. Live(Merged) = Live(layer.entries) <=> Agree(Merged, layer.entries)
  BY <1>1, MergedType, LiveIsAgreement
<1>4. \A p \in Parent : /\ Live(Merged) = Live(StateOf(p).entries) <=> Agree(Merged, StateOf(p).entries)
                        /\ Live(cur) = Live(StateOf(p).entries) <=> Agree(cur, StateOf(p).entries)
  BY <1>1, MergedType, StateOfType, LiveIsAgreement
<1> QED
  BY <1>1, <1>2, <1>3, <1>4 DEF AgreeInv, BuildsAside, PendingMatchesLayer, UndisturbedMatchesDB

-----------------------------------------------------------------------------
(* The line of undecided blocks.                                           *)

LEMMA LineKept ==
  ASSUME LineInv, UNCHANGED <<parent, height, tip>>, cache' = "clean" => cache = "clean",
         phase' = "verify" => UNCHANGED <<phase, on>> \/ on' = tip
  PROVE  LineInv'
BY DEF LineInv, OneLine, Undecided

LEMMA LineGrows ==
  ASSUME TypeOK, LineInv, NEW b \in Block, VerifySucceeds(b)
  PROVE  LineInv'
<1> SUFFICES ASSUME cache = "clean" PROVE OneLine'
  BY DEF LineInv, VerifySucceeds
<1> USE StateCacheAssumption DEF Parent
<1>1. OneLine /\ on = tip /\ parent[b] = "none" /\ b \notin Undecided
  BY DEF LineInv, OneLine, VerifySucceeds, Undecided
<1>2. /\ parent' = [parent EXCEPT ![b] = tip] /\ tip' = b /\ phase' = "idle"
      /\ height' = [height EXCEPT ![b] = IF tip = "accepted" THEN 1 ELSE height[tip] + 1]
  BY <1>1 DEF VerifySucceeds
<1>3. Undecided' = Undecided \cup {b} /\ tip # "none" /\ tip # "conflict" /\ b # "accepted"
  BY <1>1, <1>2 DEF Undecided, TypeOK
<1>4. \A c \in Undecided : c # b /\ parent'[c] = parent[c] /\ height'[c] = height[c] /\ c \in Block
  BY <1>1, <1>2 DEF Undecided, TypeOK
<1>5. parent'[b] = tip /\ height'[b] = IF tip = "accepted" THEN 1 ELSE height[tip] + 1
  BY <1>2 DEF TypeOK
<1>6. \A c \in Undecided : height[c] \in Nat /\ tip # "accepted" /\ tip \in Block /\ height[tip] \in Nat
  BY <1>1, <1>4 DEF TypeOK, OneLine
<1>7. ASSUME NEW c \in Undecided'
      PROVE /\ height'[c] >= 1 /\ height'[c] <= height'[b]
            /\ parent'[c] # "conflict"
            /\ parent'[c] = "accepted" <=> height'[c] = 1
            /\ parent'[c] \in Block => parent'[c] \in Undecided' /\ height'[c] = height'[parent'[c]] + 1
  <2>1. CASE c = b
    <3>1. CASE tip = "accepted"
      BY <1>3, <1>5, <2>1, <3>1
    <3>2. CASE tip # "accepted"
      <4>1. tip \in Undecided /\ height[tip] >= 1 /\ height[tip] \in Nat
        BY <1>1, <1>6, <3>2 DEF OneLine
      <4>2. height'[tip] = height[tip]
        BY <1>4, <4>1
      <4> QED
        BY <1>3, <1>5, <2>1, <3>2, <4>1, <4>2
    <3> QED
      BY <3>1, <3>2
  <2>2. CASE c # b
    <3>1. c \in Undecided
      BY <1>3, <2>2
    <3>2. height[c] >= 1 /\ height[c] <= height[tip] /\ parent[c] # "conflict"
      BY <1>1, <3>1 DEF OneLine
    <3>3. parent[c] \in Block => parent[c] \in Undecided /\ height[c] = height[parent[c]] + 1
      BY <1>1, <3>1 DEF OneLine
    <3>4. parent[c] = "accepted" <=> height[c] = 1
      BY <1>1, <3>1 DEF OneLine
    <3> QED
      BY <1>3, <1>4, <1>5, <1>6, <3>1, <3>2, <3>3, <3>4
  <2> QED
    BY <2>1, <2>2
<1>8. ASSUME NEW c \in Undecided', NEW d \in Undecided', height'[c] = height'[d] PROVE c = d
  <2>1. CASE c \in Undecided /\ d \in Undecided
    BY <1>1, <1>4, <1>8, <2>1 DEF OneLine
  <2>2. \A e \in Undecided : height'[e] < height'[b]
    <3> SUFFICES ASSUME NEW e \in Undecided PROVE height'[e] < height'[b]
      OBVIOUS
    <3>1. height[e] <= height[tip]
      BY <1>1 DEF OneLine
    <3> QED
      BY <1>4, <1>5, <1>6, <3>1
  <2>3. \A e \in Undecided : height'[e] # height'[b]
    BY <1>4, <1>5, <1>6, <2>2
  <2> QED
    BY <1>3, <1>8, <2>1, <2>3
<1> QED
  BY <1>2, <1>3, <1>7, <1>8 DEF OneLine

\* The block that is accepted is the lowest of the line: nothing conflicts with it.
LEMMA LineShrinks ==
  ASSUME TypeOK, LineInv, NEW b \in Block, Accept(b)
  PROVE  /\ LineInv'
         /\ cache = "clean" => tip # "accepted"
         /\ cache = "clean" /\ tip # b => tip \in Undecided'
<1> SUFFICES ASSUME cache = "clean"
             PROVE  OneLine' /\ tip # "accepted" /\ (tip # b => tip \in Undecided')
  BY DEF LineInv, Accept
<1> USE StateCacheAssumption DEF Parent
<1>1. OneLine /\ parent[b] = "accepted" /\ b \in Undecided /\ b # "accepted"
  BY DEF LineInv, Accept, Undecided
<1>2. tip \in Undecided /\ tip \in Block /\ tip # "accepted"
  BY <1>1 DEF OneLine, Undecided
<1>3. /\ \A c \in Block : parent'[c] = IF c = b THEN "none"
                                       ELSE IF parent[c] = b THEN "accepted"
                                       ELSE IF parent[c] = "accepted" THEN "conflict" ELSE parent[c]
      /\ \A c \in Block : height'[c] = IF height[c] > 0 THEN height[c] - 1 ELSE 0
      /\ tip' = (IF tip = b THEN "accepted" ELSE tip) /\ phase' = "idle"
  BY DEF Accept, Forget
<1>4. Undecided' = Undecided \ {b}
  BY <1>1, <1>3 DEF Undecided
<1>5. height[b] = 1
  BY <1>1 DEF OneLine
<1>6. \A c \in Undecided : height[c] \in Nat /\ height[c] >= 1 /\ c \in Block
  BY <1>1 DEF OneLine, TypeOK, Undecided
<1>7. ASSUME NEW c \in Undecided' PROVE c \in Undecided /\ c # b /\ height[c] >= 2 /\ height'[c] = height[c] - 1
  <2>1. c \in Undecided /\ c # b
    BY <1>4
  <2>2. height[c] # 1
    BY <1>1, <1>5, <2>1 DEF OneLine
  <2> QED
    BY <1>3, <1>6, <2>1, <2>2
<1>8. ASSUME tip = b PROVE Undecided' = {}
  <2> SUFFICES ASSUME NEW c \in Undecided' PROVE FALSE
    OBVIOUS
  <2>1. height[c] <= height[tip]
    BY <1>1, <1>7 DEF OneLine
  <2> QED
    BY <1>5, <1>6, <1>7, <1>8, <2>1
<1>9. ASSUME tip # b PROVE tip \in Undecided' /\ height'[tip] = height[tip] - 1 /\ tip' = tip
  BY <1>2, <1>3, <1>4, <1>7, <1>9
<1>10. ASSUME NEW c \in Undecided'
       PROVE  /\ height'[c] >= 1 /\ height'[c] <= height'[tip']
              /\ parent'[c] # "conflict"
              /\ parent'[c] = "accepted" <=> height'[c] = 1
              /\ parent'[c] \in Block => parent'[c] \in Undecided' /\ height'[c] = height'[parent'[c]] + 1
  <2>1. c \in Undecided /\ c # b /\ height[c] >= 2 /\ height'[c] = height[c] - 1 /\ height[c] \in Nat /\ c \in Block
    BY <1>6, <1>7
  <2>2. tip # b
    BY <1>8
  <2>3. height[c] <= height[tip] /\ height[tip] \in Nat
    BY <1>1, <1>2, <1>6, <2>1 DEF OneLine
  <2>4. parent[c] # "accepted" /\ parent[c] # "conflict" /\ parent[c] # "none"
    BY <1>1, <2>1 DEF OneLine, Undecided
  <2>5. parent[c] \in Undecided /\ height[c] = height[parent[c]] + 1 /\ parent[c] \in Block
    BY <1>1, <2>1, <2>4 DEF OneLine, TypeOK
  <2>6. CASE parent[c] = b
    <3>1. parent'[c] = "accepted" /\ height'[c] = 1
      BY <1>3, <1>5, <2>1, <2>5, <2>6
    <3> QED
      BY <1>9, <2>1, <2>2, <2>3, <3>1
  <2>7. CASE parent[c] # b
    <3>1. parent'[c] = parent[c] /\ parent[c] \in Undecided'
      BY <1>3, <1>4, <2>1, <2>4, <2>5, <2>7
    <3>2. height'[parent[c]] = height[parent[c]] - 1 /\ height[parent[c]] >= 2 /\ height[parent[c]] \in Nat
      BY <1>6, <1>7, <2>5, <3>1
    <3> QED
      BY <1>9, <2>1, <2>2, <2>3, <2>4, <2>5, <3>1, <3>2
  <2> QED
    BY <2>6, <2>7
<1>11. ASSUME NEW c \in Undecided', NEW d \in Undecided', height'[c] = height'[d] PROVE c = d
  <2>1. height[c] = height[d] /\ c \in Undecided /\ d \in Undecided
    BY <1>6, <1>7, <1>11
  <2> QED
    BY <1>1, <2>1 DEF OneLine
<1> QED
  BY <1>2, <1>3, <1>8, <1>9, <1>10, <1>11 DEF OneLine

-----------------------------------------------------------------------------
\* A transaction writes the same keys to the pending maps and to the layer.
LEMMA ExecuteKeepsAgreement ==
  ASSUME TypeOK, TypeOK', AgreeInv, NEW a \in Address, Execute(a)
  PROVE  AgreeInv'
<1> USE Keys DEF TypeOK, Database
<1>1. /\ UNCHANGED <<cur, treeVars, disk, on, phase, cache>>
      /\ phase \in {"verify", "build"} /\ executed' = executed + 1 /\ executed \in Nat
  BY DEF Execute, Register, Vote, Stake, Unstake, Rest, Executing
<1>2. LineInv'
  BY <1>1, LineKept DEF AgreeInv, treeVars
<1>3. /\ Undecided' = Undecided /\ \A p : StateOf(p)' = StateOf(p)
      /\ StateOf(tip)' = StateOf(tip)
  BY <1>1 DEF Undecided, StateOf, treeVars
<1>4. ASSUME phase = "verify", cache = "clean", NEW k \in Key
      PROVE  Same(Merged'[k], layer'.entries[k])
  <2>1. Same(Merged[k], layer.entries[k])
    BY <1>4 DEF AgreeInv, Agree
  <2>2. ASSUME NEW v \in {1, 2}, Register(a, v)
        PROVE  Same(Merged'[k], layer'.entries[k])
    <3>1. /\ pendingAdd' = [pendingAdd EXCEPT ![Action(a)] = v]
          /\ pendingDel' = pendingDel \ {Action(a)}
          /\ layer'.entries = [layer.entries EXCEPT ![Action(a)] = v]
      BY <2>2 DEF Register, Put, LayerPut
    <3> QED
      BY <1>1, <2>1, <3>1 DEF Merged, Same
  <2>3. CASE Vote(a)
    <3>1. /\ pendingAdd' = [pendingAdd EXCEPT ![Action(a)] = 2]
          /\ pendingDel' = pendingDel \ {Action(a)}
          /\ layer'.entries = [layer.entries EXCEPT ![Action(a)] = 2]
      BY <2>3 DEF Vote, Put, LayerPut
    <3> QED
      BY <1>1, <2>1, <3>1 DEF Merged, Same
  <2>4. ASSUME NEW s \in Address, Stake(a, s)
        PROVE  Same(Merged'[k], layer'.entries[k])
    <3>1. /\ pendingAdd' = [pendingAdd EXCEPT ![Staker(s)] = 1, ![Action(a)] = 0]
          /\ pendingDel' = (pendingDel \ {Staker(s)}) \cup {Action(a)}
          /\ layer'.entries = [layer.entries EXCEPT ![Staker(s)] = 1, ![Action(a)] = 0]
      BY <2>4 DEF Stake
    <3> QED
      BY <1>1, <2>1, <3>1 DEF Merged, Same
  <2>5. CASE Unstake(a)
    <3>1. /\ pendingAdd' = [pendingAdd EXCEPT ![Staker(a)] = 0]
          /\ pendingDel' = pendingDel \cup {Staker(a)}
          /\ layer'.entries = [layer.entries EXCEPT ![Staker(a)] = 0]
      BY <2>5 DEF Unstake, Del, LayerPut
    <3> QED
      BY <1>1, <2>1, <3>1 DEF Merged, Same
  <2> QED
    BY <2>2, <2>3, <2>4, <2>5 DEF Execute
<1>5. phase = "verify" /\ cache = "clean" => Agree(Merged', layer'.entries)
  BY <1>4 DEF Agree
<1>6. ~(phase' = "build" /\ executed' = 0) /\ phase' # "idle"
  BY <1>1
<1> HIDE DEF TypeOK, Database
<1> QED
  BY <1>1, <1>2, <1>3, <1>5, <1>6 DEF AgreeInv

\* With nothing pending, what Commit would make is what there is.
LEMMA NothingToMerge ==
  ASSUME TypeOK, Empty
  PROVE  Merged = cur
BY DEF TypeOK, Merged, Empty

\* Verification and decisions.
LEMMA BlocksKeepAgreement ==
  ASSUME TypeOK, TypeOK', AgreeInv
  PROVE  /\ \A p \in Parent : StartVerify(p) => AgreeInv'
         /\ \A b \in Block : VerifySucceeds(b) \/ Accept(b) \/ Reject(b) => AgreeInv'
<1> USE StateCacheAssumption
<1>1. ASSUME NEW p \in Parent, StartVerify(p) PROVE AgreeInv'
  <2>1. /\ UNCHANGED <<cacheVars, treeVars, disk>> /\ layer' = StateOf(p) /\ on' = p
        /\ phase = "idle" /\ phase' = "verify" /\ (cache' = "clean" => cache = "clean" /\ p = tip)
    BY <1>1 DEF StartVerify, Ready, TypeOK
  <2>2. Merged' = Merged /\ cur' = cur /\ Undecided' = Undecided /\ \A q : StateOf(q)' = StateOf(q)
    BY <2>1 DEF Merged, cacheVars, treeVars, Undecided, StateOf
  <2>3. cache' = "clean" => Agree(Merged, layer'.entries)
    BY <2>1 DEF AgreeInv
  <2>4. cache' = "clean" => Agree(Merged', layer'.entries)
    BY <2>2, <2>3
  <2>5. LineInv'
    BY <2>1 DEF AgreeInv, LineInv, OneLine, treeVars, Undecided
  <2> QED
    BY <2>1, <2>2, <2>4, <2>5 DEF AgreeInv
<1>2. ASSUME NEW b \in Block, VerifySucceeds(b) PROVE AgreeInv'
  <2>1. /\ UNCHANGED <<cacheVars, disk, cache>> /\ view' = [view EXCEPT ![b] = layer] /\ tip' = b
        /\ phase = "verify" /\ phase' = "idle" /\ b \notin Undecided
        /\ parent' = [parent EXCEPT ![b] = on]
    BY <1>2 DEF VerifySucceeds, Undecided
  <2>2. Merged' = Merged /\ cur' = cur
    BY <2>1 DEF Merged, cacheVars
  <2>3. StateOf(tip)' = layer
    BY <2>1 DEF StateOf, TypeOK
  <2>4. cache = "clean" => Agree(Merged', StateOf(tip)'.entries)
    BY <2>1, <2>2, <2>3 DEF AgreeInv
  <2>5. \A q \in {"accepted"} \cup Undecided : q \in {"accepted"} \cup Undecided' /\ StateOf(q)' = StateOf(q)
    BY <2>1 DEF StateOf, Undecided, TypeOK
  <2>6. LineInv'
    BY <1>2, LineGrows DEF AgreeInv
  <2>7. cache = "clean" => \E q \in {"accepted"} \cup Undecided' : Agree(cur', StateOf(q)'.entries)
    BY <2>2, <2>5 DEF AgreeInv
  <2> QED
    BY <2>1, <2>4, <2>6, <2>7 DEF AgreeInv
<1>3. ASSUME NEW b \in Block, Accept(b) PROVE AgreeInv'
  <2>1. /\ UNCHANGED <<phase, cache>> /\ disk' = view[b] /\ cur' = Merged /\ phase = "idle"
        /\ Empty' /\ tip' = (IF tip = b THEN "accepted" ELSE tip)
        /\ view' = [view EXCEPT ![b] = Blank]
    BY <1>3 DEF Accept, Forget, Commit, NothingPending, Empty
  <2>2. Merged' = cur'
    BY <2>1, NothingToMerge DEF TypeOK, Merged, Empty
  <2>3. /\ LineInv' /\ (cache = "clean" => tip # "accepted")
        /\ (cache = "clean" /\ tip # b => tip \in Undecided')
    BY <1>3, LineShrinks DEF AgreeInv
  <2>4. cache = "clean" => StateOf(tip)' = StateOf(tip) /\ tip' \in {"accepted"} \cup Undecided'
    BY <2>1, <2>3 DEF StateOf, TypeOK, Parent
  <2>5. cache = "clean" => Agree(Merged, StateOf(tip).entries)
    BY <2>1 DEF AgreeInv
  <2>6. cache = "clean" => Agree(cur', StateOf(tip)'.entries)
    BY <2>1, <2>4, <2>5
  <2>7. cache = "clean" => \E q \in {"accepted"} \cup Undecided' : Agree(cur', StateOf(q)'.entries)
    BY <2>4, <2>6 DEF StateOf
  <2> QED
    BY <2>1, <2>2, <2>3, <2>6, <2>7 DEF AgreeInv
<1>4. ASSUME NEW b \in Block, Reject(b) PROVE AgreeInv'
  BY <1>4 DEF Reject, Forget, AgreeInv, LineInv
<1> QED
  BY <1>1, <1>2, <1>3, <1>4

\* Submissions, builds, restarts and the passing of an action's EndTime.
LEMMA OthersKeepAgreement ==
  ASSUME TypeOK, TypeOK', AgreeInv
  PROVE  /\ VerifyFails \/ Submit \/ BuildSucceeds \/ BuildFails \/ Restart => AgreeInv'
         /\ \A p \in Parent : StartBuild(p) => AgreeInv'
         /\ \A a \in Address : Overdue(a) => AgreeInv'
<1>1. CASE VerifyFails
  BY <1>1 DEF VerifyFails, AgreeInv, LineInv
<1>2. ASSUME Empty, Empty', UNCHANGED <<cur, treeVars, disk, cache>>,
             phase = "idle" \/ phase = "build", phase' = "idle" \/ phase' = "build"
      PROVE  AgreeInv'
  <2>1. Undecided' = Undecided /\ \A q : StateOf(q)' = StateOf(q)
    BY <1>2 DEF treeVars, Undecided, StateOf
  <2>2. Merged = cur /\ Merged' = cur
    BY <1>2, NothingToMerge DEF Merged, Empty, TypeOK
  <2>3. LineInv'
    BY <1>2, LineKept DEF AgreeInv, treeVars
  <2>4. cache = "clean" => Agree(cur, StateOf(tip).entries)
    BY <1>2, <2>2 DEF AgreeInv
  <2> QED
    BY <1>2, <2>1, <2>2, <2>3, <2>4 DEF AgreeInv, treeVars
<1>3. ASSUME cache' # "clean", phase' = "idle" \/ (phase' = "build" /\ Empty') PROVE AgreeInv'
  BY <1>3 DEF AgreeInv, LineInv
<1>4. CASE Submit
  <2>1. /\ UNCHANGED <<cur, treeVars, disk, phase>> /\ phase = "idle" /\ Empty'
        /\ cache' = IF Empty THEN cache ELSE "disturbed"
    BY <1>4 DEF Submit, Ready, AbortAll, Abort, NothingPending, Empty, dbVars
  <2> QED
    BY <1>2, <1>3, <2>1
<1>5. CASE BuildSucceeds
  <2>1. /\ UNCHANGED <<cur, treeVars, disk, cache>> /\ phase = "build" /\ phase' = "idle" /\ Empty'
    BY <1>5 DEF BuildSucceeds, Abort, NothingPending, Empty
  <2>2. Undecided' = Undecided /\ \A q : StateOf(q)' = StateOf(q)
    BY <2>1 DEF treeVars, Undecided, StateOf
  <2>3. Merged' = cur'
    BY <2>1 DEF TypeOK, Merged, Empty
  <2>4. LineInv'
    BY <2>1, LineKept DEF AgreeInv, treeVars
  <2> QED
    BY <2>1, <2>2, <2>3, <2>4 DEF AgreeInv, treeVars
<1>6. CASE BuildFails
  <2>1. /\ UNCHANGED <<cur, pendingAdd, pendingDel, treeVars, disk>> /\ phase = "build" /\ phase' = "idle"
        /\ cache' = IF executed > 0 THEN "disturbed" ELSE cache
    BY <1>6 DEF BuildFails, cacheVars
  <2>2. CASE executed > 0
    <3>1. cache' # "clean" /\ phase' = "idle"
      BY <2>1, <2>2
    <3> QED
      BY <1>3, <3>1
  <2>3. CASE executed = 0
    <3>1. Empty /\ Empty'
      BY <2>1, <2>3 DEF AgreeInv, Empty
    <3> QED
      BY <1>2, <2>1, <2>3, <3>1
  <2> QED
    BY <2>2, <2>3 DEF TypeOK
<1>7. ASSUME NEW p \in Parent, StartBuild(p) PROVE AgreeInv'
  <2>1. /\ UNCHANGED <<cur, treeVars, disk>> /\ phase = "idle" /\ phase' = "build" /\ Empty'
        /\ cache' = IF Empty THEN cache ELSE "disturbed"
    BY <1>7 DEF StartBuild, Ready, AbortAll, Abort, NothingPending, Empty
  <2> QED
    BY <1>2, <1>3, <2>1
<1>8. CASE Restart
  <2>1. /\ cur' = Live(disk.entries) /\ disk' = disk /\ tip' = "accepted" /\ phase' = "idle" /\ Empty'
        /\ parent' = [b \in Block |-> "none"]
    BY <1>8 DEF Restart, NothingPending, Empty
  <2>2. Agree(cur', disk'.entries) /\ StateOf("accepted")' = disk'
    BY <2>1 DEF Agree, Same, Live, StateOf
  <2>3. Merged' = cur'
    BY <2>1 DEF TypeOK, Merged, Empty
  <2>4. Undecided' = {} /\ StateOf(tip)' = disk'
    BY <2>1 DEF Undecided, StateOf
  <2>5. LineInv'
    BY <2>1, <2>4 DEF LineInv, OneLine
  <2> QED
    BY <2>1, <2>2, <2>3, <2>4, <2>5 DEF AgreeInv
<1>9. ASSUME NEW a \in Address, Overdue(a) PROVE AgreeInv'
  <2> USE Keys
  <2>1. /\ UNCHANGED <<pendingDel, parent, height, tip, layer, phase, executed, cache>>
        /\ phase = "idle" /\ cur' = Aged(cur, a) /\ pendingAdd' = Aged(pendingAdd, a)
    BY <1>9 DEF Overdue
  <2>2. \A q \in Parent : StateOf(q)'.entries = Aged(StateOf(q).entries, a)
    BY <1>9 DEF Overdue, StateOf, Parent, TypeOK, Database
  <2>3. \A f, g \in [Key -> Value] : Agree(f, g) => Agree(Aged(f, a), Aged(g, a))
    BY DEF Agree, Aged, Same, Value
  <2>4. Merged' = Aged(Merged, a)
    <3>1. \A k \in Key : Merged'[k] = Aged(Merged, a)[k]
      BY <2>1 DEF Merged, Aged, TypeOK, Value
    <3> QED
      BY <3>1 DEF Merged, Aged
  <2>5. Undecided' = Undecided /\ Undecided \subseteq Parent /\ tip \in Parent /\ "accepted" \in Parent
    BY <2>1 DEF Undecided, Parent, TypeOK
  <2>6. LineInv'
    BY <2>1, LineKept DEF AgreeInv
  <2>7. cur \in [Key -> Value] /\ Merged \in [Key -> Value]
        /\ \A q \in Parent : StateOf(q).entries \in [Key -> Value]
    BY MergedType, StateOfType DEF TypeOK
  <2>8. cache = "clean" => Agree(Merged', StateOf(tip)'.entries)
    <3>1. cache = "clean" => Agree(Merged, StateOf(tip).entries)
      BY <2>1 DEF AgreeInv
    <3>2. StateOf(tip)'.entries = Aged(StateOf(tip).entries, a)
      BY <1>9 DEF Overdue, StateOf, Parent, TypeOK, Database
    <3> QED
      BY <2>3, <2>4, <2>5, <2>7, <3>1, <3>2
  <2>9. cache = "clean" => \E q \in {"accepted"} \cup Undecided' : Agree(cur', StateOf(q)'.entries)
    <3> SUFFICES ASSUME cache = "clean"
                 PROVE  \E q \in {"accepted"} \cup Undecided' : Agree(cur', StateOf(q)'.entries)
      OBVIOUS
    <3>1. PICK q \in {"accepted"} \cup Undecided : Agree(cur, StateOf(q).entries)
      BY DEF AgreeInv
    <3>2. Agree(cur', StateOf(q)'.entries)
      BY <2>1, <2>2, <2>3, <2>5, <2>7, <3>1
    <3> QED
      BY <2>5, <3>2
  <2> QED
    BY <2>1, <2>6, <2>8, <2>9 DEF AgreeInv
<1> QED
  BY <1>1, <1>4, <1>5, <1>6, <1>7, <1>8, <1>9

LEMMA CacheInvariant == Spec => []CacheInv
<1>1. Init => AgreeInv
  <2> SUFFICES ASSUME Init PROVE AgreeInv
    OBVIOUS
  <2>1. Undecided = {} /\ StateOf("accepted") = disk /\ tip = "accepted" /\ phase = "idle"
    BY DEF Init, Undecided, StateOf
  <2>2. Agree(cur, disk.entries) /\ Agree(Merged, disk.entries)
    BY DEF Init, Agree, Same, Merged, Blank
  <2> QED
    BY <2>1, <2>2 DEF AgreeInv, LineInv, OneLine
<1>2. AgreeInv /\ TypeOK /\ TypeOK' /\ [Next]_vars => AgreeInv'
  <2> SUFFICES ASSUME AgreeInv, TypeOK, TypeOK', [Next]_vars PROVE AgreeInv'
    OBVIOUS
  <2>1. CASE UNCHANGED vars
    <3>1. Merged' = Merged /\ Undecided' = Undecided /\ LineInv' = LineInv /\ Empty' = Empty
          /\ \A q : StateOf(q)' = StateOf(q)
      BY <2>1 DEF vars, cacheVars, treeVars, dbVars, Merged, Undecided, LineInv, OneLine, Empty, StateOf
    <3> QED
      BY <2>1, <3>1 DEF vars, cacheVars, treeVars, dbVars, AgreeInv
  <2> QED
    BY <2>1, ExecuteKeepsAgreement, BlocksKeepAgreement, OthersKeepAgreement DEF Next
<1>3. TypeOK /\ AgreeInv => CacheInv
  BY AgreeInvIsCacheInv DEF CacheInv
<1> QED
  BY <1>1, <1>2, <1>3, TypeCorrect, PTL DEF Spec

\* Commit (state.go:157) and the block's own commit (block.go:248) leave the maps with
\* the registry of the accepted database or of an undecided block above it, as long as
\* nothing disturbed the pending maps, however many blocks are undecided.
THEOREM UndisturbedCacheIsRight == Spec => []UndisturbedMatchesDB
<1>1. CacheInv => UndisturbedMatchesDB
  BY DEF CacheInv
<1> QED
  BY <1>1, CacheInvariant, PTL

\* What Commit (state.go:157) will make of the maps is what the line of undecided blocks
\* and the block under verification have written to their databases, whatever puts and
\* deletes of one key their transactions made.
THEOREM PendingIsWhatTheBlockWrote == Spec => []PendingMatchesLayer
<1>1. CacheInv => PendingMatchesLayer
  BY DEF CacheInv
<1> QED
  BY <1>1, CacheInvariant, PTL

\* A node that only replays accepted blocks, with any restarts, has the right
\* maps in every state.
THEOREM BootstrappingCacheIsRight ==
  ASSUME Calls = {}
  PROVE  Spec => []CacheMatchesDB
<1> DEFINE ReplayInv == /\ CacheMatchesDB
                        /\ phase # "build"
                        /\ cache = "disturbed" => phase = "halted"
                        /\ \A b \in Undecided : b = tip /\ phase \in {"idle", "halted"}
<1>1. Init => ReplayInv
  BY DEF Init, CacheMatchesDB, Blank, Undecided
<1>2. ReplayInv /\ CacheInv /\ CacheInv' /\ [Next]_vars => ReplayInv'
  <2> SUFFICES ASSUME ReplayInv, CacheInv, CacheInv', [Next]_vars
               PROVE  ReplayInv'
    OBVIOUS
  <2>0. TypeOK
    BY DEF CacheInv
  <2>1. ASSUME UNCHANGED <<cur, disk, parent, tip, phase, cache>> PROVE ReplayInv'
    BY <2>1 DEF CacheMatchesDB, Undecided, Live
  <2>2. CASE UNCHANGED vars
    BY <2>1, <2>2 DEF vars, cacheVars, treeVars, dbVars
  <2>3. ASSUME NEW a \in Address, Execute(a) PROVE ReplayInv'
    BY <2>1, <2>3 DEF Execute, Register, Vote, Stake, Unstake, Rest, treeVars
  <2>4. ASSUME NEW a \in Address, Overdue(a) PROVE ReplayInv'
    <3>1. cur' = Aged(cur, a) /\ disk'.entries = Aged(disk.entries, a)
          /\ UNCHANGED <<parent, tip, phase, cache>>
      BY <2>0, <2>4 DEF Overdue, TypeOK, Database
    <3>2. cur \in [Key -> Value] /\ disk.entries \in [Key -> Value] /\ Live(cur) = Live(disk.entries)
      BY <2>0 DEF TypeOK, Database, CacheMatchesDB
    <3>3. \A k \in Key : Live(Aged(cur, a))[k] = Live(Aged(disk.entries, a))[k]
      BY <3>2, LiveIsAgreement, Keys DEF Agree, Same, Live, Aged, Value
    <3>4. CacheMatchesDB'
      BY <3>1, <3>3 DEF CacheMatchesDB, Live
    <3> QED
      BY <3>1, <3>4 DEF Undecided
  <2>5. ASSUME NEW p \in Parent, StartVerify(p) PROVE ReplayInv'
    <3>1. /\ UNCHANGED <<cur, disk, parent, tip>> /\ phase = "idle" /\ phase' = "verify" /\ Undecided = {}
          /\ (p = "accepted" \/ p \in Undecided) /\ (p = tip => cache' = cache)
      BY <2>5, Calls = {} DEF StartVerify, Ready, cacheVars, treeVars
    <3>2. cache = "clean"
      BY <2>0, <3>1 DEF TypeOK
    <3>3. tip = "accepted"
      BY <3>1, <3>2 DEF CacheInv, LineInv, OneLine
    <3> QED
      BY <3>1, <3>2, <3>3 DEF CacheMatchesDB, Undecided, Live
  <2>6. ASSUME NEW b \in Block, VerifySucceeds(b) PROVE ReplayInv'
    <3>1. /\ UNCHANGED <<cur, disk, cache>> /\ phase = "verify" /\ phase' = "idle" /\ tip' = b
          /\ parent' = [parent EXCEPT ![b] = on]
      BY <2>6 DEF VerifySucceeds, cacheVars
    <3>2. Undecided = {} /\ cache = "clean"
      BY <2>0, <3>1 DEF TypeOK
    <3>3. \A c \in Undecided' : c = b
      BY <2>0, <3>1, <3>2 DEF Undecided, TypeOK
    <3> QED
      BY <3>1, <3>2, <3>3 DEF CacheMatchesDB, Live
  <2>7. CASE VerifyFails
    <3>1. UNCHANGED <<cur, disk, parent, tip>> /\ phase' = "halted" /\ phase = "verify"
      BY <2>7, Calls = {} DEF VerifyFails, cacheVars, treeVars
    <3> QED
      BY <3>1 DEF CacheMatchesDB, Undecided, Live
  <2>8. ASSUME NEW b \in Block, Accept(b) PROVE ReplayInv'
    <3>1. /\ phase = "idle" /\ phase' = "idle" /\ cache' = cache /\ b \in Undecided /\ b # "accepted"
          /\ disk' = view[b] /\ cur' = Merged
          /\ \A c \in Block \ {b} : parent[c] = "none" => parent'[c] = "none"
          /\ parent'[b] = "none"
      BY <2>8, StateCacheAssumption DEF Accept, Forget, Undecided, Commit
    <3>2. tip = b /\ cache = "clean"
      BY <2>0, <3>1 DEF TypeOK
    <3>3. Live(Merged) = Live(view[b].entries)
      BY <3>1, <3>2 DEF CacheInv, PendingMatchesLayer, StateOf
    <3>4. CacheMatchesDB'
      BY <3>1, <3>3 DEF CacheMatchesDB, Live
    <3>5. Undecided' = {}
      BY <3>1, <3>2 DEF Undecided
    <3> QED
      BY <3>1, <3>2, <3>4, <3>5
  <2>9. ASSUME NEW b \in Block, Reject(b) PROVE ReplayInv'
    <3>1. phase = "idle" /\ parent[b] = "conflict" /\ b \in Undecided
      BY <2>9 DEF Reject, Undecided
    <3>2. cache = "clean"
      BY <2>0, <3>1 DEF TypeOK
    <3> QED
      BY <3>1, <3>2 DEF CacheInv, LineInv, OneLine
  <2>10. CASE Submit \/ BuildSucceeds \/ BuildFails \/ \E p \in Parent : StartBuild(p)
    BY <2>10, Calls = {} DEF Submit, StartBuild, BuildSucceeds, BuildFails
  <2>11. CASE Restart
    <3>1. /\ cur' = Live(disk.entries) /\ disk' = disk /\ phase' = "idle" /\ cache' = "clean"
          /\ parent' = [b \in Block |-> "none"]
      BY <2>11 DEF Restart
    <3>2. Undecided' = {}
      BY <3>1 DEF Undecided
    <3>3. \A k \in Key : Live(Live(disk.entries))[k] = Live(disk.entries)[k]
      BY DEF Live
    <3>4. CacheMatchesDB'
      BY <3>1, <3>3 DEF CacheMatchesDB, Live
    <3> QED
      BY <3>1, <3>2, <3>4
  <2> QED
    BY <2>2, <2>3, <2>4, <2>5, <2>6, <2>7, <2>8, <2>9, <2>10, <2>11 DEF Next
<1> QED
  BY <1>1, <1>2, CacheInvariant, PTL DEF Spec
=============================================================================
