----------------------------- MODULE ChainProofs -----------------------------
(***************************************************************************)
(* The replay protection, and the database being the accepted chain, for   *)
(* every number of blocks and transactions, every lookback window and      *)
(* every clock.                                                            *)
(*                                                                         *)
(* NoReplay is not inductive: whether a new block may carry a transaction  *)
(* depends on what the window still shows, so one has to know where the    *)
(* transactions of older blocks are anchored.  Vetted blocks are those     *)
(* that passed verification at some time and whose effects are anywhere in *)
(* the node; on the chain of such a block every transaction names a proper *)
(* ancestor of the block that carries it (Anchored).  A transaction that   *)
(* is executable on top of p names a block r in the window of p; a block a *)
(* on p's chain that already carried it is higher than r, so it is in the  *)
(* window too, because the window has no gaps, and then the transaction is *)
(* among the recent ones.                                                  *)
(***************************************************************************)
EXTENDS Chain, TLAPS

Anchored(b) == \A t \in txs[b] : blockID[t] \in anc[b]

Good(b) ==
    /\ \A a \in Chain(b) : Anchored(a)
    /\ \A a \in anc[b] : txs[a] \cap txs[b] = {}

Vetted == Verified \cup disk \cup {last, diskLast} \cup UNION {delta[b] : b \in Block}

HeightsGrow == \A b \in Block : \A x \in anc[b] : hght[x] < hght[b]
AncestorsKnown == \A b \in Block : \A x \in anc[b] : status[x] # "unknown"
AncestryOfParent == \A b \in Block : prnt[b] \in Block => anc[b] = Chain(prnt[b])
VettedGood == \A b \in Vetted : status[b] # "unknown" /\ Good(b)

ReplayInv ==
    /\ TypeOK
    /\ HeightsGrow
    /\ AncestorsKnown
    /\ AncestryOfParent
    /\ VettedGood

-----------------------------------------------------------------------------
\* Every variable keeps its type in every reachable state.
THEOREM TypeCorrect == Spec => []TypeOK
<1>1. Init => TypeOK
  BY ChainAssumption DEF Init, TypeOK, Time
<1>2. TypeOK /\ [Next]_vars => TypeOK'
  <2> SUFFICES ASSUME TypeOK, [Next]_vars PROVE TypeOK'
    OBVIOUS
  <2> USE ChainAssumption DEF TypeOK
  <2>1. CASE Tick
    BY <2>1 DEF Tick, contents, layers, Time
  <2>2. ASSUME NEW t \in Tx, NEW b \in Block, Sign(t, b) PROVE TypeOK'
    BY <2>2 DEF Sign, contents, layers
  <2>3. ASSUME NEW b \in Block, NEW p \in Block, NEW time \in Time, NEW S \in SUBSET Tx,
               Parse(b, p, time, S)
        PROVE TypeOK'
    BY <2>3 DEF Parse, layers, Chain
  <2>4. ASSUME NEW b \in Block, Verify(b) PROVE TypeOK'
    <3>1. OnAccept(prnt[b]) \in Block \cup {Disk}
      BY <2>4 DEF Verify, Saved, OnAccept, Retrievable
    <3> QED
      BY <2>4, <3>1 DEF Verify, Saved, contents
  <2>5. ASSUME NEW b \in Block, Accept(b) PROVE TypeOK'
    <3>1. Reparented(b) \in [Block -> Block \cup {Disk}]
      BY DEF Reparented
    <3>2. /\ delta' \in [Block -> SUBSET Block]
          /\ disk' \subseteq Block
          /\ diskLast' \in Block
      <4>1. CASE base[b] = Disk
        BY <2>5, <4>1 DEF Accept, Commit
      <4>2. CASE base[b] # Disk
        BY <2>5, <4>2 DEF Accept, Commit
      <4> QED
        BY <4>1, <4>2
    <3> QED
      BY <2>5, <3>1, <3>2 DEF Accept, contents
  <2>6. ASSUME NEW b \in Block, Reject(b) PROVE TypeOK'
    BY <2>6 DEF Reject, contents
  <2>7. CASE Restart
    BY <2>7 DEF Restart, contents
  <2>8. CASE UNCHANGED vars
    BY <2>8 DEF vars, contents, layers
  <2> QED
    BY <2>1, <2>2, <2>3, <2>4, <2>5, <2>6, <2>7, <2>8 DEF Next
<1> QED
  BY <1>1, <1>2, PTL DEF Spec

-----------------------------------------------------------------------------
\* A transaction that Execute lets through on top of a good block p is new on
\* the whole chain of p, also behind the end of the window.
LEMMA WindowShowsAllCarriers ==
  ASSUME TypeOK, HeightsGrow,
         NEW p \in Block, Good(p),
         NEW time \in Time, NEW t \in Tx, Executes(t, p, time)
  PROVE  /\ blockID[t] \in Chain(p)
         /\ \A a \in Chain(p) : t \notin txs[a]
<1> USE ChainAssumption DEF TypeOK
<1> DEFINE r == blockID[t]
<1>1. r \in Window(p, time) /\ t \notin RecentTxIDs(p, time)
  BY DEF Executes
<1>2. r \in Chain(p)
  BY <1>1 DEF Window
<1>3. ASSUME NEW a \in Chain(p), t \in txs[a] PROVE FALSE
  <2>1. a \in Block /\ r \in Block
    BY <1>2 DEF Chain
  <2>2. r \in anc[a]
    BY <1>3 DEF Good, Anchored
  <2>3. hght[r] < hght[a]
    BY <2>1, <2>2 DEF HeightsGrow
  <2>4. ASSUME NEW y \in Chain(p), hght[y] >= hght[a]
        PROVE  time - tmstmp[y] <= LookbackWindow \/ y = p
    <3>1. y \in Block
      BY DEF Chain
    <3>2. hght[y] \in Nat /\ hght[a] \in Nat /\ hght[r] \in Nat
      BY <2>1, <3>1
    <3>3. hght[y] >= hght[r]
      BY <2>3, <2>4, <3>2
    <3> QED
      BY <1>1, <3>3 DEF Window
  <2>5. a \in Window(p, time)
    BY <2>4 DEF Window
  <2> QED
    BY <1>1, <1>3, <2>5 DEF RecentTxIDs
<1> QED
  BY <1>2, <1>3

\* Parsing a block touches nothing that a known block's chain is made of.
LEMMA ParseKeepsReplayInv ==
  ASSUME ReplayInv,
         NEW b \in Block, NEW p \in Block, NEW time \in Time, NEW S \in SUBSET Tx,
         Parse(b, p, time, S)
  PROVE  HeightsGrow' /\ AncestorsKnown' /\ AncestryOfParent' /\ VettedGood'
<1> USE ChainAssumption DEF ReplayInv, TypeOK
<1>1. b \notin Chain(p) /\ b # p
  BY DEF Parse, AncestorsKnown, Chain
<1>2. /\ anc'[b] = Chain(p) /\ hght'[b] = hght[p] + 1 /\ prnt'[b] = p
      /\ \A x \in Block \ {b} : /\ anc'[x] = anc[x] /\ hght'[x] = hght[x]
                                /\ prnt'[x] = prnt[x] /\ txs'[x] = txs[x]
                                /\ status'[x] = status[x]
      /\ status[b] = "unknown" /\ status'[b] # "unknown" /\ status[p] # "unknown"
  BY DEF Parse
<1>3. \A x \in Block : b \notin anc[x]
  BY <1>2 DEF AncestorsKnown
<1>4. HeightsGrow'
  <2> SUFFICES ASSUME NEW x \in Block, NEW y \in anc'[x] PROVE hght'[y] < hght'[x]
    BY DEF HeightsGrow
  <2>1. CASE x = b
    <3>1. y \in Chain(p) /\ y # b /\ y \in Block
      BY <1>1, <1>2, <2>1 DEF Chain
    <3>2. hght[y] <= hght[p]
      BY <3>1 DEF Chain, HeightsGrow
    <3>3. hght'[y] = hght[y] /\ hght'[x] = hght[p] + 1
      BY <1>2, <2>1, <3>1
    <3> QED
      BY <3>1, <3>2, <3>3
  <2>2. CASE x # b
    <3>1. y \in anc[x] /\ y # b /\ y \in Block
      BY <1>2, <1>3, <2>2
    <3> QED
      BY <1>2, <2>2, <3>1 DEF HeightsGrow
  <2> QED
    BY <2>1, <2>2
<1>5. AncestorsKnown'
  BY <1>1, <1>2, <1>3 DEF AncestorsKnown, Chain
<1>6. AncestryOfParent'
  <2> SUFFICES ASSUME NEW x \in Block, prnt'[x] \in Block
               PROVE  anc'[x] = anc'[prnt'[x]] \cup {prnt'[x]}
    BY DEF AncestryOfParent, Chain
  <2>1. CASE x = b
    BY <1>1, <1>2, <2>1 DEF Chain
  <2>2. CASE x # b
    <3>1. prnt'[x] = prnt[x] /\ anc[x] = anc[prnt[x]] \cup {prnt[x]}
      BY <1>2, <2>2 DEF AncestryOfParent, Chain
    <3>2. prnt[x] # b
      BY <1>3, <3>1
    <3> QED
      BY <1>2, <2>2, <3>1, <3>2
  <2> QED
    BY <2>1, <2>2
<1>7. VettedGood'
  <2> SUFFICES ASSUME NEW x \in Vetted' PROVE status'[x] # "unknown" /\ Good(x)'
    BY DEF VettedGood
  <2>1. x \in Vetted
    BY <1>2 DEF Vetted, Verified, Parse, layers
  <2>2. x \in Block /\ x # b /\ status[x] # "unknown" /\ Good(x)
    BY <1>2, <2>1 DEF VettedGood, Vetted, Verified
  <2>3. \A a \in Chain(x) : a \in Block /\ a # b
    BY <1>3, <2>2 DEF Chain
  <2>4. Chain(x)' = Chain(x) /\ anc'[x] = anc[x] /\ blockID' = blockID
    BY <1>2, <2>2 DEF Chain, Parse
  <2>5. \A a \in Chain(x)' : Anchored(a)'
    BY <1>2, <2>2, <2>3, <2>4 DEF Anchored, Good
  <2>6. \A a \in anc'[x] : txs'[a] \cap txs'[x] = {}
    BY <1>2, <2>2, <2>3, <2>4 DEF Good, Chain
  <2> QED
    BY <1>2, <2>2, <2>5, <2>6 DEF Good
<1> QED
  BY <1>4, <1>5, <1>6, <1>7

\* A block that passes verification is good.
LEMMA VerifyKeepsReplayInv ==
  ASSUME ReplayInv, NEW b \in Block, Verify(b)
  PROVE  HeightsGrow' /\ AncestorsKnown' /\ AncestryOfParent' /\ VettedGood'
<1> USE ChainAssumption DEF ReplayInv, TypeOK
<1> DEFINE p == prnt[b]
<1>1. UNCHANGED <<prnt, hght, tmstmp, txs, anc, blockID, last, disk, diskLast>>
  BY DEF Verify, contents
<1>2. p \in Block /\ anc[b] = Chain(p) /\ Good(p)
  <2>1. p \in Block
    BY DEF Verify, Retrievable
  <2>2. p \in Vetted
    BY <2>1 DEF Verify, Vetted, Verified
  <2> QED
    BY <2>1, <2>2 DEF AncestryOfParent, VettedGood
<1>3. \A t \in txs[b] : blockID[t] \in anc[b] /\ \A a \in anc[b] : t \notin txs[a]
  <2> SUFFICES ASSUME NEW t \in txs[b]
               PROVE  blockID[t] \in anc[b] /\ \A a \in anc[b] : t \notin txs[a]
    OBVIOUS
  <2>1. t \in Tx /\ tmstmp[b] \in Time /\ Executes(t, p, tmstmp[b])
    BY DEF Verify
  <2> QED
    BY <1>2, <2>1, WindowShowsAllCarriers
<1>4. Good(b)
  <2>1. Anchored(b)
    BY <1>3 DEF Anchored
  <2>2. \A a \in Chain(b) : Anchored(a)
    BY <1>2, <2>1 DEF Chain, Good
  <2>3. \A a \in anc[b] : txs[a] \cap txs[b] = {}
    BY <1>3
  <2> QED
    BY <2>2, <2>3 DEF Good
<1>5. /\ status' = [status EXCEPT ![b] = "processing"]
      /\ delta' = [delta EXCEPT ![b] = {b}]
  BY DEF Verify, Saved
<1>6. HeightsGrow' /\ AncestryOfParent'
  BY <1>1 DEF HeightsGrow, AncestryOfParent, Chain
<1>7. AncestorsKnown'
  BY <1>1, <1>5 DEF AncestorsKnown
<1>8. VettedGood'
  <2> SUFFICES ASSUME NEW x \in Vetted' PROVE status'[x] # "unknown" /\ Good(x)'
    BY DEF VettedGood
  <2>1. x = b \/ x \in Vetted
    BY <1>1, <1>5 DEF Vetted, Verified
  <2>2. x \in Block
    BY <2>1 DEF Vetted, Verified
  <2>3. Good(x)
    BY <1>4, <2>1 DEF VettedGood
  <2>4. Good(x)'
    BY <1>1, <2>3 DEF Good, Anchored, Chain
  <2>5. status'[x] # "unknown"
    BY <1>5, <2>1, <2>2 DEF VettedGood
  <2> QED
    BY <2>4, <2>5
<1> QED
  BY <1>6, <1>7, <1>8

\* The other steps move vetted blocks around, or forget them.
LEMMA OtherStepsKeepReplayInv ==
  ASSUME ReplayInv,
         \/ Tick \/ Restart \/ UNCHANGED vars
         \/ \E b \in Block : Accept(b) \/ Reject(b)
  PROVE  HeightsGrow' /\ AncestorsKnown' /\ AncestryOfParent' /\ VettedGood'
<1> USE ChainAssumption DEF ReplayInv, TypeOK
<1>1. UNCHANGED <<prnt, hght, tmstmp, txs, anc, blockID>>
  BY DEF Tick, Restart, Accept, Reject, vars, contents
<1>2. \A x \in Block : status[x] # "unknown" => status'[x] # "unknown"
  <2>1. CASE Tick \/ UNCHANGED vars
    BY <2>1 DEF Tick, vars
  <2>2. CASE Restart
    BY <2>2 DEF Restart
  <2>3. CASE \E b \in Block : Accept(b) \/ Reject(b)
    BY <2>3 DEF Accept, Reject
  <2> QED
    BY <2>1, <2>2, <2>3
<1>3. Vetted' \subseteq Vetted
  <2>1. CASE Tick \/ UNCHANGED vars
    BY <2>1 DEF Tick, vars, layers, Vetted, Verified
  <2>2. CASE Restart
    <3>1. Verified' \subseteq disk
      BY <2>2 DEF Restart, Verified
    <3>2. \A b \in Block : delta'[b] = {}
      BY <2>2 DEF Restart
    <3>3. last' = diskLast /\ disk' = disk /\ diskLast' = diskLast
      BY <2>2 DEF Restart
    <3> QED
      BY <3>1, <3>2, <3>3 DEF Vetted
  <2>3. ASSUME NEW b \in Block, Accept(b) PROVE Vetted' \subseteq Vetted
    <3>1. Verified' \subseteq Verified /\ b \in Verified /\ last' = b
      BY <2>3 DEF Accept, Verified
    <3>2. CASE base[b] = Disk
      <4>1. /\ disk' = disk \cup delta[b] /\ diskLast' = b
            /\ delta' = [delta EXCEPT ![b] = {}]
        BY <2>3, <3>2 DEF Accept, Commit
      <4>2. \A c \in Block : delta'[c] \subseteq delta[c]
        BY <4>1
      <4> QED
        BY <3>1, <4>1, <4>2 DEF Vetted
    <3>3. CASE base[b] # Disk
      <4>1. /\ disk' = disk /\ diskLast' = diskLast
            /\ delta' = [delta EXCEPT ![base[b]] = @ \cup delta[b], ![b] = {}]
        BY <2>3, <3>3 DEF Accept, Commit
      <4>2. \A c \in Block : delta'[c] \subseteq delta[c] \cup delta[b]
        BY <4>1
      <4> QED
        BY <3>1, <4>1, <4>2 DEF Vetted
    <3> QED
      BY <3>2, <3>3
  <2>4. ASSUME NEW b \in Block, Reject(b) PROVE Vetted' \subseteq Vetted
    <3>1. Verified' \subseteq Verified
      BY <2>4 DEF Reject, Verified
    <3>2. \A c \in Block : delta'[c] \subseteq delta[c]
      BY <2>4 DEF Reject
    <3>3. UNCHANGED <<last, disk, diskLast>>
      BY <2>4 DEF Reject
    <3> QED
      BY <3>1, <3>2, <3>3 DEF Vetted
  <2> QED
    BY <2>1, <2>2, <2>3, <2>4
<1>4. HeightsGrow' /\ AncestryOfParent'
  BY <1>1 DEF HeightsGrow, AncestryOfParent, Chain
<1>5. AncestorsKnown'
  BY <1>1, <1>2 DEF AncestorsKnown
<1>6. VettedGood'
  <2>1. \A x : Good(x)' <=> Good(x)
    BY <1>1 DEF Good, Anchored, Chain
  <2>2. Vetted \subseteq Block
    BY DEF Vetted, Verified
  <2> QED
    BY <1>2, <1>3, <2>1, <2>2 DEF VettedGood
<1> QED
  BY <1>4, <1>5, <1>6

\* Signing gives a block to a transaction that no block carries yet.
LEMMA SignKeepsReplayInv ==
  ASSUME ReplayInv, NEW t \in Tx, NEW b \in Block, Sign(t, b)
  PROVE  HeightsGrow' /\ AncestorsKnown' /\ AncestryOfParent' /\ VettedGood'
<1> USE ChainAssumption DEF ReplayInv, TypeOK
<1>1. UNCHANGED <<contents, status, last, layers>>
  BY DEF Sign
<1>2. HeightsGrow' /\ AncestorsKnown' /\ AncestryOfParent'
  BY <1>1 DEF HeightsGrow, AncestorsKnown, AncestryOfParent, Chain, contents
<1>3. Vetted' = Vetted /\ Vetted \subseteq Block
  BY <1>1 DEF Vetted, Verified, layers
<1>4. ASSUME NEW x \in Vetted PROVE Good(x)'
  <2>1. Good(x) /\ x \in Block
    BY <1>3 DEF VettedGood
  <2>2. \A a \in Chain(x) : a \in Block /\ Anchored(a)
    BY <2>1 DEF Good, Chain
  <2>3. ASSUME NEW a \in Chain(x), NEW u \in txs[a] PROVE blockID'[u] \in anc[a]
    <3>1. blockID[u] \in anc[a] /\ blockID[u] # NoBlock /\ u \in Tx
      BY <2>2, <2>3 DEF Anchored
    <3> QED
      BY <3>1 DEF Sign
  <2> QED
    BY <1>1, <2>1, <2>3 DEF Good, Anchored, Chain, contents
<1>5. VettedGood'
  BY <1>1, <1>3, <1>4 DEF VettedGood
<1> QED
  BY <1>2, <1>5

\* The strengthening of NoReplay holds in every reachable state.
LEMMA ReplayInvariant == Spec => []ReplayInv
<1>1. Init => ReplayInv
  <2> SUFFICES ASSUME Init PROVE ReplayInv
    OBVIOUS
  <2>1. TypeOK
    BY ChainAssumption DEF Init, TypeOK, Time
  <2>2. HeightsGrow /\ AncestorsKnown /\ AncestryOfParent
    BY ChainAssumption DEF Init, HeightsGrow, AncestorsKnown, AncestryOfParent
  <2>3. Vetted \subseteq {Genesis}
    BY ChainAssumption DEF Init, Vetted, Verified
  <2>4. VettedGood
    BY <2>3, ChainAssumption DEF Init, VettedGood, Good, Anchored, Chain
  <2> QED
    BY <2>1, <2>2, <2>4 DEF ReplayInv
<1>2. ReplayInv /\ TypeOK' /\ [Next]_vars => ReplayInv'
  <2> SUFFICES ASSUME ReplayInv, [Next]_vars
               PROVE  HeightsGrow' /\ AncestorsKnown' /\ AncestryOfParent' /\ VettedGood'
    BY DEF ReplayInv
  <2>1. CASE \E t \in Tx, b \in Block : Sign(t, b)
    BY <2>1, SignKeepsReplayInv
  <2>2. CASE \E b, p \in Block, time \in Time, S \in SUBSET Tx : Parse(b, p, time, S)
    BY <2>2, ParseKeepsReplayInv
  <2>3. CASE \E b \in Block : Verify(b)
    BY <2>3, VerifyKeepsReplayInv
  <2>4. CASE \/ Tick \/ Restart \/ UNCHANGED vars
             \/ \E b \in Block : Accept(b) \/ Reject(b)
    BY <2>4, OtherStepsKeepReplayInv
  <2> QED
    BY <2>1, <2>2, <2>3, <2>4 DEF Next
<1> QED
  BY <1>1, <1>2, TypeCorrect, PTL DEF Spec

\* "Tx hash must not be recently executed (otherwise could be replayed)"
\* (tx.go:96): no transaction is executed in two blocks of one chain, whatever
\* the window, the clocks, the forks and the restarts.
THEOREM NoTransactionReplayed == Spec => []NoReplay
<1>1. ReplayInv => NoReplay
  BY DEF ReplayInv, VettedGood, Vetted, Good, NoReplay
<1> QED
  BY <1>1, ReplayInvariant, PTL

-----------------------------------------------------------------------------
(* The database.  A processing block's layer holds its own effects only and *)
(* lies over its parent's layer exactly while the parent is undecided.      *)

LayerShape ==
    \A b \in Block : status[b] = "processing" =>
        /\ prnt[b] \in Block
        /\ delta[b] = {b}
        /\ base[b] = IF status[prnt[b]] = "accepted" THEN Disk ELSE prnt[b]

AcceptedIsOnDisk == \A b \in Block : status[b] = "accepted" <=> b \in disk

OnlyGenesisIsRoot ==
    /\ Genesis \in disk
    /\ \A b \in Block : status[b] # "unknown" /\ hght[b] = 0 => b = Genesis

DiskInv ==
    /\ TypeOK
    /\ AncestorsKnown
    /\ AncestryOfParent
    /\ OnlyGenesisIsRoot
    /\ AcceptedIsOnDisk
    /\ LayerShape
    /\ DiskIsAcceptedChain

LEMMA DiskInvStep ==
  ASSUME DiskInv, [Next]_vars, TypeOK', AncestorsKnown', AncestryOfParent'
  PROVE  DiskInv' /\ (last' = last \/ last \in anc'[last'])
<1> USE ChainAssumption DEF DiskInv, TypeOK
<1> DEFINE Rest == /\ OnlyGenesisIsRoot' /\ AcceptedIsOnDisk' /\ LayerShape'
                   /\ DiskIsAcceptedChain' /\ (last' = last \/ last \in anc'[last'])
<1>1. CASE Tick \/ UNCHANGED vars
  BY <1>1 DEF Tick, vars, contents, layers, OnlyGenesisIsRoot, AcceptedIsOnDisk,
              LayerShape, DiskIsAcceptedChain, Chain
<1>2. ASSUME NEW t \in Tx, NEW b \in Block, Sign(t, b) PROVE Rest
  BY <1>2 DEF Sign, contents, layers, OnlyGenesisIsRoot, AcceptedIsOnDisk,
              LayerShape, DiskIsAcceptedChain, Chain
<1>3. ASSUME NEW b \in Block, NEW p \in Block, NEW time \in Time, NEW S \in SUBSET Tx,
             Parse(b, p, time, S)
      PROVE  Rest
  <2>1. /\ status[b] = "unknown" /\ status' = [status EXCEPT ![b] = "parsed"]
        /\ prnt' = [prnt EXCEPT ![b] = p]
        /\ hght' = [hght EXCEPT ![b] = hght[p] + 1]
        /\ \A x \in Block \ {b} : anc'[x] = anc[x]
        /\ UNCHANGED <<last, base, delta, disk, diskLast>>
    BY <1>3 DEF Parse, layers
  <2>2. last # b /\ last \in Block
    BY <2>1 DEF DiskIsAcceptedChain, AcceptedIsOnDisk, Chain
  <2>3. DiskIsAcceptedChain' /\ last' = last
    BY <2>1, <2>2 DEF DiskIsAcceptedChain, Chain
  <2>4. OnlyGenesisIsRoot' /\ AcceptedIsOnDisk'
    BY <2>1 DEF OnlyGenesisIsRoot, AcceptedIsOnDisk
  <2>5. LayerShape'
    <3> SUFFICES ASSUME NEW x \in Block, status'[x] = "processing"
                 PROVE  /\ prnt'[x] \in Block
                        /\ delta'[x] = {x}
                        /\ base'[x] = IF status'[prnt'[x]] = "accepted" THEN Disk ELSE prnt'[x]
      BY DEF LayerShape
    <3>1. x # b /\ status[x] = "processing" /\ prnt'[x] = prnt[x]
      BY <2>1
    <3>2. prnt[x] \in Block /\ prnt[x] # b
      BY <2>1, <3>1 DEF LayerShape, AncestryOfParent, AncestorsKnown, Chain
    <3> QED
      BY <2>1, <3>1, <3>2 DEF LayerShape
  <2> QED
    BY <2>3, <2>4, <2>5
<1>4. ASSUME NEW b \in Block, Verify(b) PROVE Rest
  <2>1. /\ status[b] = "parsed" /\ status' = [status EXCEPT ![b] = "processing"]
        /\ delta' = [delta EXCEPT ![b] = {b}]
        /\ base' = [base EXCEPT ![b] = OnAccept(prnt[b])]
        /\ UNCHANGED <<prnt, hght, anc, last, disk, diskLast>>
    BY <1>4 DEF Verify, Saved, contents
  <2>2. prnt[b] \in Block /\ prnt[b] # b /\ status[prnt[b]] \in {"processing", "accepted"}
    BY <1>4 DEF Verify, Saved, Retrievable, AcceptedIsOnDisk
  <2>3. OnAccept(prnt[b]) = IF status[prnt[b]] = "accepted" THEN Disk ELSE prnt[b]
    BY <2>2 DEF OnAccept, OnlyGenesisIsRoot, AcceptedIsOnDisk
  <2>4. OnlyGenesisIsRoot' /\ AcceptedIsOnDisk' /\ DiskIsAcceptedChain' /\ last' = last
    BY <2>1 DEF OnlyGenesisIsRoot, AcceptedIsOnDisk, DiskIsAcceptedChain, Chain
  <2>5. \A x \in Block : status'[x] = "accepted" <=> status[x] = "accepted"
    BY <2>1
  <2>6. LayerShape'
    BY <2>1, <2>2, <2>3, <2>5 DEF LayerShape
  <2> QED
    BY <2>4, <2>6
<1>5. ASSUME NEW b \in Block, Accept(b) PROVE Rest
  <2>1. /\ status[b] = "processing" /\ status' = [status EXCEPT ![b] = "accepted"]
        /\ prnt[b] = last /\ last' = b /\ base' = Reparented(b)
        /\ UNCHANGED <<prnt, hght, anc>>
    BY <1>5 DEF Accept, contents
  <2>2. last \in disk /\ status[last] = "accepted"
    BY DEF DiskIsAcceptedChain, AcceptedIsOnDisk, Chain
  <2>3. base[b] = Disk /\ delta[b] = {b}
    BY <2>1, <2>2 DEF LayerShape
  <2>4. disk' = disk \cup {b} /\ diskLast' = b /\ delta' = [delta EXCEPT ![b] = {}]
    BY <1>5, <2>3 DEF Accept, Commit
  <2>5. anc[b] = Chain(last)
    BY <2>1 DEF AncestryOfParent
  <2>6. DiskIsAcceptedChain' /\ last \in anc'[last']
    BY <2>1, <2>4, <2>5 DEF DiskIsAcceptedChain, Chain
  <2>7. OnlyGenesisIsRoot' /\ AcceptedIsOnDisk'
    BY <2>1, <2>4 DEF OnlyGenesisIsRoot, AcceptedIsOnDisk
  <2>8. LayerShape'
    <3> SUFFICES ASSUME NEW x \in Block, status'[x] = "processing"
                 PROVE  /\ prnt[x] \in Block
                        /\ delta'[x] = {x}
                        /\ base'[x] = IF status'[prnt[x]] = "accepted" THEN Disk ELSE prnt[x]
      BY <2>1 DEF LayerShape
    <3>1. x # b /\ status[x] = "processing" /\ prnt[x] \in Block /\ delta'[x] = {x}
      BY <2>1, <2>4 DEF LayerShape
    <3>2. CASE prnt[x] = b
      BY <2>1, <3>1, <3>2 DEF Reparented
    <3>3. CASE prnt[x] # b
      BY <2>1, <3>1, <3>3 DEF Reparented, LayerShape
    <3> QED
      BY <3>1, <3>2, <3>3
  <2> QED
    BY <2>6, <2>7, <2>8
<1>6. ASSUME NEW b \in Block, Reject(b) PROVE Rest
  <2>1. /\ status[b] = "processing" /\ status' = [status EXCEPT ![b] = "parsed"]
        /\ delta' = [delta EXCEPT ![b] = {}]
        /\ UNCHANGED <<prnt, hght, anc, last, base, disk, diskLast>>
    BY <1>6 DEF Reject, Conflicting, contents
  <2>2. OnlyGenesisIsRoot' /\ AcceptedIsOnDisk' /\ DiskIsAcceptedChain' /\ last' = last
    BY <2>1 DEF OnlyGenesisIsRoot, AcceptedIsOnDisk, DiskIsAcceptedChain, Chain
  <2>3. LayerShape'
    BY <2>1 DEF LayerShape
  <2> QED
    BY <2>2, <2>3
<1>7. CASE Restart
  <2>1. /\ last' = diskLast
        /\ \A b \in Block : /\ status'[b] = "accepted" <=> b \in disk
                            /\ status'[b] # "processing"
        /\ UNCHANGED <<prnt, hght, anc, disk, diskLast>>
    BY <1>7 DEF Restart, contents
  <2>2. DiskIsAcceptedChain' /\ AcceptedIsOnDisk' /\ LayerShape' /\ last' = last
    BY <2>1 DEF DiskIsAcceptedChain, AcceptedIsOnDisk, LayerShape, Chain
  <2>3. \A b \in Block : status'[b] # "unknown" => status[b] # "unknown"
    BY <1>7 DEF Restart, AcceptedIsOnDisk
  <2>4. OnlyGenesisIsRoot'
    BY <2>1, <2>3 DEF OnlyGenesisIsRoot
  <2> QED
    BY <2>2, <2>4
<1> QED
  BY <1>1, <1>2, <1>3, <1>4, <1>5, <1>6, <1>7 DEF Next

\* Where the layers lie and what is on disk, in every reachable state.
LEMMA DiskInvariant == Spec => []DiskInv
<1>1. Init => DiskInv
  <2> SUFFICES ASSUME Init PROVE DiskInv
    OBVIOUS
  <2>1. TypeOK
    BY ChainAssumption DEF Init, TypeOK, Time
  <2>2. AncestorsKnown /\ AncestryOfParent
    BY ChainAssumption DEF Init, AncestorsKnown, AncestryOfParent
  <2>3. OnlyGenesisIsRoot /\ AcceptedIsOnDisk /\ LayerShape /\ DiskIsAcceptedChain
    BY ChainAssumption DEF Init, OnlyGenesisIsRoot, AcceptedIsOnDisk, LayerShape,
                           DiskIsAcceptedChain, Chain
  <2> QED
    BY <2>1, <2>2, <2>3 DEF DiskInv
<1>2. DiskInv /\ [Next]_vars /\ ReplayInv' => DiskInv'
  BY DiskInvStep DEF ReplayInv
<1> QED
  BY <1>1, <1>2, ReplayInvariant, PTL DEF Spec

\* Accept (block.go:247) always commits to the database itself, so the database
\* is the accepted chain and its lastAccepted key the last accepted block.
THEOREM DatabaseIsAcceptedChain == Spec => []DiskIsAcceptedChain
<1>1. DiskInv => DiskIsAcceptedChain
  BY DEF DiskInv
<1> QED
  BY <1>1, DiskInvariant, PTL

\* A node that restarts (vm.go:166) resumes at the very block it had accepted:
\* lastAccepted only ever moves to a descendant.
THEOREM NeverRollsBack == Spec => LastAcceptedAdvances
<1>1. DiskInv /\ [Next]_vars /\ ReplayInv' => [last' = last \/ last \in anc'[last']]_vars
  BY DiskInvStep DEF ReplayInv
<1> QED
  BY <1>1, ReplayInvariant, DiskInvariant, PTL DEF Spec, LastAcceptedAdvances

-----------------------------------------------------------------------------
(* The ancestors of a block.  A rejected block is no ancestor of a block    *)
(* that builds on the last accepted one, because two ancestors of one block *)
(* are ancestors of one another.                                            *)

AncestorsOrdered ==
    \A b \in Block : \A x, y \in anc[b] : x = y \/ x \in anc[y] \/ y \in anc[x]

AncestryTransitive == \A b \in Block : \A x \in anc[b] : anc[x] \subseteq anc[b]

DecidedLayersEmpty == \A b \in Block : status[b] # "processing" => delta[b] = {}

AncestryInv ==
    /\ AncestorsOrdered
    /\ AncestryTransitive
    /\ DecidedLayersEmpty
    /\ AncestryRetrievable

\* A block that arrives is no ancestor of another, and its ancestors are its parent's
\* chain.
LEMMA ParseKeepsAncestry ==
  ASSUME DiskInv, ReplayInv, AncestryInv,
         NEW b \in Block, NEW p \in Block, NEW time \in Time, NEW S \in SUBSET Tx,
         Parse(b, p, time, S)
  PROVE  AncestryInv'
<1> USE ChainAssumption DEF ReplayInv, TypeOK
<1>1. /\ anc'[b] = Chain(p) /\ status[b] = "unknown" /\ status'[b] = "parsed"
      /\ \A x \in Block \ {b} : anc'[x] = anc[x] /\ status'[x] = status[x]
      /\ UNCHANGED <<last, disk, delta>>
  BY DEF Parse, layers
<1>2. \A x \in Block : b \notin anc[x]
  BY <1>1 DEF AncestorsKnown
<1>3. b # p /\ b # last /\ last \in Block /\ Chain(p) \subseteq Block
  BY <1>1 DEF Parse, DiskInv, DiskIsAcceptedChain, AcceptedIsOnDisk, Chain
<1>4. \A x \in Chain(p) : anc'[x] = anc[x] /\ x \in Block
  BY <1>1, <1>2, <1>3 DEF Chain
<1>5. AncestorsOrdered'
  <2> SUFFICES ASSUME NEW c \in Block, NEW x \in anc'[c], NEW y \in anc'[c]
               PROVE  x = y \/ x \in anc'[y] \/ y \in anc'[x]
    BY DEF AncestorsOrdered
  <2>1. CASE c = b
    BY <1>1, <1>4, <2>1 DEF AncestryInv, AncestorsOrdered, Chain
  <2>2. CASE c # b
    <3>1. x \in anc[c] /\ y \in anc[c] /\ x \in Block \ {b} /\ y \in Block \ {b}
      BY <1>1, <1>2, <2>2
    <3> QED
      BY <1>1, <3>1 DEF AncestryInv, AncestorsOrdered
  <2> QED
    BY <2>1, <2>2
<1>6. AncestryTransitive'
  <2> SUFFICES ASSUME NEW c \in Block, NEW x \in anc'[c] PROVE anc'[x] \subseteq anc'[c]
    BY DEF AncestryTransitive
  <2>1. CASE c = b
    BY <1>1, <1>4, <2>1 DEF AncestryInv, AncestryTransitive, Chain
  <2>2. CASE c # b
    <3>1. x \in anc[c] /\ x \in Block \ {b}
      BY <1>1, <1>2, <2>2
    <3> QED
      BY <1>1, <2>2, <3>1 DEF AncestryInv, AncestryTransitive
  <2> QED
    BY <2>1, <2>2
<1>7. DecidedLayersEmpty'
  BY <1>1 DEF AncestryInv, DecidedLayersEmpty
<1>8. AncestryRetrievable'
  BY <1>1, <1>3 DEF AncestryInv, AncestryRetrievable, Retrievable
<1> QED
  BY <1>5, <1>6, <1>7, <1>8 DEF AncestryInv

\* The other steps leave the tree alone; what they take from verifiedBlocks is on disk
\* or no ancestor of a block that is still to be decided.
LEMMA DecisionsKeepAncestry ==
  ASSUME DiskInv, ReplayInv, AncestryInv, DiskIsAcceptedChain', [Next]_vars,
         ~ \E b, p \in Block, time \in Time, S \in SUBSET Tx : Parse(b, p, time, S)
  PROVE  AncestryInv'
<1> USE ChainAssumption DEF ReplayInv, TypeOK
<1>1. UNCHANGED <<anc, prnt>>
  BY DEF Next, Tick, Sign, Verify, Accept, Reject, Restart, vars, contents
<1>2. AncestorsOrdered' /\ AncestryTransitive'
  BY <1>1 DEF AncestryInv, AncestorsOrdered, AncestryTransitive
<1>3. last \in Block /\ disk = Chain(last) /\ disk' = Chain(last)'
  BY DEF DiskInv, DiskIsAcceptedChain
<1>4. anc[last] \subseteq disk /\ anc'[last'] \subseteq disk'
  BY <1>3 DEF Chain
<1> DEFINE Goal == DecidedLayersEmpty' /\ AncestryRetrievable'
<1>5. ASSUME UNCHANGED <<status, last, delta, disk>> PROVE Goal
  BY <1>1, <1>5 DEF AncestryInv, DecidedLayersEmpty, AncestryRetrievable, Retrievable
<1>6. ASSUME NEW b \in Block, Verify(b) PROVE Goal
  <2>1. /\ status[b] = "parsed" /\ status' = [status EXCEPT ![b] = "processing"]
        /\ delta' = [delta EXCEPT ![b] = Saved(b)]
        /\ prnt[b] = last \/ status[prnt[b]] = "processing"
        /\ Conflicting = {}
        /\ prnt[b] \in Retrievable
        /\ UNCHANGED <<last, disk>>
    BY <1>6 DEF Verify, EngineReady
  <2>2. prnt[b] \in Block /\ anc[b] = Chain(prnt[b])
    BY <2>1 DEF Retrievable, AncestryOfParent
  <2>3. anc[prnt[b]] \subseteq Retrievable
    BY <2>1, <2>2 DEF Conflicting, AncestryInv, AncestryRetrievable
  <2>4. Retrievable' = Retrievable \cup {b}
    BY <2>1 DEF Retrievable
  <2>5. \A x \in Block \ {b} : status'[x] = status[x] /\ delta'[x] = delta[x]
    BY <2>1
  <2>6. AncestryRetrievable'
    BY <1>1, <1>4, <2>1, <2>2, <2>3, <2>4, <2>5 DEF AncestryInv, AncestryRetrievable, Chain, Retrievable
  <2> QED
    BY <2>1, <2>5, <2>6 DEF AncestryInv, DecidedLayersEmpty
<1>7. ASSUME NEW b \in Block, Accept(b) PROVE Goal
  <2>1. /\ status[b] = "processing" /\ status' = [status EXCEPT ![b] = "accepted"]
        /\ prnt[b] = last /\ last' = b /\ Conflicting = {}
    BY <1>7 DEF Accept, EngineReady
  <2>2. base[b] = Disk /\ delta[b] = {b}
    BY <1>3, <2>1 DEF DiskInv, LayerShape, AcceptedIsOnDisk, Chain
  <2>3. delta' = [delta EXCEPT ![b] = {}] /\ disk' = disk \cup {b}
    BY <1>7, <2>2 DEF Accept, Commit
  <2>4. Retrievable' = Retrievable
    BY <2>1, <2>3 DEF Retrievable
  <2>5. \A x \in Block : status'[x] = "processing" => status[x] = "processing" /\ last \in anc[x]
    BY <2>1 DEF Conflicting
  <2>6. AncestryRetrievable'
    BY <1>1, <1>4, <2>4, <2>5 DEF AncestryInv, AncestryRetrievable, Retrievable
  <2> QED
    BY <2>1, <2>3, <2>6 DEF AncestryInv, DecidedLayersEmpty
<1>8. ASSUME NEW b \in Block, Reject(b) PROVE Goal
  <2>1. /\ status[b] = "processing" /\ last \notin anc[b]
        /\ status' = [status EXCEPT ![b] = "parsed"]
        /\ delta' = [delta EXCEPT ![b] = {}]
        /\ UNCHANGED <<last, disk>>
    BY <1>8 DEF Reject, Conflicting
  <2>2. b \notin disk
    BY <2>1 DEF DiskInv, AcceptedIsOnDisk
  <2>3. Retrievable' = Retrievable \ {b}
    BY <2>1, <2>2 DEF Retrievable
  <2>4. ASSUME NEW x \in Block, last \in anc[x] PROVE b \notin anc[x]
    BY <1>3, <2>1, <2>2, <2>4 DEF AncestryInv, AncestorsOrdered, Chain
  <2>5. AncestryRetrievable'
    BY <1>1, <1>4, <2>1, <2>3, <2>4 DEF AncestryInv, AncestryRetrievable, Retrievable
  <2> QED
    BY <2>1, <2>5 DEF AncestryInv, DecidedLayersEmpty
<1>9. ASSUME Restart PROVE Goal
  <2>1. /\ \A b \in Block : status'[b] # "processing" /\ delta'[b] = {}
        /\ last' \in Block
    BY <1>9 DEF Restart
  <2> QED
    BY <1>4, <2>1 DEF DecidedLayersEmpty, AncestryRetrievable, Retrievable
<1>10. ASSUME Tick \/ UNCHANGED vars \/ \E t \in Tx, b \in Block : Sign(t, b) PROVE Goal
  BY <1>5, <1>10 DEF Tick, Sign, vars, layers
<1>11. Goal
  BY <1>6, <1>7, <1>8, <1>9, <1>10 DEF Next
<1> QED
  BY <1>2, <1>11 DEF AncestryInv

LEMMA AncestryInvariant == Spec => []AncestryInv
<1>1. Init => AncestryInv
  <2> SUFFICES ASSUME Init PROVE AncestryInv
    OBVIOUS
  <2>1. \A b \in Block : anc[b] = {} /\ delta[b] = {}
    BY DEF Init
  <2> QED
    BY <2>1 DEF AncestryInv, AncestorsOrdered, AncestryTransitive, DecidedLayersEmpty,
                AncestryRetrievable
<1>2. DiskInv /\ ReplayInv /\ AncestryInv /\ DiskInv' /\ [Next]_vars => AncestryInv'
  BY ParseKeepsAncestry, DecisionsKeepAncestry DEF DiskInv
<1> QED
  BY <1>1, <1>2, ReplayInvariant, DiskInvariant, PTL DEF Spec

\* lookback (helpers.go:20) and GetStatelessBlock (vm.go:379) find every ancestor of a
\* block that a new block may build on, in verifiedBlocks or in the database.
THEOREM LookbackNeverFails == Spec => []AncestryRetrievable
<1>1. AncestryInv => AncestryRetrievable
  BY DEF AncestryInv
<1> QED
  BY <1>1, AncestryInvariant, PTL

\* The layers below an undecided block (block.go:253) hold its chain and nothing else:
\* above the database lie exactly the layers of the undecided ancestors, none of them cut
\* off by a layer that was laid over the database.
THEOREM ReadsSeeTheChain == Spec => []LayersComplete
<1>1. DiskInv /\ ReplayInv /\ AncestryInv => LayersComplete
  <2> SUFFICES ASSUME DiskInv, ReplayInv, AncestryInv,
                      NEW b \in Block, status[b] = "processing", last \in anc[b]
               PROVE  View(b) = Chain(b)
    BY DEF LayersComplete
  <2> USE ChainAssumption DEF ReplayInv, TypeOK
  <2> DEFINE Reached == {a \in Chain(b) : \A y \in Chain(b) : hght[y] > hght[a] => base[y] # Disk}
  <2>1. disk = Chain(last) /\ Chain(b) \subseteq Block /\ last \in Block
    BY DEF DiskInv, DiskIsAcceptedChain, Chain
  <2>2. Chain(last) \subseteq Chain(b)
    BY DEF AncestryInv, AncestryTransitive, Chain
  <2>3. \A a \in Chain(b) : a \in disk \/ status[a] = "processing"
    BY DEF AncestryInv, AncestryRetrievable, Retrievable, Chain
  <2>4. \A a \in Chain(b) : delta[a] \subseteq {a}
    <3> SUFFICES ASSUME NEW a \in Chain(b) PROVE delta[a] \subseteq {a}
      OBVIOUS
    <3>1. a \in Block
      BY <2>1
    <3>2. CASE status[a] = "processing"
      BY <3>1, <3>2 DEF DiskInv, LayerShape
    <3>3. CASE status[a] # "processing"
      BY <3>1, <3>3 DEF AncestryInv, DecidedLayersEmpty
    <3> QED
      BY <3>2, <3>3
  <2>5. ASSUME NEW a \in Chain(b), a \notin disk PROVE a \in Reached /\ delta[a] = {a}
    <3>1. a \in Block /\ status[a] = "processing" /\ delta[a] = {a}
      BY <2>1, <2>3, <2>5 DEF DiskInv, LayerShape
    <3>2. ASSUME NEW y \in Chain(b), hght[y] > hght[a] PROVE base[y] # Disk
      <4>1. y \in Block /\ a # y
        BY <2>1, <3>1, <3>2
      <4>2. a \in anc[y]
        <5>1. a \in anc[y] \/ y \in anc[a]
          BY <4>1 DEF AncestryInv, AncestorsOrdered, Chain
        <5>2. y \in anc[a] => hght[y] < hght[a]
          BY <3>1 DEF HeightsGrow
        <5>3. hght[y] \in Nat /\ hght[a] \in Nat
          BY <3>1, <4>1
        <5> QED
          BY <3>2, <5>1, <5>2, <5>3
      <4>3. \A z \in disk : a \notin anc[z] /\ a # z
        BY <2>1, <2>5 DEF AncestryInv, AncestryTransitive, Chain
      <4>4. status[y] = "processing" /\ prnt[y] \in Block
        BY <2>3, <4>1, <4>2, <4>3 DEF DiskInv, LayerShape
      <4>5. a \in Chain(prnt[y])
        BY <4>1, <4>2, <4>4 DEF AncestryOfParent
      <4>6. prnt[y] \notin disk
        BY <4>3, <4>5 DEF Chain
      <4> QED
        BY <4>1, <4>4, <4>6 DEF DiskInv, LayerShape, AcceptedIsOnDisk
    <3> QED
      BY <3>1, <3>2
  <2>6. View(b) = disk \cup UNION {delta[a] : a \in Reached}
    BY DEF View
  <2>7. View(b) \subseteq Chain(b)
    BY <2>1, <2>2, <2>4, <2>6
  <2>8. Chain(b) \subseteq View(b)
    <3> HIDE DEF Reached
    <3> QED
      BY <2>5, <2>6
  <2> QED
    BY <2>7, <2>8
<1> QED
  BY <1>1, ReplayInvariant, DiskInvariant, AncestryInvariant, PTL
=============================================================================
