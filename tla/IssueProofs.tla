----------------------------- MODULE IssueProofs ------------------------------
(***************************************************************************)
(* Proofs about Issue: for any clients, commands and kinds, any number of   *)
(* tries, blocks and restarts, and all windows, prices and sizes, what is   *)
(* executed was asked for, once; what the API answers is true; and the      *)
(* blocks' fees are paid.                                                   *)
(***************************************************************************)
EXTENDS Issue, FiniteSetTheorems, SequenceTheorems, WellFoundedInduction, NaturalsInduction, TLAPS

-----------------------------------------------------------------------------
(* Loops and sums.                                                          *)

\* A set that holds 0 and with every number below N the next one holds all up to N.
LEMMA NumbersUpTo ==
  ASSUME NEW N \in Nat, NEW P \in SUBSET Nat, 0 \in P, \A n \in P : n < N => n + 1 \in P
  PROVE  0..N \subseteq P
<1> DEFINE Less == {ss \in Nat \X Nat : ss[1] < ss[2]}
           Q == (0..N) \ P
<1>1. IsWellFoundedOn(Less, Nat)
  BY NatLessThanWellFounded, Zenon DEF OpToRel
<1>2. SUFFICES ASSUME Q # {} PROVE FALSE
  OBVIOUS
<1>3. PICK n \in Q : \A m \in Q : ~(<<m, n>> \in Less)
  <2>1. Q \subseteq Nat
    OBVIOUS
  <2> HIDE DEF Less, Q
  <2> QED
    BY <1>1, <1>2, <2>1, WFMin
<1>4. n # 0 /\ n - 1 \in 0..N /\ n - 1 < N /\ n \in Nat /\ n - 1 \in Nat
  BY <1>3
<1>5. <<n - 1, n>> \in Less
  <2>1. <<n - 1, n>> \in Nat \X Nat /\ n - 1 < n
    BY <1>4
  <2> QED
    BY <2>1
<1>6. n - 1 \in P
  BY <1>3, <1>4, <1>5
<1>7. n - 1 + 1 \in P
  BY <1>4, <1>6
<1> QED
  BY <1>3, <1>4, <1>7

\* A loop of N rounds over the states S.
Runs(h, n, s0, round) == h[0] = s0 /\ \A i \in 1..n : h[i] = round[i][h[i - 1]]

LEMMA LoopRuns ==
  ASSUME NEW S, NEW s0 \in S, NEW N \in Nat, NEW round \in [1..N -> [S -> S]]
  PROVE  \E h \in [0..N -> S] : Runs(h, N, s0, round)
<1> DEFINE P == {n \in Nat : n <= N => \E h \in [0..n -> S] : Runs(h, n, s0, round)}
<1>1. 0 \in P
  <2> DEFINE h == [i \in 0..0 |-> s0]
  <2>1. h \in [0..0 -> S] /\ Runs(h, 0, s0, round)
    BY DEF Runs
  <2> QED
    BY <2>1
<1>2. ASSUME NEW n \in Nat, n \in P, n < N PROVE n + 1 \in P
  <2>1. PICK h \in [0..n -> S] : Runs(h, n, s0, round)
    BY <1>2
  <2> DEFINE last == round[n + 1][h[n]]
             g == [i \in 0..n + 1 |-> IF i <= n THEN h[i] ELSE last]
  <2>2. last \in S
    BY <1>2
  <2> HIDE DEF last
  <2>3. /\ g \in [0..n + 1 -> S] /\ g[n + 1] = last
        /\ \A i \in 0..n : g[i] = h[i]
    BY <1>2, <2>2
  <2> HIDE DEF g
  <2>4. ASSUME NEW i \in 1..n + 1 PROVE g[i] = round[i][g[i - 1]]
    <3>1. CASE i <= n
      BY <1>2, <2>1, <2>3, <3>1 DEF Runs
    <3>2. CASE i = n + 1
      BY <1>2, <2>3, <3>2 DEF last
    <3> QED
      BY <1>2, <3>1, <3>2
  <2>5. Runs(g, n + 1, s0, round)
    BY <1>2, <2>1, <2>3, <2>4 DEF Runs
  <2> QED
    BY <1>2, <2>3, <2>5
<1>3. N \in P
  <2>1. P \subseteq Nat /\ N \in 0..N
    OBVIOUS
  <2> HIDE DEF P
  <2>2. 0..N \subseteq P
    BY <1>1, <1>2, <2>1, NumbersUpTo
  <2> QED
    BY <2>1, <2>2
<1> QED
  BY <1>3

\* Total runs up the prefix sums.
Sums(h, s) == h \in [0..Len(s) -> Int] /\ h[0] = 0 /\ \A n \in 0..Len(s) - 1 : h[n + 1] = h[n] + s[n + 1]

LEMMA TotalIsSum ==
  ASSUME NEW s \in Seq(Int)
  PROVE  \E h : Sums(h, s) /\ Total(s) = h[Len(s)]
<1> DEFINE N == Len(s)
           P(h) == h = [n \in 0..N |-> IF n = 0 THEN 0 ELSE h[n - 1] + s[n]]
           round == [n \in 1..N |-> [x \in Int |-> x + s[n]]]
<1>0. N \in Nat /\ \A n \in 1..N : s[n] \in Int
  OBVIOUS
<1>1. \E h : P(h)
  <2>1. round \in [1..N -> [Int -> Int]]
    BY <1>0
  <2>2. PICK h \in [0..N -> Int] : Runs(h, N, 0, round)
    <3> DEFINE z == 0
    <3>1. z \in Int
      OBVIOUS
    <3>2. \E h \in [0..N -> Int] : Runs(h, N, z, round)
      <4> HIDE DEF round, N, z
      <4> QED
        BY <1>0, <2>1, <3>1, LoopRuns
    <3> QED
      BY <3>2
  <2>3. ASSUME NEW n \in 1..N PROVE h[n] = h[n - 1] + s[n]
    <3>1. n - 1 \in 0..N /\ h[n - 1] \in Int
      BY <1>0
    <3>2. h[n] = round[n][h[n - 1]]
      <4> HIDE DEF N, round
      <4> QED
        BY <2>2 DEF Runs
    <3>3. round[n] = [x \in Int |-> x + s[n]]
      OBVIOUS
    <3> HIDE DEF round
    <3> QED
      BY <3>1, <3>2, <3>3
  <2>4. P(h)
    <3> HIDE DEF N, round
    <3>1. h = [n \in 0..N |-> h[n]] /\ h[0] = 0
      BY <2>2 DEF Runs
    <3>2. ASSUME NEW n \in 0..N PROVE h[n] = IF n = 0 THEN 0 ELSE h[n - 1] + s[n]
      <4>1. n # 0 => n \in 1..N
        BY <1>0
      <4> QED
        BY <2>3, <3>1, <4>1
    <3> QED
      BY <3>1, <3>2
  <2> QED
    BY <2>4
<1>2. P(CHOOSE h : P(h))
  BY <1>1, Zenon
<1> DEFINE g == CHOOSE h : P(h)
<1>3. Total(s) = g[N]
  BY DEF Total
<1>4. P(g)
  BY <1>2
<1> HIDE DEF g, N
<1>5. /\ DOMAIN g = 0..N /\ g[0] = 0 /\ \A n \in 1..N : g[n] = g[n - 1] + s[n]
  BY <1>4, <1>0
<1>7. \A n \in 0..N - 1 : g[n + 1] = g[n] + s[n + 1]
  <2> SUFFICES ASSUME NEW n \in 0..N - 1 PROVE g[n + 1] = g[n] + s[n + 1]
    OBVIOUS
  <2>1. n + 1 \in 1..N /\ (n + 1) - 1 = n
    BY <1>0
  <2> QED
    BY <1>5, <2>1
<1>6. g \in [0..N -> Int]
  <2> DEFINE Q == {n \in Nat : n <= N => g[n] \in Int}
  <2>1. 0..N \subseteq Q
    <3>1. 0 \in Q
      BY <1>5
    <3>2. ASSUME NEW n \in Nat, n \in Q, n < N PROVE n + 1 \in Q
      <4>1. g[n + 1] = g[n] + s[n + 1]
        BY <1>0, <1>7, <3>2
      <4> QED
        BY <1>0, <3>2, <4>1
    <3>3. Q \subseteq Nat
      OBVIOUS
    <3> HIDE DEF Q
    <3> QED
      BY <1>0, <3>1, <3>2, <3>3, NumbersUpTo
  <2>2. g = [n \in 0..N |-> g[n]]
    BY <1>4
  <2> QED
    BY <2>1, <2>2
<1> QED
  BY <1>3, <1>5, <1>6, <1>7 DEF Sums, N

LEMMA TotalMonotone ==
  ASSUME NEW r \in Seq(Int), NEW s \in Seq(Int), Len(r) = Len(s), \A i \in 1..Len(s) : r[i] <= s[i]
  PROVE  Total(r) \in Int /\ Total(s) \in Int /\ Total(r) <= Total(s)
<1>1. PICK g : Sums(g, r) /\ Total(r) = g[Len(r)]
  BY TotalIsSum
<1>2. PICK h : Sums(h, s) /\ Total(s) = h[Len(s)]
  BY TotalIsSum
<1> DEFINE N == Len(s)
           P == {n \in Nat : n <= N => g[n] <= h[n]}
<1>3. N \in Nat /\ \A n \in 1..N : r[n] \in Int /\ s[n] \in Int /\ r[n] <= s[n]
  OBVIOUS
<1>4. 0..N \subseteq P
  <2>1. 0 \in P
    BY <1>1, <1>2 DEF Sums
  <2>2. ASSUME NEW n \in Nat, n \in P, n < N PROVE n + 1 \in P
    <3>1. g[n + 1] = g[n] + r[n + 1] /\ h[n + 1] = h[n] + s[n + 1] /\ g[n] \in Int /\ h[n] \in Int
      BY <1>1, <1>2, <1>3, <2>2 DEF Sums
    <3> QED
      BY <1>3, <2>2, <3>1
  <2>3. P \subseteq Nat
    OBVIOUS
  <2> HIDE DEF P
  <2> QED
    BY <1>3, <2>1, <2>2, <2>3, NumbersUpTo
<1> QED
  BY <1>1, <1>2, <1>3, <1>4 DEF Sums

LEMMA TotalNat ==
  ASSUME NEW s \in Seq(Nat)
  PROVE  Total(s) \in Nat
<1> DEFINE z == [i \in 1..Len(s) |-> 0]
<1>1. s \in Seq(Int) /\ z \in Seq(Int) /\ Len(z) = Len(s) /\ \A i \in 1..Len(s) : z[i] <= s[i] /\ z[i] = 0
  OBVIOUS
<1>2. Total(z) <= Total(s) /\ Total(z) \in Int /\ Total(s) \in Int
  <2> HIDE DEF z
  <2> QED BY <1>1, TotalMonotone
<1>3. PICK h : Sums(h, z) /\ Total(z) = h[Len(z)]
  <2> HIDE DEF z
  <2> QED BY <1>1, TotalIsSum
<1> DEFINE P == {n \in Nat : n <= Len(s) => h[n] = 0}
<1>4. 0..Len(s) \subseteq P
  <2>1. 0 \in P
    BY <1>3 DEF Sums
  <2>2. ASSUME NEW n \in Nat, n \in P, n < Len(s) PROVE n + 1 \in P
    <3>1. h[n + 1] = h[n] + z[n + 1] /\ h[n] = 0
      BY <1>1, <1>3, <2>2 DEF Sums
    <3> QED
      BY <1>1, <2>2, <3>1
  <2>3. P \subseteq Nat /\ Len(s) \in Nat
    OBVIOUS
  <2> HIDE DEF P, z
  <2> QED
    BY <2>1, <2>2, <2>3, NumbersUpTo
<1> QED
  BY <1>1, <1>2, <1>3, <1>4

-----------------------------------------------------------------------------
(* Typed data and back.                                                     *)

\* The fields of a transaction of c.
Fields(kind, given, c) == [x \in Struct[kind] |-> IF x \in given THEN <<c, x>> ELSE Zero]

Unsigned(kind, f, b, p) == [kind |-> kind, f |-> f, block |-> b, price |-> p]

LEMMA UnsignedParts ==
  ASSUME NEW kind, NEW f, NEW b, NEW p
  PROVE  /\ Unsigned(kind, f, b, p).kind = kind /\ Unsigned(kind, f, b, p).f = f
         /\ Unsigned(kind, f, b, p).block = b /\ Unsigned(kind, f, b, p).price = p
BY DEF Unsigned

LEMMA WithBlock ==
  ASSUME NEW kind, NEW f, NEW b0, NEW p0, NEW b
  PROVE  [Unsigned(kind, f, b0, p0) EXCEPT !.block = b] = Unsigned(kind, f, b, p0)
<1> DEFINE r == Unsigned(kind, f, b0, p0)
           s == [r EXCEPT !.block = b]
<1>1. /\ DOMAIN r = {"kind", "f", "block", "price"}
      /\ r.kind = kind /\ r.f = f /\ r.block = b0 /\ r.price = p0
  BY DEF Unsigned
<1> HIDE DEF r
<1>2. /\ DOMAIN s = {"kind", "f", "block", "price"} /\ s = [x \in DOMAIN s |-> s[x]]
      /\ s.kind = kind /\ s.f = f /\ s.block = b /\ s.price = p0
  BY <1>1
<1> HIDE DEF s
<1>3. s = Unsigned(kind, f, b, p0)
  BY <1>2 DEF Unsigned
<1> QED
  BY <1>3 DEF s, r

LEMMA WithPrice ==
  ASSUME NEW kind, NEW f, NEW b0, NEW p0, NEW p
  PROVE  [Unsigned(kind, f, b0, p0) EXCEPT !.price = p] = Unsigned(kind, f, b0, p)
<1> DEFINE r == Unsigned(kind, f, b0, p0)
           s == [r EXCEPT !.price = p]
<1>1. /\ DOMAIN r = {"kind", "f", "block", "price"}
      /\ r.kind = kind /\ r.f = f /\ r.block = b0 /\ r.price = p0
  BY DEF Unsigned
<1> HIDE DEF r
<1>2. /\ DOMAIN s = {"kind", "f", "block", "price"} /\ s = [x \in DOMAIN s |-> s[x]]
      /\ s.kind = kind /\ s.f = f /\ s.block = b0 /\ s.price = p
  BY <1>1
<1> HIDE DEF s
<1>3. s = Unsigned(kind, f, b0, p)
  BY <1>2 DEF Unsigned
<1> QED
  BY <1>3 DEF s, r

LEMMA FilledIs ==
  ASSUME NEW kind, NEW given, NEW c
  PROVE  /\ Filled(kind, given, c) = Unsigned(kind, Fields(kind, given, c), 0, 0)
BY DEF Filled, Unsigned, Fields

LEMMA FilledWithBlock ==
  ASSUME NEW kind, NEW given, NEW c, NEW b
  PROVE  [Filled(kind, given, c) EXCEPT !.block = b] = Unsigned(kind, Fields(kind, given, c), b, 0)
<1> DEFINE f == Fields(kind, given, c)
           z == 0
           u == Filled(kind, given, c)
<1>1. u = Unsigned(kind, f, z, z)
  BY FilledIs
<1> HIDE DEF f, z, u
<1>2. [u EXCEPT !.block = b] = Unsigned(kind, f, b, z)
  BY <1>1, WithBlock
<1> QED
  BY <1>2 DEF f, z, u

LEMMA Kinds ==
  Kind = {"set", "transfer", "stake", "unstake", "register", "refresh", "proof", "govern",
          "claim", "vote", "proposal", "addUser"}
BY DEF Kind, Struct

LEMMA FieldsType ==
  ASSUME NEW kind \in Kind, NEW given, NEW c \in Client
  PROVE  Fields(kind, given, c) \in [Struct[kind] -> Value]
<1>1. \A x \in Struct[kind] : <<c, x>> \in Value /\ Zero \in Value
  BY DEF Value, Field
<1> QED
  BY <1>1 DEF Fields

\* Each name is read into the field that it was written from.
ReadsAsWritten(kind, names, fields) ==
    /\ kind \in DOMAIN Parse /\ Parse[kind] = fields
    /\ Message[kind] = [primary |-> kind, names |-> names]
    /\ \A n \in DOMAIN names : names[n] \in Struct[kind]
    /\ DOMAIN fields \subseteq Struct[kind]
    /\ \A x \in DOMAIN fields : fields[x] \in DOMAIN names /\ names[fields[x]] = x

LEMMA ReadsBack ==
  ASSUME NEW kind \in Kind, NEW names, NEW fields, ReadsAsWritten(kind, names, fields),
         NEW f, NEW b, NEW p, NEW g,
         g = [x \in Struct[kind] |-> IF x \in DOMAIN fields THEN f[x] ELSE Zero]
  PROVE  ParseTypedData(TypedDataOf(Unsigned(kind, f, b, p))) = <<Unsigned(kind, g, b, p)>>
<1> DEFINE u == Unsigned(kind, f, b, p)
           td == TypedDataOf(u)
           m == [n \in DOMAIN names |-> f[names[n]]]
<1>1. td = [primary |-> kind, block |-> b, price |-> p, message |-> m]
  <2>1. Message[kind].primary = kind /\ Message[kind].names = names
    BY DEF ReadsAsWritten
  <2>2. Message[u.kind].primary = kind /\ Message[u.kind].names = names /\ u.f = f /\ u.block = b /\ u.price = p
    BY <2>1, UnsignedParts
  <2> HIDE DEF u
  <2> QED
    BY <2>2 DEF TypedDataOf
<1>2. td.primary = kind /\ td.block = b /\ td.price = p /\ td.message = m
  <2> HIDE DEF m, td
  <2> QED BY <1>1
<1>3. kind \in DOMAIN Parse /\ Parse[kind] = fields /\ DOMAIN td.message = DOMAIN names
      /\ \A x \in DOMAIN fields : Parse[kind][x] \in DOMAIN td.message
  <2> HIDE DEF td
  <2> QED BY <1>2 DEF ReadsAsWritten
<1>4. ParsedFields(td) = [x \in Struct[kind] |-> IF x \in DOMAIN fields THEN f[x] ELSE Zero]
  <2>1. \A x \in DOMAIN fields : td.message[fields[x]] = f[x]
    <3> HIDE DEF td
    <3> QED BY <1>2 DEF ReadsAsWritten
  <2> HIDE DEF td
  <2> QED
    BY <1>2, <1>3, <2>1 DEF ParsedFields
<1> HIDE DEF td
<1>5. ParseTypedData(td) = <<[kind |-> td.primary, f |-> ParsedFields(td), block |-> td.block, price |-> td.price]>>
  BY <1>2, <1>3 DEF ParseTypedData
<1>6. ParseTypedData(td) = <<[kind |-> kind, f |-> ParsedFields(td), block |-> b, price |-> p]>>
  BY <1>2, <1>5, Zenon
<1> QED
  BY <1>4, <1>6, Zenon DEF td, u, Unsigned

LEMMA InverseTables ==
  /\ ReadsAsWritten("set", SetMessage.names, ParseSet) /\ DOMAIN ParseSet = Struct["set"]
  /\ ReadsAsWritten("transfer", TransferMessage.names, ParseTransfer) /\ DOMAIN ParseTransfer = Struct["transfer"]
  /\ ReadsAsWritten("stake", StakeMessage.names, ParseStake) /\ DOMAIN ParseStake = Struct["stake"]
  /\ ReadsAsWritten("register", RegisterMessage.names, ParseRegister)
  /\ DOMAIN ParseRegister = Struct["register"]
  /\ ReadsAsWritten("refresh", RefreshMessage.names, ParseRefresh) /\ DOMAIN ParseRefresh = Struct["refresh"]
  /\ ReadsAsWritten("proof", ProofMessage.names, ParseProof) /\ DOMAIN ParseProof = Struct["proof"]
  /\ ReadsAsWritten("govern", GovernMessage.names, ParseGovern) /\ DOMAIN ParseGovern = Struct["govern"]
  /\ ReadsAsWritten("proposal", ProposalMessage.names, ParseProposal)
  /\ DOMAIN ParseProposal = Struct["proposal"] \ {"ActionType"}
<1>1. ReadsAsWritten("set", SetMessage.names, ParseSet) /\ DOMAIN ParseSet = Struct["set"]
  BY DEF ReadsAsWritten, Parse, Message, Struct, SetMessage, ParseSet
<1>2. ReadsAsWritten("transfer", TransferMessage.names, ParseTransfer) /\ DOMAIN ParseTransfer = Struct["transfer"]
  BY DEF ReadsAsWritten, Parse, Message, Struct, TransferMessage, ParseTransfer
<1>3. ReadsAsWritten("stake", StakeMessage.names, ParseStake) /\ DOMAIN ParseStake = Struct["stake"]
  BY DEF ReadsAsWritten, Parse, Message, Struct, StakeMessage, ParseStake
<1>4. ReadsAsWritten("register", RegisterMessage.names, ParseRegister) /\ DOMAIN ParseRegister = Struct["register"]
  BY DEF ReadsAsWritten, Parse, Message, Struct, RegisterMessage, ParseRegister
<1>5. ReadsAsWritten("refresh", RefreshMessage.names, ParseRefresh) /\ DOMAIN ParseRefresh = Struct["refresh"]
  BY DEF ReadsAsWritten, Parse, Message, Struct, RefreshMessage, ParseRefresh
<1>6. ReadsAsWritten("proof", ProofMessage.names, ParseProof) /\ DOMAIN ParseProof = Struct["proof"]
  BY DEF ReadsAsWritten, Parse, Message, Struct, ProofMessage, ParseProof
<1>7. ReadsAsWritten("govern", GovernMessage.names, ParseGovern) /\ DOMAIN ParseGovern = Struct["govern"]
  BY DEF ReadsAsWritten, Parse, Message, Struct, GovernMessage, ParseGovern
<1>8. ReadsAsWritten("proposal", ProposalMessage.names, ParseProposal) /\ DOMAIN ParseProposal = Struct["proposal"] \ {"ActionType"}
  BY DEF ReadsAsWritten, Parse, Message, Struct, ProposalMessage, ParseProposal
<1> QED
  BY <1>1, <1>2, <1>3, <1>4, <1>5, <1>6, <1>7, <1>8

\* A kind whose message lacks a name is not read at all.
LEMMA NotReadBack ==
  ASSUME NEW kind \in {"unstake", "claim"}, NEW f, NEW b, NEW p
  PROVE  ParseTypedData(TypedDataOf(Unsigned(kind, f, b, p))) = <<>>
<1> DEFINE u == Unsigned(kind, f, b, p)
<1>1. u.kind = kind
  BY UnsignedParts
<1>2. CASE kind = "unstake"
  <2>1. /\ Message["unstake"].primary = "unstake"
        /\ "endTime" \notin DOMAIN Message["unstake"].names
    BY DEF Message, UnStakeMessage
  <2>2. TypedDataOf(u).primary = "unstake" /\ "endTime" \notin DOMAIN TypedDataOf(u).message
    <3> HIDE DEF u
    <3> QED
      BY <1>1, <1>2, <2>1 DEF TypedDataOf
  <2>3. "EndTime" \in DOMAIN Parse["unstake"] /\ Parse["unstake"]["EndTime"] = "endTime"
    BY DEF Parse, ParseUnStake
  <2> QED
    BY <2>2, <2>3 DEF ParseTypedData
<1>3. CASE kind = "claim"
  <2>1. /\ Message["claim"].primary = "claim"
        /\ "stakeAmount" \notin DOMAIN Message["claim"].names
    BY DEF Message, ClaimMessage
  <2>2. TypedDataOf(u).primary = "claim" /\ "stakeAmount" \notin DOMAIN TypedDataOf(u).message
    <3> HIDE DEF u
    <3> QED
      BY <1>1, <1>3, <2>1 DEF TypedDataOf
  <2>3. "RewardAmount" \in DOMAIN Parse["claim"] /\ Parse["claim"]["RewardAmount"] = "stakeAmount"
    BY DEF Parse, ParseClaim
  <2> QED
    BY <2>2, <2>3 DEF ParseTypedData
<1> QED
  BY <1>2, <1>3

\* What SuggestedFee describes and IssueTx reads is the transaction asked for, unless it
\* is a proposal, which loses its type.
LEMMA TypedRoundTrip ==
  ASSUME NEW kind \in DOMAIN Decoded, HasBaseTx(kind), NEW c \in Client, NEW b, NEW p,
         NEW td, td = TypedDataOf(Unsigned(kind, Fields(kind, Decoded[kind], c), b, p)),
         ParseTypedData(td) # <<>>
  PROVE  LET u == ParseTypedData(td)[1] IN
         /\ u = Unsigned(kind, u.f, b, p) /\ kind \in Kind /\ u.f \in [Struct[kind] -> Value]
         /\ IF kind = "proposal" THEN u.f["ActionType"] = Zero
            ELSE td = TypedDataOf(u) /\ u.f = Fields(kind, Struct[kind], c)
<1> DEFINE f == Fields(kind, Decoded[kind], c)
           g(fields) == [x \in Struct[kind] |-> IF x \in DOMAIN fields THEN f[x] ELSE Zero]
<1>1. /\ DOMAIN Decoded = {"set", "transfer", "stake", "unstake", "register", "refresh", "proof",
                           "govern", "claim", "vote", "proposal"}
      /\ \A k \in {"set", "transfer", "stake", "register", "refresh", "proof", "govern"} :
            Decoded[k] = Struct[k]
  BY DEF Decoded, Struct
<1>2. kind \in Kind
  BY <1>1, Kinds
<1>3. \A names, fields : ReadsAsWritten(kind, names, fields) =>
         ParseTypedData(td) = <<Unsigned(kind, g(fields), b, p)>>
  <2> SUFFICES ASSUME NEW names, NEW fields, ReadsAsWritten(kind, names, fields)
               PROVE  ParseTypedData(td) = <<Unsigned(kind, g(fields), b, p)>>
    OBVIOUS
  <2>1. ParseTypedData(TypedDataOf(Unsigned(kind, f, b, p))) = <<Unsigned(kind, g(fields), b, p)>>
    <3> DEFINE h == g(fields)
    <3>1. h = [x \in Struct[kind] |-> IF x \in DOMAIN fields THEN f[x] ELSE Zero]
      OBVIOUS
    <3> HIDE DEF f, h
    <3>2. ParseTypedData(TypedDataOf(Unsigned(kind, f, b, p))) = <<Unsigned(kind, h, b, p)>>
      BY <1>2, <3>1, ReadsBack
    <3> QED
      BY <3>2 DEF h
  <2> QED
    BY <2>1, Zenon
<1>4. CASE kind = "proposal"
  <2>1. ParseTypedData(td) = <<Unsigned(kind, g(ParseProposal), b, p)>>
    BY <1>3, <1>4, InverseTables
  <2>2. "ActionType" \in Struct[kind] /\ "ActionType" \notin DOMAIN ParseProposal
    BY <1>4 DEF Struct, ParseProposal
  <2>3. g(ParseProposal)["ActionType"] = Zero /\ g(ParseProposal) \in [Struct[kind] -> Value]
    <3>1. f \in [Struct[kind] -> Value] /\ Zero \in Value
      BY <1>2, FieldsType DEF Value
    <3> HIDE DEF f
    <3> QED
      BY <2>2, <3>1
  <2> HIDE DEF g
  <2>4. ParseTypedData(td)[1] = Unsigned(kind, g(ParseProposal), b, p)
    BY <2>1
  <2> QED
    BY <1>2, <1>4, <2>3, <2>4, UnsignedParts
<1>5. CASE kind \in {"set", "transfer", "stake", "register", "refresh", "proof", "govern"}
  <2>1. PICK names, fields : ReadsAsWritten(kind, names, fields) /\ DOMAIN fields = Struct[kind]
    BY <1>5, InverseTables
  <2>2. g(fields) = f
    BY <2>1 DEF Fields
  <2>3. ParseTypedData(td) = <<Unsigned(kind, f, b, p)>>
    BY <1>3, <2>1, <2>2
  <2>4. ParseTypedData(td)[1] = Unsigned(kind, f, b, p)
    BY <2>3
  <2>5. f = Fields(kind, Struct[kind], c) /\ kind # "proposal"
    BY <1>1, <1>5
  <2>6. f \in [Struct[kind] -> Value]
    BY <1>2, FieldsType
  <2>7. td = TypedDataOf(Unsigned(kind, f, b, p))
    OBVIOUS
  <2> HIDE DEF f, g
  <2> QED
    BY <1>2, <2>4, <2>5, <2>6, <2>7, UnsignedParts
<1> QED
  BY <1>1, <1>4, <1>5, NotReadBack DEF HasBaseTx

-----------------------------------------------------------------------------
(* Types.                                                                   *)

\* A transaction before and after it is signed, and a block.
UnsignedTx ==
    UNION {[kind : {k}, f : [Struct[k] -> Value], block : Nat, price : Nat] : k \in Kind}

Tx == [u : UnsignedTx, by : Client \cup {Stranger}, digest : {TypedDataOf(u) : u \in UnsignedTx},
       sig : {"signed"} \cup Recoded]

Block == [time : Nat, price : Nat, cost : Nat, units : Nat, txs : Seq(Tx)]

LEMMA FeeUnitsRange ==
  ASSUME NEW u
  PROVE  FeeUnits(u) \in 0..2
BY DEF FeeUnits

LEMMA UnsignedType ==
  ASSUME NEW kind \in Kind, NEW f \in [Struct[kind] -> Value], NEW b \in Nat, NEW p \in Nat
  PROVE  Unsigned(kind, f, b, p) \in UnsignedTx
<1>1. Unsigned(kind, f, b, p) \in [kind : {kind}, f : [Struct[kind] -> Value], block : Nat, price : Nat]
  BY DEF Unsigned
<1> QED
  BY <1>1 DEF UnsignedTx

LEMMA UnsignedIs ==
  ASSUME NEW u \in UnsignedTx
  PROVE  /\ u.kind \in Kind /\ u.f \in [Struct[u.kind] -> Value] /\ u.block \in Nat /\ u.price \in Nat
         /\ u = Unsigned(u.kind, u.f, u.block, u.price)
<1>1. PICK k \in Kind : u \in [kind : {k}, f : [Struct[k] -> Value], block : Nat, price : Nat]
  BY DEF UnsignedTx
<1> QED
  BY <1>1 DEF Unsigned

LEMMA SignedType ==
  ASSUME NEW u \in UnsignedTx, NEW v \in UnsignedTx, NEW c \in Client \cup {Stranger}
  PROVE  /\ Signed(u, TypedDataOf(v), c) \in Tx
         /\ Signed(u, TypedDataOf(v), c).u = u /\ Signed(u, TypedDataOf(v), c).by = c
         /\ Signed(u, TypedDataOf(v), c).digest = TypedDataOf(v)
BY DEF Signed, Tx

-----------------------------------------------------------------------------
(* What a signature is good for.                                            *)

LEMMA Primaries ==
  \A k \in Kind : Message[k].primary = IF k = "vote" THEN "govern" ELSE k
<1> SUFFICES ASSUME NEW k \in Kind PROVE Message[k].primary = IF k = "vote" THEN "govern" ELSE k
  OBVIOUS
<1>1. CASE k \in {"set", "transfer", "stake", "unstake"}
  BY <1>1 DEF Message, SetMessage, TransferMessage, StakeMessage, UnStakeMessage
<1>2. CASE k \in {"register", "refresh", "proof", "govern"}
  BY <1>2 DEF Message, RegisterMessage, RefreshMessage, ProofMessage, GovernMessage
<1>3. CASE k \in {"claim", "vote", "proposal", "addUser"}
  BY <1>3 DEF Message, ClaimMessage, VoteMessage, ProposalMessage, AddUserMessage
<1> QED
  BY <1>1, <1>2, <1>3, Kinds

\* Every field is under a name of the message, but the end time of an unstake.
Told(k) ==
    \A x \in Struct[k] :
        \/ k = "unstake" /\ x = "EndTime"
        \/ \E n \in DOMAIN Message[k].names : Message[k].names[n] = x

LEMMA AllTold ==
  \A k \in Kind : Told(k)
<1>1. Told("set")
  BY DEF Told, Message, Struct, SetMessage
<1>2. Told("transfer")
  BY DEF Told, Message, Struct, TransferMessage
<1>3. Told("stake")
  BY DEF Told, Message, Struct, StakeMessage
<1>4. Told("unstake")
  BY DEF Told, Message, Struct, UnStakeMessage
<1>5. Told("register")
  BY DEF Told, Message, Struct, RegisterMessage
<1>6. Told("refresh")
  BY DEF Told, Message, Struct, RefreshMessage
<1>7. Told("proof")
  BY DEF Told, Message, Struct, ProofMessage
<1>8. Told("govern")
  BY DEF Told, Message, Struct, GovernMessage
<1>9. Told("claim")
  BY DEF Told, Message, Struct, ClaimMessage
<1>10. Told("vote")
  BY DEF Told, Message, Struct, VoteMessage
<1>11. Told("proposal")
  BY DEF Told, Message, Struct, ProposalMessage
<1>12. Told("addUser")
  BY DEF Told, Message, Struct, AddUserMessage
<1> QED
  BY <1>1, <1>2, <1>3, <1>4, <1>5, <1>6, <1>7, <1>8, <1>9, <1>10, <1>11, <1>12, Kinds

LEMMA NamesAreFields ==
  \A k \in Kind : \A n \in DOMAIN Message[k].names : Message[k].names[n] \in Struct[k]
<1> SUFFICES ASSUME NEW k \in Kind PROVE \A n \in DOMAIN Message[k].names : Message[k].names[n] \in Struct[k]
  OBVIOUS
<1>1. CASE k \in {"set", "transfer", "stake", "unstake"}
  BY <1>1 DEF Message, Struct, SetMessage, TransferMessage, StakeMessage, UnStakeMessage
<1>2. CASE k \in {"register", "refresh"}
  BY <1>2 DEF Message, Struct, RegisterMessage, RefreshMessage
<1>3. CASE k \in {"proof", "govern"}
  BY <1>3 DEF Message, Struct, ProofMessage, GovernMessage
<1>4. CASE k \in {"claim", "vote"}
  BY <1>4 DEF Message, Struct, ClaimMessage, VoteMessage
<1>5. CASE k \in {"proposal", "addUser"}
  BY <1>5 DEF Message, Struct, ProposalMessage, AddUserMessage
<1> QED
  BY <1>1, <1>2, <1>3, <1>4, <1>5, Kinds

\* Two transactions that are described alike differ at most in what their description
\* leaves out.
LEMMA DescribedAlike ==
  ASSUME NEW u \in UnsignedTx, NEW v \in UnsignedTx, TypedDataOf(u) = TypedDataOf(v)
  PROVE  /\ u.kind = v.kind \/ {u.kind, v.kind} = {"vote", "govern"}
         /\ Struct[u.kind] = Struct[v.kind] /\ u.block = v.block /\ u.price = v.price
         /\ \A x \in Struct[u.kind] : u.f[x] = v.f[x] \/ (u.kind = "unstake" /\ x = "EndTime")
<1> DEFINE k == u.kind
           l == v.kind
           names == Message[k].names
           m == [n \in DOMAIN names |-> u.f[names[n]]]
           w == [n \in DOMAIN Message[l].names |-> v.f[Message[l].names[n]]]
<1>1. k \in Kind /\ l \in Kind
  BY UnsignedIs
<1>2. /\ TypedDataOf(u).primary = Message[k].primary /\ TypedDataOf(u).block = u.block
      /\ TypedDataOf(u).price = u.price /\ TypedDataOf(u).message = m
      /\ TypedDataOf(v).primary = Message[l].primary /\ TypedDataOf(v).block = v.block
      /\ TypedDataOf(v).price = v.price /\ TypedDataOf(v).message = w
  BY DEF TypedDataOf
<1> HIDE DEF m, w, k, l
<1>3. Message[k].primary = Message[l].primary /\ u.block = v.block /\ u.price = v.price /\ m = w
  BY <1>2
<1>4. k = l \/ (k \in {"vote", "govern"} /\ l \in {"vote", "govern"})
  BY <1>1, <1>3, Primaries
<1>5. Struct[k] = Struct[l] /\ Message[l].names = names
  <2>1. Struct["vote"] = Struct["govern"] /\ Message["vote"].names = Message["govern"].names
    BY DEF Struct, Message, VoteMessage, GovernMessage
  <2> QED
    BY <1>4, <2>1
<1>6. ASSUME NEW x \in Struct[k], ~(k = "unstake" /\ x = "EndTime") PROVE u.f[x] = v.f[x]
  <2>1. PICK n \in DOMAIN names : names[n] = x
    BY <1>1, <1>6, AllTold DEF Told
  <2> HIDE DEF names
  <2>2. m[n] = u.f[x] /\ w[n] = v.f[x]
    BY <1>5, <2>1 DEF m, w
  <2> QED
    BY <1>3, <2>2
<1>7. k = l \/ {k, l} = {"vote", "govern"}
  BY <1>4
<1> QED
  BY <1>3, <1>5, <1>6, <1>7 DEF k, l

\* What c asked for, with the given fields filled in.
Request(c, kind, given) == [by |-> c, kind |-> kind, f |-> Fields(kind, given, c)]

\* One of the requests A of c is for u.
Agreed(c, u, A) == \E a \in A : a.by = c /\ AsSigned(a, u)

SignatureOf(t) == [by |-> t.by, digest |-> t.digest]

\* A client's transaction is signed by it and asked for.
Meant(t, A, S) ==
    t.by \in Client => SignatureOf(t) \in S /\ Sender(t) = t.by /\ Agreed(t.by, t.u, A)

\* A signature is for something asked for, or for a proposal that cannot be executed.
Backed(s, A) ==
    /\ s.by \in Client /\ s = [by |-> s.by, digest |-> s.digest]
    /\ \E v \in UnsignedTx :
         /\ s.digest = TypedDataOf(v)
         /\ (v.kind = "proposal" /\ v.f["ActionType"] = Zero) \/ Agreed(s.by, v, A)

LEMMA RequestAgreed ==
  ASSUME NEW c, NEW kind, NEW given, NEW A, Request(c, kind, given) \in A,
         NEW u, u.kind = kind, u.f = Fields(kind, given, c)
  PROVE  Agreed(c, u, A)
<1> DEFINE a == Request(c, kind, given)
<1>1. a.by = c /\ a.kind = u.kind /\ a.f = u.f
  BY DEF Request
<1> HIDE DEF a
<1>2. AsSigned(a, u)
  BY <1>1 DEF AsSigned
<1> QED
  BY <1>1, <1>2 DEF Agreed, a

\* Whatever else the signature is good for is as much asked for.
LEMMA AgreedAlike ==
  ASSUME NEW u \in UnsignedTx, NEW v \in UnsignedTx, TypedDataOf(u) = TypedDataOf(v),
         NEW c, NEW A, Agreed(c, v, A)
  PROVE  Agreed(c, u, A)
<1>1. PICK a \in A : a.by = c /\ AsSigned(a, v)
  BY DEF Agreed
<1>2. /\ u.kind = v.kind \/ {u.kind, v.kind} = {"vote", "govern"}
      /\ Struct[u.kind] = Struct[v.kind]
      /\ \A x \in Struct[u.kind] : u.f[x] = v.f[x] \/ (u.kind = "unstake" /\ x = "EndTime")
  BY DescribedAlike
<1>3. a.kind = v.kind \/ {a.kind, v.kind} = {"vote", "govern"}
  BY <1>1 DEF AsSigned
<1>4. a.kind = u.kind \/ {a.kind, u.kind} = {"vote", "govern"}
  BY <1>2, <1>3
<1>5. ASSUME NEW x \in Struct[u.kind]
      PROVE  a.f[x] = u.f[x] \/ (u.kind = "unstake" /\ x = "EndTime")
  <2>1. a.f[x] = v.f[x] \/ (v.kind = "unstake" /\ x = "EndTime")
    BY <1>1, <1>2 DEF AsSigned
  <2>2. v.kind = "unstake" => u.kind = "unstake"
    BY <1>2
  <2> QED
    BY <1>2, <2>1, <2>2
<1>6. AsSigned(a, u)
  BY <1>4, <1>5 DEF AsSigned
<1> QED
  BY <1>1, <1>6 DEF Agreed

\* What SuggestedFee describes is backed by the request, when it is signed.
LEMMA DescribedBacked ==
  ASSUME NEW kind \in DOMAIN Decoded, HasBaseTx(kind), NEW c \in Client, NEW b \in Nat, NEW p \in Nat,
         NEW A, Request(c, kind, Struct[kind]) \in A,
         NEW s, s = [by |-> c, digest |-> s.digest], s.digest = TypedDataOf(Unsigned(kind, Fields(kind, Decoded[kind], c), b, p))
  PROVE  Backed(s, A)
<1> DEFINE f == Fields(kind, Decoded[kind], c)
           v == Unsigned(kind, f, b, p)
<1>0. s.by = c /\ s = [by |-> s.by, digest |-> s.digest]
  OBVIOUS
<1>1. /\ DOMAIN Decoded = {"set", "transfer", "stake", "unstake", "register", "refresh", "proof",
                           "govern", "claim", "vote", "proposal"}
      /\ \A k \in {"set", "transfer", "stake", "register", "refresh", "proof", "govern", "claim", "vote"} :
            Decoded[k] = Struct[k]
      /\ "ActionType" \notin Decoded["proposal"] /\ "ActionType" \in Struct["proposal"]
      /\ \A x \in Struct["unstake"] : x \in Decoded["unstake"] \/ x = "EndTime"
  BY DEF Decoded, Struct
<1>2. kind \in Kind
  BY <1>1, Kinds
<1>3. v \in UnsignedTx /\ v.kind = kind /\ v.f = f
  BY <1>2, FieldsType, UnsignedType, UnsignedParts
<1>4. CASE kind = "proposal"
  <2>1. f["ActionType"] = Zero
    BY <1>1, <1>4 DEF Fields
  <2> HIDE DEF v, f
  <2> QED
    BY <1>0, <1>3, <1>4, <2>1 DEF Backed, v, f
<1>5. CASE kind # "proposal"
  <2> DEFINE a == Request(c, kind, Struct[kind])
  <2>1. a.by = c /\ a.kind = kind /\ a.f = Fields(kind, Struct[kind], c)
    BY DEF Request
  <2>2. ASSUME NEW x \in Struct[kind]
        PROVE  Fields(kind, Struct[kind], c)[x] = f[x] \/ (kind = "unstake" /\ x = "EndTime")
    <3>1. x \in Decoded[kind] \/ (kind = "unstake" /\ x = "EndTime")
      BY <1>1, <1>5
    <3> QED
      BY <3>1 DEF Fields
  <2> HIDE DEF a, f, v
  <2>3. AsSigned(a, v)
    BY <1>3, <2>1, <2>2 DEF AsSigned
  <2>4. Agreed(c, v, A)
    BY <2>1, <2>3 DEF Agreed, a
  <2> QED
    BY <1>0, <1>3, <2>4 DEF Backed, v, f
<1> QED
  BY <1>4, <1>5

-----------------------------------------------------------------------------
(* The loop of BuildBlock.                                                  *)

Fill == [txs : Seq(Tx), units : Nat, large : SUBSET Tx]

FillStep(b, t, bad) ==
    IF b.units + FeeUnits(t.u) > MaxBlockSize THEN [b EXCEPT !.large = @ \cup {t}]
    ELSE IF t \in bad THEN b
    ELSE [b EXCEPT !.txs = Append(@, t), !.units = @ + FeeUnits(t.u)]

LEMMA FillStepParts ==
  ASSUME NEW b \in Fill, NEW t \in Tx, NEW bad
  PROVE  LET s == FillStep(b, t, bad) IN
         /\ s \in Fill
         /\ \/ s.txs = b.txs /\ s.large \subseteq b.large \cup {t}
            \/ s.txs = Append(b.txs, t) /\ s.large = b.large /\ t \notin bad
<1>0. FeeUnits(t.u) \in Nat /\ b.units \in Nat /\ MaxBlockSize \in Nat
  <2>1. FeeUnits(t.u) \in 0..2
    BY FeeUnitsRange, Zenon
  <2>2. MaxBlockSize \in Nat
    BY IssueAssumption
  <2> QED
    BY <2>1, <2>2 DEF Fill
<1>1. CASE b.units + FeeUnits(t.u) > MaxBlockSize
  BY <1>1 DEF FillStep, Fill
<1>2. CASE ~(b.units + FeeUnits(t.u) > MaxBlockSize) /\ t \in bad
  BY <1>2 DEF FillStep, Fill
<1>3. CASE ~(b.units + FeeUnits(t.u) > MaxBlockSize) /\ t \notin bad
  <2> DEFINE w == Append(b.txs, t)
             x == b.units + FeeUnits(t.u)
  <2>1. w \in Seq(Tx) /\ x \in Nat
    BY <1>0 DEF Fill
  <2>2. FillStep(b, t, bad) = [b EXCEPT !.txs = w, !.units = x]
    BY <1>3 DEF FillStep
  <2> HIDE DEF w, x
  <2>3. /\ [b EXCEPT !.txs = w, !.units = x] \in Fill
        /\ [b EXCEPT !.txs = w, !.units = x].txs = w /\ [b EXCEPT !.txs = w, !.units = x].large = b.large
    BY <2>1 DEF Fill
  <2> QED
    BY <1>3, <2>2, <2>3 DEF w
<1> QED
  BY <1>1, <1>2, <1>3

\* What the loop takes is of the order, good, and none twice; what it leaves is of the
\* order.
LEMMA FillingResult ==
  ASSUME NEW order \in Seq(Tx), \A i, j \in 1..Len(order) : i # j => order[i] # order[j], NEW bad
  PROVE  LET b == Filling(order, bad) IN
         /\ b \in Fill
         /\ \A t \in b.large : \E i \in 1..Len(order) : t = order[i]
         /\ \A k \in 1..Len(b.txs) : b.txs[k] \notin bad /\ \E i \in 1..Len(order) : b.txs[k] = order[i]
         /\ \A k, l \in 1..Len(b.txs) : k # l => b.txs[k] # b.txs[l]
<1> DEFINE N == Len(order)
           s0 == [txs |-> <<>>, units |-> 0, large |-> {}]
           P(h) == h = [n \in 0..N |-> IF n = 0 THEN s0 ELSE
                          LET b == h[n - 1] IN
                          IF b.units + FeeUnits(order[n].u) > MaxBlockSize
                          THEN [b EXCEPT !.large = @ \cup {order[n]}]
                          ELSE IF order[n] \in bad THEN b
                          ELSE [b EXCEPT !.txs = Append(@, order[n]), !.units = @ + FeeUnits(order[n].u)]]
           round == [n \in 1..N |-> [b \in Fill |-> FillStep(b, order[n], bad)]]
<1>0. N \in Nat /\ \A n \in 1..N : order[n] \in Tx
  OBVIOUS
<1>1. s0 \in Fill /\ s0.txs = <<>> /\ s0.large = {}
  BY DEF Fill
<1>2. \E h : P(h)
  <2>1. round \in [1..N -> [Fill -> Fill]]
    <3>1. \A n \in 1..N : \A b \in Fill : FillStep(b, order[n], bad) \in Fill
      BY <1>0, FillStepParts
    <3> QED
      BY <3>1
  <2>2. PICK h \in [0..N -> Fill] : Runs(h, N, s0, round)
    <3> HIDE DEF round, N, s0
    <3> QED
      BY <1>0, <1>1, <2>1, LoopRuns
  <2>3. ASSUME NEW n \in 1..N PROVE h[n] = FillStep(h[n - 1], order[n], bad)
    <3>1. n - 1 \in 0..N /\ h[n - 1] \in Fill
      BY <1>0
    <3>2. h[n] = round[n][h[n - 1]]
      <4> HIDE DEF N, round
      <4> QED
        BY <2>2 DEF Runs
    <3>3. round[n] = [b \in Fill |-> FillStep(b, order[n], bad)]
      OBVIOUS
    <3> HIDE DEF round
    <3> QED
      BY <3>1, <3>2, <3>3
  <2>4. P(h)
    <3> HIDE DEF N, round, s0
    <3>1. h = [n \in 0..N |-> h[n]] /\ h[0] = s0
      BY <2>2 DEF Runs
    <3>2. ASSUME NEW n \in 0..N PROVE h[n] = IF n = 0 THEN s0 ELSE FillStep(h[n - 1], order[n], bad)
      <4>1. n # 0 => n \in 1..N
        BY <1>0
      <4> QED
        BY <2>3, <3>1, <4>1
    <3>3. h = [n \in 0..N |-> IF n = 0 THEN s0 ELSE FillStep(h[n - 1], order[n], bad)]
      BY <3>1, <3>2
    <3> QED
      BY <3>3, Zenon DEF FillStep
  <2> QED
    BY <2>4
<1>3. P(CHOOSE h : P(h))
  BY <1>2, Zenon
<1> DEFINE g == CHOOSE h : P(h)
<1>4. Filling(order, bad) = g[N]
  BY DEF Filling
<1>5. P(g)
  BY <1>3
<1> HIDE DEF g
<1>6. g = [n \in 0..N |-> IF n = 0 THEN s0 ELSE FillStep(g[n - 1], order[n], bad)]
  <2> HIDE DEF N, s0
  <2> QED
    BY <1>5, Zenon DEF FillStep
<1> HIDE DEF P, s0, N
<1>7. g[0] = s0 /\ \A n \in 0..N - 1 : g[n + 1] = FillStep(g[n], order[n + 1], bad)
  <2>1. ASSUME NEW n \in 0..N - 1 PROVE g[n + 1] = FillStep(g[n], order[n + 1], bad)
    <3>1. n + 1 \in 0..N /\ (n + 1) - 1 = n /\ n + 1 # 0
      BY <1>0
    <3> QED
      BY <1>6, <3>1
  <2> QED
    BY <1>0, <1>6, <2>1
<1> DEFINE Good(n, b) ==
             /\ b \in Fill
             /\ \A t \in b.large : \E i \in 1..n : t = order[i]
             /\ \A k \in 1..Len(b.txs) : b.txs[k] \notin bad /\ \E i \in 1..n : b.txs[k] = order[i]
             /\ \A k, l \in 1..Len(b.txs) : k # l => b.txs[k] # b.txs[l]
           Q == {n \in Nat : n <= N => Good(n, g[n])}
<1>8. 0..N \subseteq Q
  <2>1. 0 \in Q
    <3>1. Len(s0.txs) = 0
      BY <1>1
    <3> QED
      BY <1>1, <1>7, <3>1
  <2>2. ASSUME NEW n \in Nat, n \in Q, n < N PROVE n + 1 \in Q
    <3> DEFINE b == g[n]
               t == order[n + 1]
               s == g[n + 1]
    <3>1. Good(n, b) /\ t \in Tx /\ s = FillStep(b, t, bad) /\ n + 1 \in 1..N
      BY <1>0, <1>7, <2>2
    <3>2. \A i \in 1..n : i \in 1..n + 1 /\ i \in 1..N /\ order[i] # t
      BY <1>0, <2>2, <3>1 DEF N
    <3> HIDE DEF b, t, s
    <3>3. /\ s \in Fill
          /\ \/ s.txs = b.txs /\ s.large \subseteq b.large \cup {t}
             \/ s.txs = Append(b.txs, t) /\ s.large = b.large /\ t \notin bad
      BY <3>1, FillStepParts
    <3>4. \A x \in s.large : \E i \in 1..n + 1 : x = order[i]
      BY <2>2, <3>1, <3>2, <3>3 DEF t
    <3>5. CASE s.txs = b.txs
      BY <3>1, <3>2, <3>3, <3>4, <3>5 DEF s
    <3>6. CASE s.txs = Append(b.txs, t) /\ t \notin bad
      <4> DEFINE w == b.txs
                 v == s.txs
                 L == Len(w)
      <4>1. w \in Seq(Tx) /\ v = Append(w, t)
        BY <3>1, <3>6 DEF Fill
      <4>2. \A k \in 1..L : w[k] \notin bad /\ w[k] # t /\ \E i \in 1..n + 1 : w[k] = order[i]
        BY <3>1, <3>2
      <4>3. \A k, l \in 1..L : k # l => w[k] # w[l]
        BY <3>1
      <4>6. \E i \in 1..n + 1 : t = order[i]
        BY <2>2 DEF t
      <4> HIDE DEF w, v
      <4>4. L \in Nat /\ Len(v) = L + 1 /\ v[L + 1] = t /\ \A k \in 1..L : v[k] = w[k]
        BY <3>1, <4>1
      <4> HIDE DEF L
      <4>5. \A k \in 1..Len(v) : k \in 1..L \/ k = L + 1
        BY <4>4
      <4>7. \A k \in 1..Len(v) : v[k] \notin bad /\ \E i \in 1..n + 1 : v[k] = order[i]
        BY <3>6, <4>2, <4>4, <4>5, <4>6
      <4>8. \A k, l \in 1..Len(v) : k # l => v[k] # v[l]
        BY <4>2, <4>3, <4>4, <4>5
      <4> QED
        BY <3>3, <3>4, <4>7, <4>8 DEF v, s
    <3> QED
      BY <3>3, <3>5, <3>6
  <2>3. Q \subseteq Nat
    OBVIOUS
  <2> HIDE DEF Q
  <2> QED
    BY <1>0, <2>1, <2>2, <2>3, NumbersUpTo
<1>9. Good(N, g[N])
  BY <1>0, <1>8
<1> QED
  BY <1>4, <1>9 DEF N

-----------------------------------------------------------------------------
(* Numbers.                                                                 *)

LEMMA Numbers ==
  /\ MinPrice \in Nat /\ MaxTime \in Nat /\ MaxBlocks \in Nat /\ MaxRestarts \in Nat
  /\ LookbackWindow \in Nat \ {0} /\ TargetBlockRate \in Nat \ {0} /\ TargetUnits \in Nat \ {0}
  /\ CacheSize \in Nat \ {0} /\ Word \in Nat \ {0}
BY IssueAssumption

LEMMA Division ==
  ASSUME NEW n \in Nat, NEW d \in Nat \ {0}
  PROVE  n \div d \in Nat /\ (n \div d) * d <= n /\ n < (n \div d) * d + d
         /\ n % d \in 0..d - 1 /\ n = (n \div d) * d + (n % d)
OBVIOUS

LEMMA Remainder ==
  ASSUME NEW n \in Nat, NEW d \in Nat \ {0}
  PROVE  n % d \in Nat /\ n % d <= n
<1>1. n \div d \in Nat /\ n % d \in 0..d - 1 /\ n = (n \div d) * d + (n % d)
  BY Division, Zenon
<1>2. (n \div d) * d \in Nat
  BY <1>1
<1> QED
  BY <1>1, <1>2

LEMMA ProductMonotone ==
  ASSUME NEW a \in Nat, NEW b \in Nat, NEW x \in Nat, NEW y \in Nat, a <= x, b <= y
  PROVE  a * b \in Nat /\ x * y \in Nat /\ a * b <= x * y
<1>1. a * b <= x * b
  OBVIOUS
<1>2. x * b <= x * y
  OBVIOUS
<1> QED
  BY <1>1, <1>2

LEMMA DivMonotone ==
  ASSUME NEW m \in Nat, NEW n \in Nat, NEW d \in Nat \ {0}, m <= n
  PROVE  m \div d <= n \div d
<1> DEFINE q == m \div d
           r == n \div d
<1>1. q \in Nat /\ r \in Nat /\ q * d <= m /\ n < r * d + d
  BY Division
<1> HIDE DEF q, r
<1>2. SUFFICES ASSUME r + 1 <= q PROVE FALSE
  BY <1>1 DEF q, r
<1>3. (r + 1) * d <= q * d
  BY <1>1, <1>2, ProductMonotone
<1>4. (r + 1) * d = r * d + d
  BY <1>1
<1> QED
  BY <1>1, <1>3, <1>4

\* Two places of the ring are the same only a whole round apart.
LEMMA RoundsApart ==
  ASSUME NEW m \in Nat, NEW n \in Nat, NEW d \in Nat \ {0}, m < n, m % d = n % d
  PROVE  n - m >= d
<1> DEFINE q == m \div d
           r == n \div d
           k == m % d
<1>1. q \in Nat /\ r \in Nat /\ k \in Nat /\ m = q * d + k /\ n = r * d + k
  <2>1. q \in Nat /\ k \in 0..d - 1 /\ m = q * d + k
    BY Division, Zenon
  <2>2. r \in Nat /\ n = r * d + (n % d)
    BY Division, Zenon
  <2> QED
    BY <2>1, <2>2
<1> HIDE DEF q, r, k
<1>2. q < r
  <2> SUFFICES ASSUME r <= q PROVE FALSE
    BY <1>1
  <2>1. r * d <= q * d
    BY <1>1, ProductMonotone
  <2> QED
    BY <1>1, <2>1
<1>3. (q + 1) * d <= r * d
  BY <1>1, <1>2, ProductMonotone
<1>4. (q + 1) * d = q * d + d
  BY <1>1
<1> QED
  BY <1>1, <1>3, <1>4

\* A set of numbers has a smallest one, a finite one a largest.
LEMMA Smallest ==
  ASSUME NEW S \in SUBSET Nat, S # {}
  PROVE  Min(S) \in S /\ \A x \in S : Min(S) <= x
<1> DEFINE Less == {ss \in Nat \X Nat : ss[1] < ss[2]}
<1>1. IsWellFoundedOn(Less, Nat)
  BY NatLessThanWellFounded, Zenon DEF OpToRel
<1>2. PICK n \in S : \A m \in S : ~(<<m, n>> \in Less)
  <2> HIDE DEF Less
  <2> QED
    BY <1>1, WFMin
<1>3. \A m \in S : n <= m
  <2> SUFFICES ASSUME NEW m \in S, m < n PROVE FALSE
    OBVIOUS
  <2>1. <<m, n>> \in Nat \X Nat /\ <<m, n>>[1] < <<m, n>>[2]
    OBVIOUS
  <2> QED
    BY <1>2, <2>1
<1> QED
  BY <1>3 DEF Min

LEMMA Largest ==
  ASSUME NEW S, S # {}, NEW f \in [S -> Nat], NEW B \in Nat, \A i \in S : f[i] <= B
  PROVE  \E m \in S : \A i \in S : f[i] <= f[m]
<1> DEFINE D == {d \in Nat : \E i \in S : d = B - f[i]}
<1>1. \A i \in S : B - f[i] \in D
  OBVIOUS
<1>2. Min(D) \in D /\ \A x \in D : Min(D) <= x
  <2>1. D \in SUBSET Nat /\ D # {}
    BY <1>1
  <2> HIDE DEF D
  <2> QED
    BY <2>1, Smallest
<1>3. PICK m \in S : Min(D) = B - f[m]
  BY <1>2
<1>4. \A i \in S : B - f[m] <= B - f[i]
  BY <1>1, <1>2, <1>3
<1> QED
  BY <1>4

LEMMA PercentileType ==
  ASSUME NEW S, IsFiniteSet(S), S # {}, NEW f \in [S -> Nat], NEW B \in Nat, \A i \in S : f[i] <= B
  PROVE  Percentile(f) \in Nat
<1>1. PICK m \in S : \A i \in S : f[i] <= f[m]
  BY Largest
<1> DEFINE n == Cardinality(S)
           V == {v \in Range(f) :
                   Cardinality({i \in DOMAIN f : f[i] <= v}) > ((Cardinality(DOMAIN f) - 1) * 60) \div 100}
<1>2. n \in Nat /\ n # 0
  BY FS_CardinalityType, FS_EmptySet
<1>3. DOMAIN f = S /\ {i \in DOMAIN f : f[i] <= f[m]} = S
  BY <1>1
<1>4. n > ((n - 1) * 60) \div 100
  <2> HIDE DEF n
  <2> QED BY <1>2
<1>5. f[m] \in V
  BY <1>3, <1>4 DEF Range
<1>6. V \in SUBSET Nat
  BY DEF Range
<1>7. Percentile(f) = Min(V)
  BY DEF Percentile
<1> HIDE DEF V
<1> QED
  BY <1>5, <1>6, <1>7, Smallest

-----------------------------------------------------------------------------
(* The chain and its fees.                                                  *)

ChainType ==
    /\ now \in 0..MaxTime
    /\ chain \in Seq(Block) /\ accepted \in 1..Len(chain) /\ since \in 1..accepted
    /\ pool \in SUBSET Tx /\ IsFiniteSet(pool)

\* Prices and costs grow by at most one step with each block.
FeeInv ==
    \A i \in 1..Len(chain) :
        /\ chain[i].time <= now
        /\ MinPrice <= chain[i].price /\ chain[i].price <= MinPrice + (i - 1)
        /\ chain[i].cost <= (i - 1) * TargetBlockRate

LEMMA ChainFacts ==
  ASSUME ChainType
  PROVE  /\ Len(chain) \in Nat \ {0} /\ DOMAIN chain = 1..Len(chain) /\ now \in Nat
         /\ accepted \in Nat \ {0} /\ since \in Nat \ {0} /\ since <= accepted /\ accepted <= Len(chain)
         /\ \A i \in 1..Len(chain) :
              /\ chain[i] \in Block /\ chain[i].time \in Nat /\ chain[i].price \in Nat
              /\ chain[i].cost \in Nat /\ chain[i].units \in Nat /\ chain[i].txs \in Seq(Tx)
<1>1. Len(chain) \in Nat /\ DOMAIN chain = 1..Len(chain) /\ \A i \in 1..Len(chain) : chain[i] \in Block
  BY DEF ChainType
<1>2. now \in Nat /\ accepted \in Nat /\ since \in Nat /\ since <= accepted /\ accepted <= Len(chain)
      /\ accepted # 0 /\ since # 0 /\ Len(chain) # 0
  BY <1>1, Numbers DEF ChainType
<1>3. \A b \in Block : /\ b.time \in Nat /\ b.price \in Nat /\ b.cost \in Nat /\ b.units \in Nat
                       /\ b.txs \in Seq(Tx)
  BY DEF Block
<1> QED
  BY <1>1, <1>2, <1>3

LEMMA Recent ==
  ASSUME ChainType, NEW t \in Nat
  PROVE  /\ RecentBlocks(t) \subseteq 1..Len(chain) /\ Len(chain) \in RecentBlocks(t)
         /\ IsFiniteSet(RecentBlocks(t))
         /\ \A i \in RecentBlocks(t) : \A k \in i..Len(chain) : k \in RecentBlocks(t)
         /\ \A s \in Nat : s <= t => RecentBlocks(t) \subseteq RecentBlocks(s)
<1> DEFINE L == Len(chain)
           Young(x, i) == \A j \in i..L : x - chain[j].time <= LookbackWindow \/ j = L
<1>1. L \in Nat \ {0} /\ \A i \in 1..L : chain[i].time \in Nat
  BY ChainFacts
<1>2. LookbackWindow \in Nat
  BY Numbers
<1>3. \A x : RecentBlocks(x) = {i \in 1..L : Young(x, i)}
  BY ChainFacts DEF RecentBlocks
<1> HIDE DEF L
<1>4. RecentBlocks(t) \subseteq 1..L /\ L \in RecentBlocks(t)
  <2>1. Young(t, L)
    BY <1>1
  <2> HIDE DEF Young
  <2> QED
    BY <1>1, <1>3, <2>1
<1>5. IsFiniteSet(RecentBlocks(t))
  <2>1. IsFiniteSet(1..L)
    BY <1>1, FS_Interval
  <2> QED
    BY <1>4, <2>1, FS_Subset
<1>6. ASSUME NEW i \in RecentBlocks(t), NEW k \in i..L PROVE k \in RecentBlocks(t)
  <2>1. i \in 1..L /\ Young(t, i)
    BY <1>3
  <2>2. k \in 1..L /\ \A j \in k..L : j \in i..L
    BY <1>1, <2>1
  <2>3. Young(t, k)
    BY <2>1, <2>2
  <2> HIDE DEF Young
  <2> QED
    BY <1>3, <2>2, <2>3
<1>7. ASSUME NEW s \in Nat, s <= t PROVE RecentBlocks(t) \subseteq RecentBlocks(s)
  <2> SUFFICES ASSUME NEW i \in RecentBlocks(t) PROVE i \in RecentBlocks(s)
    OBVIOUS
  <2>1. i \in 1..L /\ Young(t, i)
    BY <1>3
  <2>2. Young(s, i)
    <3> SUFFICES ASSUME NEW j \in i..L, j # L PROVE s - chain[j].time <= LookbackWindow
      OBVIOUS
    <3>1. t - chain[j].time <= LookbackWindow /\ chain[j].time \in Nat
      BY <1>1, <2>1
    <3> QED
      BY <1>2, <1>7, <3>1
  <2> HIDE DEF Young
  <2> QED
    BY <1>3, <2>1, <2>2
<1> QED
  BY <1>4, <1>5, <1>6, <1>7 DEF L

LEMMA RecentUnitsFall ==
  ASSUME ChainType, NEW s \in Nat, NEW t \in Nat, s <= t
  PROVE  RecentUnits(s) \in Nat /\ RecentUnits(t) \in Nat /\ RecentUnits(t) <= RecentUnits(s)
<1> DEFINE U(x) == [i \in DOMAIN chain |-> IF i \in RecentBlocks(x) THEN chain[i].units ELSE 0]
           v == U(s)
           w == U(t)
<1>1. Len(chain) \in Nat /\ DOMAIN chain = 1..Len(chain) /\ \A i \in 1..Len(chain) : chain[i].units \in Nat
  BY ChainFacts
<1>2. RecentBlocks(t) \subseteq RecentBlocks(s)
  BY Recent
<1>3. v \in Seq(Nat) /\ w \in Seq(Nat) /\ Len(v) = Len(chain) /\ Len(w) = Len(chain)
      /\ \A i \in 1..Len(chain) : w[i] <= v[i]
  BY <1>1, <1>2
<1>4. RecentUnits(s) = Total(v) /\ RecentUnits(t) = Total(w)
  BY DEF RecentUnits
<1> HIDE DEF v, w
<1>5. v \in Seq(Int) /\ w \in Seq(Int)
  BY <1>3
<1> QED
  BY <1>3, <1>4, <1>5, TotalNat, TotalMonotone

LEMMA NextCostBound ==
  ASSUME ChainType, FeeInv, NEW t \in Nat, now <= t
  PROVE  /\ NextCost(t) \in Nat /\ NextCost(t) <= NextCost(now)
         /\ Len(chain) * TargetBlockRate \in Nat /\ NextCost(t) <= Len(chain) * TargetBlockRate
<1> DEFINE L == Len(chain)
           time == Last(chain).time
           cost == Last(chain).cost
           R == TargetBlockRate
<1>1. L \in Nat \ {0} /\ time \in Nat /\ cost \in Nat /\ time <= now /\ cost <= (L - 1) * R /\ now \in Nat
  BY ChainFacts DEF FeeInv, Last
<1>2. R \in Nat \ {0}
  BY Numbers
<1>3. /\ NextCost(t) = IF t - time < R THEN cost + R - (t - time)
                       ELSE IF t - time - R < cost THEN cost - (t - time - R) ELSE 0
      /\ NextCost(now) = IF now - time < R THEN cost + R - (now - time)
                         ELSE IF now - time - R < cost THEN cost - (now - time - R) ELSE 0
  BY DEF NextCost
<1>4. L * R = (L - 1) * R + R /\ L * R \in Nat /\ (L - 1) * R \in Nat
  BY <1>1, <1>2
<1> HIDE DEF L, R, time, cost
<1>5. NextCost(t) \in Nat /\ NextCost(t) <= NextCost(now)
  BY <1>1, <1>2, <1>3
<1>6. NextCost(t) <= L * R
  BY <1>1, <1>2, <1>3, <1>4
<1> QED
  BY <1>4, <1>5, <1>6 DEF L, R

LEMMA NextPriceBound ==
  ASSUME ChainType, FeeInv, NEW t \in Nat, now <= t
  PROVE  /\ NextPrice(t) \in Nat /\ NextPrice(t) <= NextPrice(now)
         /\ MinPrice <= NextPrice(t) /\ NextPrice(t) <= MinPrice + Len(chain)
<1> DEFINE L == Len(chain)
           price == Last(chain).price
           time == Last(chain).time
           W(x) == (x - time) \div LookbackWindow + 1
           w == W(t)
           v == W(now)
           U == RecentUnits(t)
           V == RecentUnits(now)
<1>1. L \in Nat \ {0} /\ time \in Nat /\ price \in Nat /\ time <= now /\ MinPrice <= price
      /\ price <= MinPrice + (L - 1) /\ now \in Nat
  BY ChainFacts DEF FeeInv, Last
<1>2. LookbackWindow \in Nat \ {0} /\ MinPrice \in Nat /\ TargetUnits \in Nat
  BY Numbers
<1>3. w \in Nat /\ v \in Nat /\ v <= w
  <2> HIDE DEF time
  <2>1. t - time \in Nat /\ now - time \in Nat /\ now - time <= t - time
    BY <1>1
  <2> DEFINE x == t - time
             y == now - time
  <2>2. x \in Nat /\ y \in Nat /\ y <= x
    BY <2>1
  <2>3. w = x \div LookbackWindow + 1 /\ v = y \div LookbackWindow + 1
    OBVIOUS
  <2> HIDE DEF x, y, w, v
  <2>4. y \div LookbackWindow <= x \div LookbackWindow /\ x \div LookbackWindow \in Nat
        /\ y \div LookbackWindow \in Nat
    BY <1>2, <2>2, DivMonotone, Division
  <2> QED
    BY <2>3, <2>4
<1>4. U \in Nat /\ V \in Nat /\ U <= V
  BY <1>1, RecentUnitsFall
<1>5. /\ NextPrice(t) = CASE U > TargetUnits -> price + 1
                          [] U < TargetUnits -> IF w < price - MinPrice THEN price - w ELSE MinPrice
                          [] OTHER -> price
      /\ NextPrice(now) = CASE V > TargetUnits -> price + 1
                            [] V < TargetUnits -> IF v < price - MinPrice THEN price - v ELSE MinPrice
                            [] OTHER -> price
  BY DEF NextPrice
<1> HIDE DEF L, price, time, w, v, U, V
<1>6. NextPrice(t) = IF U > TargetUnits THEN price + 1
                     ELSE IF U < TargetUnits THEN IF w < price - MinPrice THEN price - w ELSE MinPrice
                     ELSE price
  BY <1>2, <1>4, <1>5
<1>7. NextPrice(now) = IF V > TargetUnits THEN price + 1
                       ELSE IF V < TargetUnits THEN IF v < price - MinPrice THEN price - v ELSE MinPrice
                       ELSE price
  BY <1>2, <1>4, <1>5
<1>8. /\ NextPrice(t) \in Nat /\ NextPrice(t) <= NextPrice(now)
      /\ MinPrice <= NextPrice(t) /\ NextPrice(t) <= MinPrice + L
  BY <1>1, <1>2, <1>3, <1>4, <1>6, <1>7
<1> QED
  BY <1>8 DEF L

LEMMA FiniteRange ==
  ASSUME NEW S, IsFiniteSet(S), NEW f, f = [x \in S |-> f[x]]
  PROVE  IsFiniteSet(Range(f)) /\ Cardinality(Range(f)) <= Cardinality(S)
<1>1. DOMAIN f = S
  OBVIOUS
<1>2. f \in Surjection(S, Range(f))
  BY <1>1 DEF Surjection, Range
<1> QED
  BY <1>2, FS_Surjection

LEMMA SuggestedFeeType ==
  ASSUME ChainType, FeeInv
  PROVE  SuggestedFee(now).price \in Nat /\ SuggestedFee(now).cost \in Nat
<1> DEFINE S == RecentBlocks(now)
           P == [i \in S |-> chain[i].price]
           C == [i \in S |-> chain[i].cost]
           B == MinPrice + Len(chain)
           D == Len(chain) * TargetBlockRate
           price == Percentile(P)
           cost == Percentile(C)
           n == Cardinality(RecentTxs(now))
           m == Cardinality(S)
<1>1. now \in Nat /\ Len(chain) \in Nat \ {0}
  BY ChainFacts
<1>2. S \subseteq 1..Len(chain) /\ S # {} /\ IsFiniteSet(S)
  BY <1>1, Recent
<1>3. /\ \A i \in S : chain[i].price \in Nat /\ chain[i].price <= B
      /\ \A i \in S : chain[i].cost \in Nat /\ chain[i].cost <= D
      /\ B \in Nat /\ D \in Nat
  <2>1. B \in Nat /\ D \in Nat /\ TargetBlockRate \in Nat
    BY <1>1, Numbers
  <2>2. ASSUME NEW i \in S PROVE /\ chain[i].price \in Nat /\ chain[i].price <= B
                                 /\ chain[i].cost \in Nat /\ chain[i].cost <= D
    <3>1. /\ i \in 1..Len(chain) /\ chain[i].price \in Nat /\ chain[i].cost \in Nat
          /\ chain[i].price <= MinPrice + (i - 1) /\ chain[i].cost <= (i - 1) * TargetBlockRate
      BY <1>2, ChainFacts DEF FeeInv
    <3>2. i - 1 \in Nat /\ i - 1 <= Len(chain) /\ chain[i].price <= B
      BY <1>1, <3>1, Numbers
    <3>3. (i - 1) * TargetBlockRate <= D /\ (i - 1) * TargetBlockRate \in Nat
      BY <1>1, <2>1, <3>2, ProductMonotone
    <3> HIDE DEF D, B
    <3> QED
      BY <2>1, <3>1, <3>2, <3>3
  <2> QED
    BY <2>1, <2>2
<1>4. price \in Nat
  <2> HIDE DEF B, S
  <2>1. P \in [S -> Nat] /\ \A i \in S : P[i] <= B
    BY <1>3
  <2> HIDE DEF P
  <2> QED
    BY <1>2, <1>3, <2>1, PercentileType
<1>5. cost \in Nat
  <2> HIDE DEF D, S
  <2>1. C \in [S -> Nat] /\ \A i \in S : C[i] <= D
    BY <1>3
  <2> HIDE DEF C
  <2> QED
    BY <1>2, <1>3, <2>1, PercentileType
<1>6. n \in Nat
  <2> DEFINE F == [i \in S |-> Range(chain[i].txs)]
  <2>1. ASSUME NEW i \in S PROVE IsFiniteSet(Range(chain[i].txs))
    <3> DEFINE s == chain[i].txs
    <3>1. s \in Seq(Tx)
      BY <1>2, ChainFacts
    <3> HIDE DEF s
    <3>2. IsFiniteSet(1..Len(s)) /\ s = [x \in 1..Len(s) |-> s[x]]
      <4>1. Len(s) \in Nat /\ s = [x \in 1..Len(s) |-> s[x]] /\ 1 \in Int
        BY <3>1
      <4> QED
        BY <4>1, FS_Interval
    <3>3. IsFiniteSet(Range(s))
      BY <3>2, FiniteRange
    <3> QED
      BY <3>3 DEF s
  <2>2. IsFiniteSet(RecentTxs(now))
    <3>1. F = [i \in S |-> F[i]] /\ \A T \in Range(F) : IsFiniteSet(T)
      <4> HIDE DEF S
      <4> QED
        BY <2>1 DEF Range
    <3>2. RecentTxs(now) = UNION Range(F)
      <4> DEFINE R(i) == Range(chain[i].txs)
      <4>1. Range(F) = {R(i) : i \in S}
        <5> HIDE DEF S
        <5>1. DOMAIN F = S /\ \A i \in S : F[i] = R(i)
          OBVIOUS
        <5> HIDE DEF F, R
        <5> QED
          BY <5>1 DEF Range
      <4> QED
        BY <4>1, Zenon DEF RecentTxs
    <3> HIDE DEF F, S
    <3>3. IsFiniteSet(Range(F))
      BY <1>2, <3>1, FiniteRange
    <3> QED
      BY <3>1, <3>2, <3>3, FS_UNION
  <2> QED
    BY <2>2, FS_CardinalityType
<1>7. m \in Nat /\ m # 0
  BY <1>2, FS_CardinalityType, FS_EmptySet
<1>8. n # 0 => (cost \div n) \div m \in Nat
  <2> HIDE DEF cost, n, m
  <2> QED
    BY <1>5, <1>6, <1>7, Division
<1>9. /\ SuggestedFee(now).price = IF price < MinPrice THEN MinPrice ELSE price
      /\ SuggestedFee(now).cost = IF n = 0 THEN cost ELSE (cost \div n) \div m
  BY DEF SuggestedFee
<1> HIDE DEF price, cost, n, m
<1> QED
  BY <1>4, <1>5, <1>8, <1>9, Numbers

-----------------------------------------------------------------------------
(* What BuildBlock does.                                                    *)

\* A block that BuildBlock adds to the chain.
Built(b) ==
    /\ b.time = now /\ b.price = NextPrice(now) /\ b.cost = NextCost(now) /\ Len(chain) <= MaxBlocks
    /\ Surplus(b.txs, b.price) >= (b.price * b.cost) % Word
    /\ \A k \in 1..Len(b.txs) :
         b.txs[k] \in pool /\ Executes(b.txs[k], now) /\ b.txs[k].u.price >= b.price
    /\ \A k, l \in 1..Len(b.txs) : k # l => b.txs[k] # b.txs[l]

LEMMA BuildEffect ==
  ASSUME ChainType, FeeInv, BuildBlock
  PROVE  /\ pool' \subseteq pool
         /\ chain' = chain \/ \E b \in Block : Built(b) /\ chain' = Append(chain, b)
<1> DEFINE price == NextPrice(now)
           cost == NextCost(now)
           pruned == {t \in pool : t.u.block \in RecentBlocks(now)}
           paying == Paying(price, pruned)
<1>1. paying \subseteq pool /\ \A t \in paying : t.u.price >= price
  BY DEF Paying
<1>2. price \in Nat /\ cost \in Nat /\ now \in Nat /\ Len(chain) <= MaxBlocks
  BY ChainFacts, NextCostBound, NextPriceBound DEF BuildBlock
<1>3. PICK order \in SetToSeqs(paying), fails \in SUBSET paying :
         LET bad == fails \cup {t \in paying : ~Executes(t, now)}
             b == Filling(order, bad)
         IN  /\ pool' = (pruned \ paying) \cup b.large
             /\ IF b.txs # <<>> /\ Surplus(b.txs, price) >= (price * cost) % Word
                THEN chain' = Append(chain, [time |-> now, price |-> price, cost |-> cost,
                                             units |-> b.units, txs |-> b.txs])
                ELSE chain' = chain
  BY Zenon DEF BuildBlock
<1> DEFINE bad == fails \cup {t \in paying : ~Executes(t, now)}
           b == Filling(order, bad)
           new == [time |-> now, price |-> price, cost |-> cost, units |-> b.units, txs |-> b.txs]
<1>4. /\ pool' = (pruned \ paying) \cup b.large
      /\ chain' = chain \/ (Surplus(b.txs, price) >= (price * cost) % Word /\ chain' = Append(chain, new))
  BY <1>3, Zenon
<1>5. pruned \subseteq pool
  OBVIOUS
<1>6. \A t \in paying : t \notin bad => Executes(t, now)
  OBVIOUS
<1> HIDE DEF bad, pruned
<1>7. order \in Seq(Tx) /\ (\A i \in 1..Len(order) : order[i] \in paying)
      /\ \A i, j \in 1..Len(order) : i # j => order[i] # order[j]
  <2> HIDE DEF paying, price
  <2>1. IsFiniteSet(paying) /\ paying \subseteq Tx
    BY <1>1, FS_Subset DEF ChainType
  <2>2. Cardinality(paying) \in Nat
    BY <2>1, FS_CardinalityType
  <2>3. /\ order \in [1..Cardinality(paying) -> paying]
        /\ \A i, j \in 1..Cardinality(paying) : i # j => order[i] # order[j]
    BY DEF SetToSeqs
  <2>4. order \in Seq(Tx) /\ Len(order) = Cardinality(paying)
    BY <2>1, <2>2, <2>3
  <2> QED
    BY <2>3, <2>4
<1> HIDE DEF paying, price, cost
<1>8. /\ b \in Fill
      /\ \A t \in b.large : \E i \in 1..Len(order) : t = order[i]
      /\ \A k \in 1..Len(b.txs) : b.txs[k] \notin bad /\ \E i \in 1..Len(order) : b.txs[k] = order[i]
      /\ \A k, l \in 1..Len(b.txs) : k # l => b.txs[k] # b.txs[l]
  BY <1>7, FillingResult
<1> HIDE DEF b
<1>9. pool' \subseteq pool
  BY <1>1, <1>4, <1>5, <1>7, <1>8
<1>10. \A k \in 1..Len(b.txs) : b.txs[k] \in pool /\ Executes(b.txs[k], now) /\ b.txs[k].u.price >= price
  <2> SUFFICES ASSUME NEW k \in 1..Len(b.txs)
               PROVE  b.txs[k] \in pool /\ Executes(b.txs[k], now) /\ b.txs[k].u.price >= price
    OBVIOUS
  <2>1. b.txs[k] \in paying /\ b.txs[k] \notin bad
    BY <1>7, <1>8
  <2> QED
    BY <1>1, <1>6, <2>1
<1>11. /\ new \in Block /\ new.time = now /\ new.price = price /\ new.cost = cost /\ new.txs = b.txs
  BY <1>2, <1>8 DEF Block, Fill
<1> HIDE DEF new
<1>12. ASSUME Surplus(b.txs, price) >= (price * cost) % Word PROVE Built(new)
  BY <1>2, <1>8, <1>10, <1>11, <1>12, Zenon DEF Built, price, cost
<1> QED
  BY <1>4, <1>9, <1>11, <1>12

Covered(b) ==
    /\ \A t \in Range(b.txs) : t.u.price >= b.price
    /\ Total([j \in DOMAIN b.txs |-> (b.txs[j].u.price - b.price) * FeeUnits(b.txs[j].u)])
         >= b.price * b.cost

LEMMA TxParts ==
  ASSUME NEW t \in Tx
  PROVE  /\ t.u \in UnsignedTx /\ t.by \in Client \cup {Stranger}
         /\ t.u.kind \in Kind /\ t.u.block \in Nat /\ t.u.price \in Nat
BY UnsignedIs DEF Tx

\* The cost that the surplus is compared with has not wrapped, and no transaction's part of
\* the surplus has.
LEMMA BuiltCovered ==
  ASSUME ChainType, FeeInv, NEW b \in Block, Built(b)
  PROVE  Covered(b)
<1> DEFINE s == b.txs
           p == b.price
           w == b.cost
           D(j) == s[j].u.price - p
           F(j) == FeeUnits(s[j].u)
           r == [j \in DOMAIN s |-> (D(j) % Word) * F(j)]
           q == [j \in DOMAIN s |-> D(j) * F(j)]
<1>0. Word \in Nat \ {0} /\ Len(chain) \in Nat /\ now \in Nat
  BY Numbers, ChainFacts
<1>1. s \in Seq(Tx) /\ p \in Nat /\ w \in Nat
  BY DEF Block
<1>2. \A j \in 1..Len(s) : s[j] \in Tx /\ s[j].u.price >= p
  BY <1>1 DEF Built
<1>3. Total(r) % Word >= (p * w) % Word
  BY DEF Built, Surplus
<1>4. p * w \in Nat /\ p * w < Word
  <2> DEFINE P == MinPrice + MaxBlocks
             W == MaxBlocks * TargetBlockRate
  <2>1. P \in Nat /\ W \in Nat /\ P * W < Word /\ TargetBlockRate \in Nat /\ MaxBlocks \in Nat /\ MinPrice \in Nat
    BY Numbers, IssueAssumption
  <2>2. p <= MinPrice + Len(chain) /\ w <= Len(chain) * TargetBlockRate /\ Len(chain) <= MaxBlocks
    BY <1>0, NextPriceBound, NextCostBound DEF Built
  <2>3. Len(chain) * TargetBlockRate <= W /\ Len(chain) * TargetBlockRate \in Nat
    BY <1>0, <2>1, <2>2, ProductMonotone
  <2>4. p <= P
    BY <1>0, <1>1, <2>1, <2>2
  <2> HIDE DEF p, w, W, P
  <2>5. w <= W
    BY <1>1, <2>1, <2>2, <2>3
  <2>6. p * w <= P * W /\ p * w \in Nat /\ P * W \in Nat
    BY <1>1, <2>1, <2>4, <2>5, ProductMonotone
  <2> QED
    BY <1>0, <2>1, <2>6
<1>5. ASSUME NEW j \in 1..Len(s) PROVE /\ D(j) \in Nat /\ D(j) % Word \in Nat /\ D(j) % Word <= D(j) /\ F(j) \in Nat
                                       /\ (D(j) % Word) * F(j) \in Nat /\ D(j) * F(j) \in Nat
                                       /\ (D(j) % Word) * F(j) <= D(j) * F(j)
  <2> DEFINE d == D(j)
             e == F(j)
  <2>1. s[j].u.price \in Nat /\ s[j].u.price >= p
    BY <1>2, TxParts
  <2>2. d \in Nat /\ e \in 0..2
    <3>1. e \in 0..2
      BY FeeUnitsRange, Zenon
    <3> HIDE DEF s, p
    <3> QED
      BY <1>1, <2>1, <3>1
  <2> HIDE DEF d, e
  <2>3. d % Word \in Nat /\ d % Word <= d
    BY <1>0, <2>2, Remainder
  <2>4. (d % Word) * e \in Nat /\ d * e \in Nat /\ (d % Word) * e <= d * e
    <3> DEFINE m == d % Word
    <3> HIDE DEF m
    <3>1. m \in Nat /\ m <= d /\ e \in Nat /\ e <= e
      BY <2>2, <2>3 DEF m
    <3>2. m * e \in Nat /\ d * e \in Nat /\ m * e <= d * e
      BY <2>2, <3>1, ProductMonotone
    <3> QED
      BY <3>2 DEF m
  <2> QED
    BY <2>2, <2>3, <2>4 DEF d, e
<1> HIDE DEF D, F, s
<1>6. DOMAIN s = 1..Len(s) /\ Len(s) \in Nat
  BY <1>1
<1>7. /\ r \in Seq(Nat) /\ q \in Seq(Nat) /\ Len(r) = Len(s) /\ Len(q) = Len(s)
      /\ \A j \in 1..Len(s) : r[j] <= q[j]
  BY <1>5, <1>6
<1>10. q = [j \in DOMAIN b.txs |-> (b.txs[j].u.price - b.price) * FeeUnits(b.txs[j].u)]
  BY DEF D, F, s
<1> HIDE DEF r, q
<1>8. Total(r) \in Nat /\ Total(q) \in Nat /\ Total(r) <= Total(q)
  <2>1. r \in Seq(Int) /\ q \in Seq(Int)
    BY <1>7
  <2> QED
    BY <1>7, <2>1, TotalNat, TotalMonotone
<1> HIDE DEF p, w
<1>9. Total(q) >= p * w
  <2> DEFINE R == Total(r)
             c == p * w
  <2> HIDE DEF R, c
  <2>1. R \in Nat /\ c \in Nat /\ c < Word /\ R % Word >= c % Word
    BY <1>3, <1>4, <1>8 DEF R, c
  <2>2. R % Word <= R /\ R % Word \in Nat
    BY <1>0, <2>1, Remainder
  <2>3. c % Word = c
    BY <1>0, <2>1
  <2> QED
    BY <1>8, <2>1, <2>2, <2>3 DEF R, c
<1>11. \A t \in Range(s) : t.u.price >= p
  BY <1>2, <1>6 DEF Range
<1> QED
  BY <1>9, <1>10, <1>11 DEF Covered, s, p, w

-----------------------------------------------------------------------------
(* What is on the chain.                                                    *)

PoolInv == \A t \in pool : Meant(t, asked, signed)

SignedInv == \A s \in signed : Backed(s, asked)

\* More requests and signatures take nothing away.
LEMMA MoreAsked ==
  ASSUME NEW A, NEW B, A \subseteq B, NEW S, NEW T, S \subseteq T
  PROVE  /\ \A t : Meant(t, A, S) => Meant(t, B, T)
         /\ \A s : Backed(s, A) => Backed(s, B)
<1>1. \A c, u : Agreed(c, u, A) => Agreed(c, u, B)
  BY DEF Agreed
<1>2. \A t : Meant(t, A, S) => Meant(t, B, T)
  BY <1>1 DEF Meant
<1>3. \A s : Backed(s, A) => Backed(s, B)
  BY <1>1 DEF Backed
<1> QED
  BY <1>2, <1>3

CoveredInv == \A i \in 2..Len(chain) : Covered(chain[i])

\* A transaction names a block before its own; no other place has it.
Placed(i, j) ==
    /\ chain[i].txs[j].u.block < i /\ Meant(chain[i].txs[j], asked, signed)
    /\ \A k \in 1..Len(chain) : \A l \in 1..Len(chain[k].txs) :
          chain[i].txs[j] = chain[k].txs[l] => i = k /\ j = l

PlaceInv == \A i \in 1..Len(chain) : \A j \in 1..Len(chain[i].txs) : Placed(i, j)

LEMMA ChainKept ==
  ASSUME ChainType, ChainType', FeeInv, CoveredInv, PlaceInv,
         Len(chain') <= Len(chain), \A i \in 1..Len(chain') : chain'[i] = chain[i],
         asked \subseteq asked', signed \subseteq signed', now <= now'
  PROVE  FeeInv' /\ CoveredInv' /\ PlaceInv'
<1> DEFINE n == Len(chain)
           m == Len(chain')
           new == chain'
<1>1. n \in Nat /\ m \in Nat /\ m <= n /\ now \in Nat /\ now' \in Nat
  <2>1. Len(chain') \in Nat /\ now' \in Nat
    BY Numbers DEF ChainType
  <2> QED
    BY <2>1, ChainFacts
<1>2. \A i \in 1..m : i \in 1..n /\ new[i] = chain[i]
  BY <1>1
<1>3. FeeInv'
  <2> SUFFICES ASSUME NEW i \in 1..m
               PROVE  /\ new[i].time <= now'
                      /\ MinPrice <= new[i].price /\ new[i].price <= MinPrice + (i - 1)
                      /\ new[i].cost <= (i - 1) * TargetBlockRate
    BY DEF FeeInv
  <2>1. new[i] = chain[i] /\ i \in 1..n
    BY <1>2
  <2>2. chain[i].time \in Nat /\ chain[i].time <= now
    BY <2>1, ChainFacts DEF FeeInv
  <2>3. chain[i].time <= now'
    BY <1>1, <2>2
  <2> HIDE DEF new
  <2> QED
    BY <2>1, <2>3 DEF FeeInv
<1>4. CoveredInv'
  <2> SUFFICES ASSUME NEW i \in 2..m PROVE Covered(new[i])
    BY DEF CoveredInv, Covered
  <2>1. new[i] = chain[i] /\ i \in 2..n
    BY <1>1, <1>2
  <2> HIDE DEF new
  <2> QED
    BY <2>1, Zenon DEF CoveredInv
<1>5. PlaceInv'
  <2> SUFFICES ASSUME NEW i \in 1..m, NEW j \in 1..Len(new[i].txs)
               PROVE  /\ new[i].txs[j].u.block < i /\ Meant(new[i].txs[j], asked', signed')
                      /\ \A k \in 1..m : \A l \in 1..Len(new[k].txs) :
                            new[i].txs[j] = new[k].txs[l] => i = k /\ j = l
    BY DEF PlaceInv, Placed, Meant, SignatureOf, Agreed, AsSigned, Sender, TypedDataOf
  <2>1. new[i] = chain[i] /\ i \in 1..n
    BY <1>2
  <2> HIDE DEF new, m
  <2>2. Placed(i, j)
    BY <2>1 DEF PlaceInv
  <2>5. chain[i].txs[j].u.block < i /\ Meant(chain[i].txs[j], asked, signed)
    BY <2>2 DEF Placed
  <2>6. \A t : Meant(t, asked, signed) => Meant(t, asked', signed')
    BY MoreAsked
  <2>3. chain[i].txs[j].u.block < i /\ Meant(chain[i].txs[j], asked', signed')
    BY <2>5, <2>6
  <2>4. ASSUME NEW k \in 1..m, NEW l \in 1..Len(new[k].txs), new[i].txs[j] = new[k].txs[l]
        PROVE  i = k /\ j = l
    <3>1. new[k] = chain[k] /\ k \in 1..n
      BY <1>2
    <3> QED
      BY <2>1, <2>2, <2>4, <3>1 DEF Placed
  <2> QED
    BY <2>1, <2>3, <2>4
<1> QED
  BY <1>3, <1>4, <1>5

\* A transaction that the window has not seen is nowhere on the chain: it names a block of
\* the window, and could only be in a later one.
LEMMA NotSeenBefore ==
  ASSUME ChainType, PlaceInv, NEW t \in Tx, Executes(t, now)
  PROVE  /\ t.u.block <= Len(chain)
         /\ \A i \in 1..Len(chain) : \A j \in 1..Len(chain[i].txs) : chain[i].txs[j] # t
<1>1. t.u.block \in RecentBlocks(now) /\ t \notin RecentTxs(now)
  BY DEF Executes
<1>2. now \in Nat /\ Len(chain) \in Nat
  BY ChainFacts
<1>3. t.u.block \in 1..Len(chain) /\ \A k \in t.u.block..Len(chain) : k \in RecentBlocks(now)
  BY <1>1, <1>2, Recent
<1>4. ASSUME NEW i \in 1..Len(chain), NEW j \in 1..Len(chain[i].txs), chain[i].txs[j] = t
      PROVE  FALSE
  <2>1. chain[i].txs[j].u.block < i
    BY DEF PlaceInv, Placed
  <2>2. t.u.block < i
    BY <1>4, <2>1
  <2>3. i \in RecentBlocks(now)
    BY <1>2, <1>3, <2>2
  <2>4. chain[i].txs \in Seq(Tx)
    BY ChainFacts
  <2>5. t \in Range(chain[i].txs)
    <3> DEFINE s == chain[i].txs
    <3> HIDE DEF s
    <3>1. s \in Seq(Tx) /\ j \in 1..Len(s) /\ s[j] = t
      BY <1>4, <2>4 DEF s
    <3>2. t \in Range(s)
      BY <3>1 DEF Range
    <3> QED
      BY <3>2 DEF s
  <2> QED
    BY <1>1, <2>3, <2>5 DEF RecentTxs
<1> QED
  BY <1>2, <1>3, <1>4

LEMMA ChainGrown ==
  ASSUME ChainType, FeeInv, CoveredInv, PlaceInv, PoolInv, NEW b \in Block, Built(b),
         chain' = Append(chain, b), UNCHANGED <<asked, signed, now>>
  PROVE  FeeInv' /\ CoveredInv' /\ PlaceInv'
<1> DEFINE n == Len(chain)
           new == chain'
<1>1. n \in Nat \ {0} /\ now \in Nat /\ chain \in Seq(Block)
  BY ChainFacts DEF ChainType
<1>2. Len(new) = n + 1 /\ new[n + 1] = b /\ \A i \in 1..n : new[i] = chain[i]
  BY <1>1
<1>3. \A i \in 1..n + 1 : i \in 1..n \/ i = n + 1
  BY <1>1
<1>4. b.txs \in Seq(Tx)
  BY DEF Block
<1> HIDE DEF n
<1>5. FeeInv'
  <2> DEFINE Good(i, c) == /\ c.time <= now
                           /\ MinPrice <= c.price /\ c.price <= MinPrice + (i - 1)
                           /\ c.cost <= (i - 1) * TargetBlockRate
  <2>1. \A i \in 1..n : Good(i, chain[i])
    BY DEF FeeInv, n
  <2>2. Good(n + 1, b)
    <3>1. /\ MinPrice <= NextPrice(now) /\ NextPrice(now) <= MinPrice + n /\ NextCost(now) <= n * TargetBlockRate
      BY <1>1, NextPriceBound, NextCostBound DEF n
    <3>2. (n + 1) - 1 = n
      BY <1>1
    <3> QED
      BY <1>1, <3>1, <3>2 DEF Built
  <2> HIDE DEF Good
  <2>3. \A i \in 1..n + 1 : Good(i, new[i])
    BY <1>2, <1>3, <2>1, <2>2
  <2> QED
    BY <1>2, <2>3 DEF FeeInv, Good
<1>6. CoveredInv'
  <2>1. \A i \in 2..n + 1 : i = n + 1 \/ (i \in 2..n /\ i \in 1..n)
    BY <1>1
  <2>2. \A i \in 2..n : Covered(chain[i])
    BY DEF CoveredInv, n
  <2>3. Covered(b)
    BY BuiltCovered
  <2>4. \A i \in 2..n + 1 : Covered(new[i])
    <3> HIDE DEF new
    <3> QED
      BY <1>2, <2>1, <2>2, <2>3
  <2> QED
    BY <1>2, <2>4 DEF CoveredInv, Covered
<1>7. PlaceInv'
  <2>1. ASSUME NEW k \in 1..Len(b.txs)
        PROVE  /\ b.txs[k].u.block < n + 1 /\ Meant(b.txs[k], asked, signed)
               /\ \A i \in 1..n : \A j \in 1..Len(chain[i].txs) : chain[i].txs[j] # b.txs[k]
    <3> DEFINE t == b.txs[k]
    <3>1. t \in pool /\ t \in Tx /\ Executes(t, now)
      BY DEF Built, ChainType
    <3> HIDE DEF t
    <3>2. t.u.block \in Nat /\ Meant(t, asked, signed)
      BY <3>1, TxParts DEF PoolInv
    <3>3. t.u.block <= n /\ \A i \in 1..n : \A j \in 1..Len(chain[i].txs) : chain[i].txs[j] # t
      BY <3>1, NotSeenBefore DEF n
    <3>4. t.u.block < n + 1
      BY <1>1, <3>2, <3>3
    <3> QED
      BY <3>2, <3>3, <3>4, Zenon DEF t
  <2>2. \A k, l \in 1..Len(b.txs) : b.txs[k] = b.txs[l] => k = l
    BY DEF Built
  <2>3. ASSUME NEW i \in 1..n + 1, NEW j \in 1..Len(new[i].txs)
        PROVE  /\ new[i].txs[j].u.block < i /\ Meant(new[i].txs[j], asked, signed)
               /\ \A k \in 1..n + 1 : \A l \in 1..Len(new[k].txs) :
                     new[i].txs[j] = new[k].txs[l] => i = k /\ j = l
    <3> HIDE DEF new
    <3>1. CASE i \in 1..n
      <4>1. new[i] = chain[i] /\ Placed(i, j)
        BY <1>2, <3>1 DEF PlaceInv, n
      <4>2. ASSUME NEW k \in 1..n + 1, NEW l \in 1..Len(new[k].txs), new[i].txs[j] = new[k].txs[l]
            PROVE  i = k /\ j = l
        <5>1. CASE k \in 1..n
          BY <1>2, <4>1, <4>2, <5>1 DEF Placed, n
        <5>2. CASE k = n + 1
          BY <1>2, <2>1, <3>1, <4>1, <4>2, <5>2
        <5> QED
          BY <1>3, <5>1, <5>2
      <4> QED
        BY <4>1, <4>2 DEF Placed
    <3>2. CASE i = n + 1
      <4>1. new[i] = b /\ j \in 1..Len(b.txs)
        BY <1>2, <3>2
      <4>2. ASSUME NEW k \in 1..n + 1, NEW l \in 1..Len(new[k].txs), new[i].txs[j] = new[k].txs[l]
            PROVE  i = k /\ j = l
        <5>1. CASE k \in 1..n
          BY <1>2, <2>1, <4>1, <4>2, <5>1
        <5>2. CASE k = n + 1
          BY <1>2, <2>2, <3>2, <4>1, <4>2, <5>2
        <5> QED
          BY <1>3, <5>1, <5>2
      <4> QED
        BY <2>1, <3>2, <4>1, <4>2
    <3> QED
      BY <1>3, <3>1, <3>2
  <2> SUFFICES ASSUME NEW i \in 1..Len(new), NEW j \in 1..Len(new[i].txs)
               PROVE  /\ new[i].txs[j].u.block < i /\ Meant(new[i].txs[j], asked', signed')
                      /\ \A k \in 1..Len(new) : \A l \in 1..Len(new[k].txs) :
                            new[i].txs[j] = new[k].txs[l] => i = k /\ j = l
    BY DEF PlaceInv, Placed, Meant, SignatureOf, Agreed, AsSigned, Sender, TypedDataOf
  <2> HIDE DEF new
  <2> QED
    BY <1>2, <2>3
<1> QED
  BY <1>5, <1>6, <1>7

-----------------------------------------------------------------------------
(* The clients.                                                             *)

Pc == {"idle", "signing", "accepted", "priced", "polling", "confirmed", "failed"}

ClientType ==
    /\ client = [c \in Client |-> client[c]]
    /\ \A c \in Client :
         /\ DOMAIN client[c] = {"pc", "kind", "tries", "held"}
         /\ client[c].pc \in Pc /\ client[c].kind \in Kind \cup {"none"}
         /\ client[c].tries \in 0..MaxTries[c]

\* What a client is about to sign or to send is what it asked for.
Holding(c) ==
    /\ client[c].pc = "signing" =>
         \E kind \in DOMAIN Decoded, b \in Nat, p \in Nat :
            /\ HasBaseTx(kind) /\ Request(c, kind, Struct[kind]) \in asked
            /\ client[c].held = <<TypedDataOf(Unsigned(kind, Fields(kind, Decoded[kind], c), b, p))>>
    /\ client[c].pc \in {"accepted", "priced"} =>
         \E kind \in Kind, b \in Nat, p \in Nat :
            /\ Request(c, kind, Command[kind]) \in asked
            /\ client[c].held = <<Unsigned(kind, Fields(kind, Command[kind], c), b, p)>>

Confirmed(c) ==
    client[c].pc = "confirmed" => \E i \in 1..accepted : client[c].held[1] \in Range(chain[i].txs)

\* A command that has been run and has not yet sent its transaction.
Pending(c) == IF client[c].pc \in {"signing", "accepted", "priced"} THEN 1 ELSE 0

\* What a step of the client c may do.
ClientEffect(c) ==
    /\ UNCHANGED <<chain, accepted, activityCache, cursor, since, now>>
    /\ asked \subseteq asked' /\ ClientType' /\ Holding(c)' /\ Confirmed(c)'
    /\ \A d \in Client \ {c} : client'[d] = client[d]
    /\ \/ signed' = signed /\ Pending(c)' + client[c].tries <= Pending(c) + client'[c].tries
       \/ \E s :
            /\ signed' = signed \cup {s} /\ s.by = c /\ Backed(s, asked')
            /\ Pending(c)' + client[c].tries + 1 <= Pending(c) + client'[c].tries
    /\ pool' = pool \/ \E tx \in Tx : pool' = pool \cup {tx} /\ Meant(tx, asked', signed')

LEMMA PcValues ==
  "signing" \in Pc /\ "accepted" \in Pc /\ "failed" \in Pc /\ "idle" \in Pc
BY DEF Pc

LEMMA BecomesIs ==
  ASSUME ClientType, NEW c \in Client, NEW pc \in Pc, NEW held, Becomes(c, pc, held)
  PROVE  /\ ClientType' /\ client'[c].pc = pc /\ client'[c].held = held
         /\ client'[c].tries = client[c].tries /\ client[c].tries \in Nat
         /\ \A d \in Client \ {c} : client'[d] = client[d]
<1> DEFINE F == {"pc", "kind", "tries", "held"}
           r == client[c]
           s == [r EXCEPT !.pc = pc, !.held = held]
<1>1. DOMAIN r = F /\ r.kind \in Kind \cup {"none"} /\ r.tries \in 0..MaxTries[c]
  BY DEF ClientType
<1>2. client' = [client EXCEPT ![c] = s]
  BY DEF Becomes
<1> HIDE DEF r
<1>3. DOMAIN s = F /\ s.pc = pc /\ s.held = held /\ s.kind = r.kind /\ s.tries = r.tries
  BY <1>1
<1> HIDE DEF s
<1>4. client' = [d \in Client |-> client'[d]] /\ client'[c] = s /\ \A d \in Client \ {c} : client'[d] = client[d]
  BY <1>2 DEF ClientType
<1>5. ClientType'
  <2> SUFFICES ASSUME NEW d \in Client
               PROVE  /\ DOMAIN client'[d] = F
                      /\ client'[d].pc \in Pc /\ client'[d].kind \in Kind \cup {"none"}
                      /\ client'[d].tries \in 0..MaxTries[d]
    BY <1>4 DEF ClientType
  <2>1. CASE d = c
    BY <1>1, <1>3, <1>4, <2>1
  <2>2. CASE d # c
    BY <1>4, <2>2 DEF ClientType
  <2> QED
    BY <2>1, <2>2
<1>6. r.tries \in Nat
  BY <1>1, IssueAssumption
<1> QED
  BY <1>3, <1>4, <1>5, <1>6 DEF r

LEMMA BeginsIs ==
  ASSUME ClientType, NEW c \in Client, NEW kind \in Kind, NEW how, NEW pc \in Pc, NEW held,
         Begins(c, kind, how, pc, held)
  PROVE  /\ ClientType' /\ client'[c].pc = pc /\ client'[c].held = held
         /\ client'[c].tries = client[c].tries + 1 /\ client[c].tries \in Nat
         /\ client[c].pc \in {"idle", "failed"}
         /\ \A d \in Client \ {c} : client'[d] = client[d]
<1> DEFINE F == {"pc", "kind", "tries", "held"}
           r == client[c]
           n == r.tries + 1
           s == [pc |-> pc, kind |-> kind, tries |-> n, held |-> held]
<1>1. r.tries \in Nat /\ n \in 0..MaxTries[c]
  <2>1. r.tries \in 0..MaxTries[c] /\ r.tries < MaxTries[c] /\ MaxTries[c] \in Nat
    BY IssueAssumption DEF ClientType, Begins
  <2> QED
    BY <2>1
<1>2. client' = [client EXCEPT ![c] = s] /\ client[c].pc \in {"idle", "failed"}
  BY DEF Begins
<1> HIDE DEF n
<1>3. DOMAIN s = F /\ s.pc = pc /\ s.held = held /\ s.kind = kind /\ s.tries = n
  OBVIOUS
<1> HIDE DEF s
<1>4. client' = [d \in Client |-> client'[d]] /\ client'[c] = s /\ \A d \in Client \ {c} : client'[d] = client[d]
  BY <1>2 DEF ClientType
<1>5. ClientType'
  <2> SUFFICES ASSUME NEW d \in Client
               PROVE  /\ DOMAIN client'[d] = F
                      /\ client'[d].pc \in Pc /\ client'[d].kind \in Kind \cup {"none"}
                      /\ client'[d].tries \in 0..MaxTries[d]
    BY <1>4 DEF ClientType
  <2>1. CASE d = c
    BY <1>1, <1>3, <1>4, <2>1
  <2>2. CASE d # c
    BY <1>4, <2>2 DEF ClientType
  <2> QED
    BY <2>1, <2>2
<1> QED
  BY <1>1, <1>2, <1>3, <1>4, <1>5 DEF n

LEMMA SubmitEffect ==
  ASSUME ClientType, NEW c \in Client, client[c].pc \in {"signing", "priced"},
         NEW tx \in Tx, tx.by = c, Backed(SignatureOf(tx), asked),
         OwnChecks(tx) => Sender(tx) = c /\ Agreed(c, tx.u, asked), Submit(c, tx, "polling")
  PROVE  ClientEffect(c)
<1>1. /\ UNCHANGED <<chain, accepted, activityCache, cursor, since, now, asked>>
      /\ signed' = signed \cup {SignatureOf(tx)} /\ SignatureOf(tx).by = c
  BY DEF Submit, Signs, SignatureOf
<1>2. PICK pc, held : pc \in {"polling", "failed"} /\ Becomes(c, pc, held)
  BY DEF Submit
<1>3. /\ ClientType' /\ client'[c].pc = pc
      /\ client'[c].tries = client[c].tries /\ client[c].tries \in Nat
      /\ \A d \in Client \ {c} : client'[d] = client[d]
  BY <1>2, BecomesIs DEF Pc
<1>4. Pending(c) = 1 /\ Pending(c)' = 0 /\ Holding(c)' /\ Confirmed(c)'
  BY <1>2, <1>3 DEF Pending, Holding, Confirmed
<1>5. pool' = pool \/ (pool' = pool \cup {tx} /\ OwnChecks(tx))
  BY DEF Submit, Executes
<1>6. OwnChecks(tx) => Meant(tx, asked', signed')
  BY <1>1 DEF Meant
<1>7. Pending(c)' + client[c].tries + 1 <= Pending(c) + client'[c].tries
  BY <1>3, <1>4
<1>8. Backed(SignatureOf(tx), asked')
  BY <1>1
<1> QED
  BY <1>1, <1>3, <1>4, <1>5, <1>6, <1>7, <1>8 DEF ClientEffect

LEMMA IssueTxEffect ==
  ASSUME ClientType, NEW c \in Client, Holding(c), IssueTx(c)
  PROVE  ClientEffect(c)
<1> DEFINE td == client[c].held[1]
           u == ParseTypedData(td)
           tx == Signed(u[1], td, c)
<1>1. client[c].pc = "signing"
  BY DEF IssueTx
<1>2. PICK kind \in DOMAIN Decoded, b \in Nat, p \in Nat :
         /\ HasBaseTx(kind) /\ Request(c, kind, Struct[kind]) \in asked
         /\ client[c].held = <<TypedDataOf(Unsigned(kind, Fields(kind, Decoded[kind], c), b, p))>>
  BY <1>1 DEF Holding
<1> DEFINE v == Unsigned(kind, Fields(kind, Decoded[kind], c), b, p)
<1>3. td = TypedDataOf(v)
  BY <1>2
<1>4. CASE u = <<>>
  <2> DEFINE sig == [by |-> c, digest |-> td]
  <2>1. Becomes(c, "failed", <<>>) /\ UNCHANGED <<nodeVars, now, asked>> /\ signed' = signed \cup {sig}
    BY <1>4 DEF IssueTx, Signs
  <2>4. sig.by = c /\ sig.digest = td /\ sig = [by |-> c, digest |-> sig.digest]
    OBVIOUS
  <2> HIDE DEF sig
  <2>5. Backed(sig, asked')
    <3>1. Backed(sig, asked)
      <4> HIDE DEF td
      <4> QED
        BY <1>2, <1>3, <2>4, DescribedBacked
    <3> QED
      BY <2>1, <3>1
  <2>2. /\ ClientType' /\ client'[c].pc = "failed"
        /\ client'[c].tries = client[c].tries /\ client[c].tries \in Nat
        /\ \A d \in Client \ {c} : client'[d] = client[d]
    BY <2>1, BecomesIs DEF Pc
  <2>3. Pending(c) = 1 /\ Pending(c)' = 0 /\ Holding(c)' /\ Confirmed(c)'
    BY <1>1, <2>2 DEF Pending, Holding, Confirmed
  <2>6. Pending(c)' + client[c].tries + 1 <= Pending(c) + client'[c].tries
    BY <2>2, <2>3
  <2> QED
    BY <2>1, <2>2, <2>3, <2>4, <2>5, <2>6 DEF ClientEffect, nodeVars
<1>5. CASE u # <<>>
  <2>1. Submit(c, tx, "polling")
    BY <1>5 DEF IssueTx
  <2>2. /\ u[1] = Unsigned(kind, u[1].f, b, p) /\ kind \in Kind /\ u[1].f \in [Struct[kind] -> Value]
        /\ IF kind = "proposal" THEN u[1].f["ActionType"] = Zero
           ELSE td = TypedDataOf(u[1]) /\ u[1].f = Fields(kind, Struct[kind], c)
    <3> HIDE DEF td
    <3> QED
      BY <1>2, <1>3, <1>5, TypedRoundTrip
  <2> HIDE DEF u, td
  <2>3. u[1] \in UnsignedTx /\ v \in UnsignedTx
    <3>1. u[1] \in UnsignedTx
      <4> DEFINE f == u[1].f
      <4> HIDE DEF f
      <4>1. u[1] = Unsigned(kind, f, b, p) /\ f \in [Struct[kind] -> Value]
        BY <2>2 DEF f
      <4> QED
        BY <2>2, <4>1, UnsignedType
    <3>2. Fields(kind, Decoded[kind], c) \in [Struct[kind] -> Value]
      BY <2>2, FieldsType
    <3> QED
      BY <2>2, <3>1, <3>2, UnsignedType
  <2>4. tx \in Tx /\ tx.u = u[1] /\ tx.by = c /\ tx.digest = td
    <3> HIDE DEF v
    <3> QED
      BY <1>3, <2>3, SignedType
  <2> HIDE DEF tx, v
  <2>5. tx.u.kind = kind
    BY <2>2, <2>4, UnsignedParts
  <2>6. OwnChecks(tx) => Sender(tx) = c /\ Agreed(c, tx.u, asked)
    <3>1. CASE kind = "proposal"
      BY <2>2, <2>4, <2>5, <3>1 DEF OwnChecks
    <3>2. CASE kind # "proposal"
      <4>1. Sender(tx) = c /\ tx.u.f = Fields(kind, Struct[kind], c)
        BY <2>2, <2>4, <3>2 DEF Sender
      <4> QED
        BY <1>2, <2>5, <4>1, RequestAgreed
    <3> QED
      BY <3>1, <3>2
  <2>7. Backed(SignatureOf(tx), asked)
    <3>1. SignatureOf(tx).digest = td /\ SignatureOf(tx) = [by |-> c, digest |-> SignatureOf(tx).digest]
      BY <2>4 DEF SignatureOf
    <3> QED
      BY <1>2, <1>3, <3>1, DescribedBacked DEF v
  <2> QED
    BY <1>1, <2>1, <2>4, <2>6, <2>7, SubmitEffect
<1> QED
  BY <1>4, <1>5

\* A command that begins: what it asks for is remembered.
LEMMA WantsIs ==
  ASSUME NEW c, NEW kind, NEW given, Wants(c, kind, given)
  PROVE  asked \subseteq asked' /\ Request(c, kind, given) \in asked'
<1>1. Filled(kind, given, c).f = Fields(kind, given, c)
  BY FilledIs, UnsignedParts
<1> QED
  BY <1>1 DEF Wants, Request

LEMMA DividedFee ==
  ASSUME ChainType, FeeInv, NEW u
  PROVE  /\ SuggestedFee(now).price \in Nat
         /\ FeeUnits(u) # 0 => SuggestedFee(now).price + SuggestedFee(now).cost \div FeeUnits(u) \in Nat
<1> DEFINE x == SuggestedFee(now).price
           y == SuggestedFee(now).cost
           d == FeeUnits(u)
<1>1. x \in Nat /\ y \in Nat
  BY SuggestedFeeType
<1>2. d \in 0..2
  BY FeeUnitsRange
<1> HIDE DEF x, y, d
<1>3. d # 0 => y \div d \in Nat
  BY <1>1, <1>2, Division
<1>4. d # 0 => x + y \div d \in Nat
  <2> DEFINE z == y \div d
  <2> HIDE DEF z
  <2>1. d # 0 => x + z \in Nat
    BY <1>1, <1>3 DEF z
  <2> QED
    BY <2>1 DEF z
<1> QED
  BY <1>1, <1>4 DEF x, y, d

LEMMA BeginEffect ==
  ASSUME ClientType, NEW c \in Client, NEW kind \in Kind, NEW how, NEW pc \in Pc, NEW held, NEW given,
         Begins(c, kind, how, pc, held), Wants(c, kind, given), UNCHANGED <<nodeVars, now, signed>>,
         pc = "failed" \/ Holding(c)', pc # "confirmed"
  PROVE  ClientEffect(c)
<1>1. /\ ClientType' /\ client'[c].pc = pc /\ client'[c].held = held
      /\ client'[c].tries = client[c].tries + 1 /\ client[c].tries \in Nat
      /\ client[c].pc \in {"idle", "failed"}
      /\ \A d \in Client \ {c} : client'[d] = client[d]
  BY BeginsIs
<1>2. asked \subseteq asked'
  BY WantsIs
<1>3. Holding(c)' /\ Confirmed(c)'
  BY <1>1 DEF Holding, Confirmed
<1>4. Pending(c) = 0 /\ Pending(c)' \in 0..1
  BY <1>1 DEF Pending
<1>5. Pending(c)' + client[c].tries <= Pending(c) + client'[c].tries
  BY <1>1, <1>4
<1> QED
  BY <1>1, <1>2, <1>3, <1>5 DEF ClientEffect, nodeVars

LEMMA SuggestedFeeAPIEffect ==
  ASSUME ClientType, ChainType, FeeInv, NEW c \in Client, NEW kind \in Kind, SuggestedFeeAPI(c, kind)
  PROVE  ClientEffect(c)
<1> DEFINE fee == SuggestedFee(now)
           u == Filled(kind, Decoded[kind], c)
           price == fee.price + (IF FeeUnits(u) # 0 THEN fee.cost \div FeeUnits(u) ELSE 0)
           v == [u EXCEPT !.block = accepted, !.price = price]
<1>1. Wants(c, kind, Struct[kind]) /\ UNCHANGED <<nodeVars, now, signed>>
  BY DEF SuggestedFeeAPI
<1>2. CASE kind \in DOMAIN Decoded /\ HasBaseTx(kind)
  <2>1. Begins(c, kind, "typed", "signing", <<TypedDataOf(v)>>)
    BY <1>2 DEF SuggestedFeeAPI
  <2>2. price \in Nat /\ accepted \in Nat
    <3> HIDE DEF u
    <3> DEFINE x == fee.price
               y == fee.cost \div FeeUnits(u)
    <3>1. x \in Nat /\ (FeeUnits(u) # 0 => x + y \in Nat)
      BY DividedFee
    <3>2. accepted \in Nat
      BY ChainFacts
    <3> HIDE DEF x, y
    <3>3. price = x + (IF FeeUnits(u) # 0 THEN y ELSE 0)
      BY DEF x, y
    <3> HIDE DEF price
    <3> QED
      BY <3>1, <3>2, <3>3
  <2> HIDE DEF price, fee
  <2>3. v = Unsigned(kind, Fields(kind, Decoded[kind], c), accepted, price)
    <3> DEFINE given == Decoded[kind]
               f == Fields(kind, given, c)
               w == [Filled(kind, given, c) EXCEPT !.block = accepted]
               z == 0
    <3> HIDE DEF given
    <3>1. w = Unsigned(kind, f, accepted, z)
      BY FilledWithBlock
    <3>2. v = [w EXCEPT !.price = price]
      BY DEF given
    <3> HIDE DEF w, f, z
    <3>3. [w EXCEPT !.price = price] = Unsigned(kind, f, accepted, price)
      BY <3>1, WithPrice
    <3> QED
      BY <3>2, <3>3 DEF f, given
  <2> HIDE DEF v
  <2>4. /\ ClientType' /\ client'[c].pc = "signing" /\ client'[c].held = <<TypedDataOf(v)>>
        /\ client'[c].tries = client[c].tries + 1 /\ client[c].tries \in Nat
        /\ client[c].pc \in {"idle", "failed"}
        /\ \A d \in Client \ {c} : client'[d] = client[d]
    BY <2>1, PcValues, BeginsIs
  <2>5. Request(c, kind, Struct[kind]) \in asked'
    BY <1>1, WantsIs
  <2>6. client'[c].held = <<TypedDataOf(Unsigned(kind, Fields(kind, Decoded[kind], c), accepted, price))>>
    BY <2>3, <2>4
  <2>7. Holding(c)'
    BY <1>2, <2>2, <2>4, <2>5, <2>6
    DEF Holding, HasBaseTx, Request, Fields, TypedDataOf, Unsigned
  <2> QED
    BY <1>1, <2>1, <2>7, BeginEffect DEF Pc
<1>3. CASE ~(kind \in DOMAIN Decoded /\ HasBaseTx(kind))
  <2>1. Begins(c, kind, "typed", "failed", <<>>)
    BY <1>3 DEF SuggestedFeeAPI
  <2> QED
    BY <1>1, <2>1, BeginEffect DEF Pc
<1> QED
  BY <1>2, <1>3

LEMMA LastAcceptedEffect ==
  ASSUME ClientType, ChainType, NEW c \in Client, NEW kind \in Kind, LastAccepted(c, kind)
  PROVE  ClientEffect(c)
<1>1. Wants(c, kind, Command[kind]) /\ UNCHANGED <<nodeVars, now, signed>>
  BY DEF LastAccepted
<1>2. CASE Begins(c, kind, "raw", "failed", <<>>)
  BY <1>1, <1>2, BeginEffect DEF Pc
<1>3. CASE Begins(c, kind, "raw", "accepted", <<[Filled(kind, Command[kind], c) EXCEPT !.block = accepted]>>)
  <2> DEFINE v == [Filled(kind, Command[kind], c) EXCEPT !.block = accepted]
             z == 0
  <2>1. accepted \in Nat /\ z \in Nat
    BY ChainFacts
  <2>2. v = Unsigned(kind, Fields(kind, Command[kind], c), accepted, z)
    <3> DEFINE given == Command[kind]
    <3> HIDE DEF given
    <3>1. [Filled(kind, given, c) EXCEPT !.block = accepted] = Unsigned(kind, Fields(kind, given, c), accepted, 0)
      BY FilledWithBlock
    <3> QED
      BY <3>1 DEF given
  <2> HIDE DEF v, z
  <2>3. Begins(c, kind, "raw", "accepted", <<v>>)
    BY <1>3 DEF v
  <2>4. /\ ClientType' /\ client'[c].pc = "accepted" /\ client'[c].held = <<v>>
        /\ client'[c].tries = client[c].tries + 1 /\ client[c].tries \in Nat
        /\ client[c].pc \in {"idle", "failed"}
        /\ \A d \in Client \ {c} : client'[d] = client[d]
    BY <2>3, PcValues, BeginsIs
  <2>5. Request(c, kind, Command[kind]) \in asked'
    BY <1>1, WantsIs
  <2>6. client'[c].held = <<Unsigned(kind, Fields(kind, Command[kind], c), accepted, z)>>
    BY <2>2, <2>4
  <2>7. Holding(c)'
    BY <2>1, <2>4, <2>5, <2>6 DEF Holding, Request, Fields, Unsigned
  <2> QED
    BY <1>1, <2>3, <2>7, BeginEffect DEF Pc
<1> QED
  BY <1>2, <1>3 DEF LastAccepted

LEMMA SuggestedRawFeeEffect ==
  ASSUME ClientType, ChainType, FeeInv, NEW c \in Client, Holding(c), SuggestedRawFee(c)
  PROVE  ClientEffect(c)
<1> DEFINE u == client[c].held[1]
           x == SuggestedFee(now).price + SuggestedFee(now).cost \div FeeUnits(u)
           v == IF FeeUnits(u) = 0 THEN u ELSE [u EXCEPT !.price = x]
<1>1. client[c].pc = "accepted" /\ Becomes(c, "priced", <<v>>) /\ UNCHANGED <<nodeVars, now, asked, signed>>
  BY DEF SuggestedRawFee
<1>2. PICK kind \in Kind, b \in Nat, p \in Nat :
         /\ Request(c, kind, Command[kind]) \in asked
         /\ client[c].held = <<Unsigned(kind, Fields(kind, Command[kind], c), b, p)>>
  BY <1>1 DEF Holding
<1> DEFINE f == Fields(kind, Command[kind], c)
<1>3. u = Unsigned(kind, f, b, p)
  BY <1>2
<1>4. FeeUnits(u) # 0 => x \in Nat
  BY DividedFee
<1> HIDE DEF u, x, f
<1>5. PICK q \in Nat : v = Unsigned(kind, f, b, q)
  <2>1. CASE FeeUnits(u) = 0
    BY <1>3, <2>1
  <2>2. CASE FeeUnits(u) # 0
    <3>1. [Unsigned(kind, f, b, p) EXCEPT !.price = x] = Unsigned(kind, f, b, x)
      BY WithPrice
    <3> QED
      BY <1>3, <1>4, <2>2, <3>1
  <2> QED
    BY <2>1, <2>2
<1> HIDE DEF v
<1>6. /\ ClientType' /\ client'[c].pc = "priced" /\ client'[c].held = <<v>>
      /\ client'[c].tries = client[c].tries /\ client[c].tries \in Nat
      /\ \A d \in Client \ {c} : client'[d] = client[d]
  BY <1>1, BecomesIs DEF Pc
<1>7. Pending(c) = 1 /\ Pending(c)' = 1 /\ Confirmed(c)'
  BY <1>1, <1>6 DEF Pending, Confirmed
<1>8. client'[c].held = <<Unsigned(kind, Fields(kind, Command[kind], c), b, q)>> /\ Request(c, kind, Command[kind]) \in asked'
  BY <1>1, <1>2, <1>5, <1>6 DEF f
<1>9. Holding(c)'
  BY <1>6, <1>8 DEF Holding, Request, Fields, Unsigned
<1> QED
  BY <1>1, <1>6, <1>7, <1>9 DEF ClientEffect, nodeVars

\* A transaction that its own sender describes is as it was asked for.
LEMMA RawTx ==
  ASSUME NEW c \in Client, NEW kind \in Kind, NEW b \in Nat, NEW p \in Nat, NEW given, NEW u,
         u = Unsigned(kind, Fields(kind, given, c), b, p), NEW A, Request(c, kind, given) \in A
  PROVE  LET tx == Signed(u, TypedDataOf(u), c) IN
         /\ tx \in Tx /\ tx.by = c /\ Sender(tx) = c /\ Agreed(c, tx.u, A)
         /\ Backed(SignatureOf(tx), A) /\ SignatureOf(tx) = [by |-> c, digest |-> tx.digest]
<1> DEFINE tx == Signed(u, TypedDataOf(u), c)
<1>1. Fields(kind, given, c) \in [Struct[kind] -> Value]
  BY FieldsType
<1>2. u \in UnsignedTx
  BY <1>1, UnsignedType
<1>3. tx \in Tx /\ tx.u = u /\ tx.by = c /\ tx.digest = TypedDataOf(u)
  BY <1>2, SignedType
<1>4. u.kind = kind /\ u.f = Fields(kind, given, c)
  BY UnsignedParts
<1> HIDE DEF tx
<1>5. Sender(tx) = c
  BY <1>3 DEF Sender
<1>6. Agreed(c, u, A)
  BY <1>4, RequestAgreed
<1>7. SignatureOf(tx) = [by |-> c, digest |-> TypedDataOf(u)]
  BY <1>3 DEF SignatureOf
<1>8. Backed(SignatureOf(tx), A)
  BY <1>2, <1>6, <1>7 DEF Backed
<1> QED
  BY <1>3, <1>5, <1>6, <1>7, <1>8 DEF tx

LEMMA IssueRawTxEffect ==
  ASSUME ClientType, NEW c \in Client, Holding(c), IssueRawTx(c)
  PROVE  ClientEffect(c)
<1> DEFINE u == client[c].held[1]
           tx == Signed(u, TypedDataOf(u), c)
<1>1. client[c].pc = "priced" /\ Submit(c, tx, "polling")
  BY DEF IssueRawTx
<1>2. PICK kind \in Kind, b \in Nat, p \in Nat :
         /\ Request(c, kind, Command[kind]) \in asked
         /\ client[c].held = <<Unsigned(kind, Fields(kind, Command[kind], c), b, p)>>
  BY <1>1 DEF Holding
<1>3. u = Unsigned(kind, Fields(kind, Command[kind], c), b, p)
  BY <1>2
<1> HIDE DEF u
<1>4. /\ tx \in Tx /\ tx.by = c /\ Sender(tx) = c /\ Agreed(c, tx.u, asked)
      /\ Backed(SignatureOf(tx), asked)
  BY <1>2, <1>3, RawTx
<1> HIDE DEF tx
<1> QED
  BY <1>1, <1>2, <1>4, SubmitEffect

LEMMA SignSubmitRawTxEffect ==
  ASSUME ClientType, ChainType, FeeInv, NEW c \in Client, NEW kind \in Kind, SignSubmitRawTx(c, kind)
  PROVE  ClientEffect(c)
<1> DEFINE price == SuggestedFee(now).price
           u == [Filled(kind, Command[kind], c) EXCEPT !.block = accepted, !.price = price]
           tx == Signed(u, TypedDataOf(u), c)
<1>1. /\ Wants(c, kind, Command[kind])
      /\ UNCHANGED <<chain, accepted, activityCache, cursor, since, restarts, now>>
      /\ \/ /\ pool' = pool \cup {tx} /\ signed' = signed \cup {[by |-> c, digest |-> tx.digest]}
            /\ Begins(c, kind, "node", "idle", <<>>)
         \/ pool' = pool /\ signed' = signed /\ Begins(c, kind, "node", "failed", <<>>)
  BY DEF SignSubmitRawTx, Signs
<1>2. price \in Nat /\ accepted \in Nat
  BY ChainFacts, SuggestedFeeType
<1> HIDE DEF price
<1>3. u = Unsigned(kind, Fields(kind, Command[kind], c), accepted, price)
  <2> DEFINE given == Command[kind]
             f == Fields(kind, given, c)
             w == [Filled(kind, given, c) EXCEPT !.block = accepted]
             z == 0
  <2> HIDE DEF given
  <2>1. w = Unsigned(kind, f, accepted, z)
    BY FilledWithBlock
  <2>2. u = [w EXCEPT !.price = price]
    BY DEF given
  <2> HIDE DEF w, f, z
  <2>3. [w EXCEPT !.price = price] = Unsigned(kind, f, accepted, price)
    BY <2>1, WithPrice
  <2> QED
    BY <2>2, <2>3 DEF f, given
<1> HIDE DEF u
<1>5. asked \subseteq asked' /\ Request(c, kind, Command[kind]) \in asked'
  BY <1>1, WantsIs
<1>4. /\ tx \in Tx /\ tx.by = c /\ Sender(tx) = c /\ Agreed(c, tx.u, asked')
      /\ Backed(SignatureOf(tx), asked') /\ SignatureOf(tx) = [by |-> c, digest |-> tx.digest]
  <2> DEFINE A == asked'
  <2> HIDE DEF A
  <2>1. Request(c, kind, Command[kind]) \in A
    BY <1>5 DEF A
  <2>2. /\ tx \in Tx /\ tx.by = c /\ Sender(tx) = c /\ Agreed(c, tx.u, A)
        /\ Backed(SignatureOf(tx), A) /\ SignatureOf(tx) = [by |-> c, digest |-> tx.digest]
    BY <1>2, <1>3, <2>1, RawTx
  <2> QED
    BY <2>2 DEF A
<1> HIDE DEF tx
<1>6. PICK pc \in Pc : /\ pc \in {"idle", "failed"} /\ Begins(c, kind, "node", pc, <<>>)
                      /\ \/ pool' = pool /\ signed' = signed
                         \/ pool' = pool \cup {tx} /\ signed' = signed \cup {SignatureOf(tx)}
  BY <1>1, <1>4, PcValues
<1>7. /\ ClientType' /\ client'[c].pc = pc /\ client'[c].held = <<>>
      /\ client'[c].tries = client[c].tries + 1 /\ client[c].tries \in Nat
      /\ client[c].pc \in {"idle", "failed"}
      /\ \A d \in Client \ {c} : client'[d] = client[d]
  BY <1>6, PcValues, BeginsIs
<1>8. Pending(c) = 0 /\ Pending(c)' = 0 /\ Holding(c)' /\ Confirmed(c)'
  BY <1>6, <1>7 DEF Pending, Holding, Confirmed
<1>9. Pending(c)' + client[c].tries + 1 <= Pending(c) + client'[c].tries
  BY <1>7, <1>8
<1>10. Pending(c)' + client[c].tries <= Pending(c) + client'[c].tries
  BY <1>7, <1>8
<1>11. CASE pool' = pool /\ signed' = signed
  BY <1>1, <1>5, <1>7, <1>8, <1>10, <1>11 DEF ClientEffect
<1>12. CASE pool' = pool \cup {tx} /\ signed' = signed \cup {SignatureOf(tx)}
  <2>1. Meant(tx, asked', signed') /\ SignatureOf(tx).by = c
    BY <1>4, <1>12 DEF Meant
  <2> QED
    BY <1>1, <1>4, <1>5, <1>7, <1>8, <1>9, <1>12, <2>1 DEF ClientEffect
<1> QED
  BY <1>6, <1>11, <1>12

LEMMA PollTxEffect ==
  ASSUME ClientType, NEW c \in Client, PollTx(c) \/ GiveUp(c)
  PROVE  ClientEffect(c)
<1>1. client[c].pc = "polling" /\ UNCHANGED <<nodeVars, now, asked, signed>>
  BY DEF PollTx, GiveUp
<1>2. PICK pc, held :
         pc \in {"confirmed", "failed"} /\ Becomes(c, pc, held) /\ (pc = "confirmed" => held = client[c].held /\ HasTx(client[c].held[1]))
  BY DEF PollTx, GiveUp
<1>3. /\ ClientType' /\ client'[c].pc = pc /\ client'[c].held = held
      /\ client'[c].tries = client[c].tries /\ client[c].tries \in Nat
      /\ \A d \in Client \ {c} : client'[d] = client[d]
  BY <1>2, BecomesIs DEF Pc
<1>4. Pending(c) = 0 /\ Pending(c)' = 0 /\ Holding(c)'
  BY <1>1, <1>2, <1>3 DEF Pending, Holding
<1>5. Confirmed(c)'
  <2> SUFFICES ASSUME pc = "confirmed" PROVE \E i \in 1..accepted : held[1] \in Range(chain[i].txs)
    BY <1>1, <1>2, <1>3 DEF Confirmed, nodeVars
  <2>1. PICK q \in Executed(accepted) : At(q) = held[1]
    BY <1>2 DEF HasTx
  <2>2. PICK i \in 1..accepted : q \in {<<i, j>> : j \in DOMAIN chain[i].txs}
    BY DEF Executed
  <2>3. PICK j \in DOMAIN chain[i].txs : q = <<i, j>>
    BY <2>2
  <2>4. chain[i].txs[j] = held[1]
    BY <2>1, <2>3 DEF At
  <2> QED
    BY <2>3, <2>4 DEF Range
<1> QED
  BY <1>1, <1>3, <1>4, <1>5 DEF ClientEffect, nodeVars

-----------------------------------------------------------------------------
(* The ring of recent activity.                                             *)

\* h runs through the transactions of the blocks after the b-th up to the a-th.
Done(h, ch, a, b) ==
    /\ h \in [0..a - b -> Seq(Tx)] /\ h[0] = <<>>
    /\ \A n \in 0..a - b - 1 : h[n + 1] = h[n] \o ch[b + n + 1].txs

\* The ring holds the last ones that are done, each at its place.
Ring(done, ring, cur) ==
    /\ cur = Len(done) /\ DOMAIN ring = 0..CacheSize - 1
    /\ \A m \in 1..Len(done) :
          m > Len(done) - CacheSize => ring[(m - 1) % CacheSize] = <<Activity(done[m])>>

ActivityInv ==
    \E h : Done(h, chain, accepted, since) /\ Ring(h[accepted - since], activityCache, cursor)

LEMMA ActivityPrimed ==
  ASSUME NEW h, Done(h, chain', accepted', since'), Ring(h[accepted' - since'], activityCache', cursor')
  PROVE  ActivityInv'
BY DEF ActivityInv, Done, Ring, Activity, Sender, TypedDataOf

LEMMA ActivityFresh ==
  ASSUME ChainType', since' = accepted', cursor' = 0, activityCache' = [i \in 0..CacheSize - 1 |-> <<>>]
  PROVE  ActivityInv'
<1> DEFINE h == [n \in 0..0 |-> <<>>]
           a == accepted'
<1>1. a \in Nat /\ since' = a
  BY DEF ChainType
<1>2. h \in [0..0 -> Seq(Tx)] /\ h[0] = <<>>
  OBVIOUS
<1> HIDE DEF h, a
<1>3. a - a = 0 /\ 0..a - a - 1 = {}
  BY <1>1
<1>4. Done(h, chain', a, a)
  BY <1>2, <1>3 DEF Done
<1>5. Ring(<<>>, activityCache', cursor')
  BY DEF Ring
<1>6. Ring(h[a - a], activityCache', cursor')
  BY <1>2, <1>3, <1>5
<1> QED
  BY <1>1, <1>4, <1>6, ActivityPrimed DEF a

LEMMA ActivityKept ==
  ASSUME ChainType, ActivityInv, UNCHANGED <<accepted, since, activityCache, cursor>>,
         \A i \in 1..accepted : chain'[i] = chain[i]
  PROVE  ActivityInv'
<1>1. PICK h : Done(h, chain, accepted, since) /\ Ring(h[accepted - since], activityCache, cursor)
  BY DEF ActivityInv
<1>2. accepted \in Nat /\ since \in Nat \ {0} /\ since <= accepted
  BY ChainFacts
<1>3. Done(h, chain', accepted, since)
  <2>1. \A n \in 0..accepted - since - 1 : since + n + 1 \in 1..accepted
    BY <1>2
  <2> QED
    BY <1>1, <2>1 DEF Done
<1>4. Done(h, chain', accepted', since') /\ Ring(h[accepted' - since'], activityCache', cursor')
  BY <1>1, <1>3
<1> QED
  BY <1>4, ActivityPrimed

LEMMA ActivityGrows ==
  ASSUME ChainType, ActivityInv, Accept
  PROVE  ActivityInv'
<1> DEFINE s == chain[accepted + 1].txs
           N == accepted - since
           C == CacheSize
<1>1. PICK h : Done(h, chain, accepted, since) /\ Ring(h[N], activityCache, cursor)
  BY DEF ActivityInv
<1>2. accepted \in Nat /\ since \in Nat \ {0} /\ since <= accepted /\ N \in Nat /\ C \in Nat \ {0}
  BY ChainFacts, Numbers
<1>3. /\ accepted < Len(chain) /\ accepted' = accepted + 1 /\ UNCHANGED <<chain, since>>
      /\ activityCache' = [k \in 0..C - 1 |->
                              LET at == {i \in DOMAIN s : (cursor + i - 1) % C = k}
                              IN  IF at = {} THEN activityCache[k] ELSE <<Activity(s[Max(at)])>>]
      /\ cursor' = cursor + Len(s)
  BY DEF Accept
<1>4. s \in Seq(Tx)
  <2>1. accepted + 1 \in 1..Len(chain)
    BY <1>2, <1>3, ChainFacts
  <2> QED
    BY <2>1, ChainFacts
<1> DEFINE d == h[N]
           e == d \o s
           g == [n \in 0..N + 1 |-> IF n <= N THEN h[n] ELSE e]
<1>5. h \in [0..N -> Seq(Tx)] /\ h[0] = <<>> /\ \A n \in 0..N - 1 : h[n + 1] = h[n] \o chain[since + n + 1].txs
  BY <1>1 DEF Done
<1>6. d \in Seq(Tx) /\ cursor = Len(d) /\ DOMAIN activityCache = 0..C - 1
      /\ \A m \in 1..Len(d) : m > Len(d) - C => activityCache[(m - 1) % C] = <<Activity(d[m])>>
  BY <1>1, <1>2, <1>5 DEF Ring
<1>7. accepted' - since' = N + 1 /\ since + N + 1 = accepted + 1
  BY <1>2, <1>3
<1> HIDE DEF s, N, C, d
<1>8. e \in Seq(Tx) /\ Len(e) = Len(d) + Len(s) /\ Len(d) \in Nat /\ Len(s) \in Nat /\ DOMAIN s = 1..Len(s)
      /\ \A m \in 1..Len(d) : e[m] = d[m]
  BY <1>4, <1>6
<1>9. \A m \in Len(d) + 1..Len(d) + Len(s) : m - Len(d) \in 1..Len(s) /\ e[m] = s[m - Len(d)]
  BY <1>4, <1>6
<1>14. e = d \o s
  OBVIOUS
<1> HIDE DEF e
<1>10. g \in [0..N + 1 -> Seq(Tx)] /\ g[N + 1] = e /\ \A n \in 0..N : g[n] = h[n]
  BY <1>2, <1>5, <1>8
<1> HIDE DEF g
<1>11. Done(g, chain, accepted + 1, since)
  <2>1. ASSUME NEW n \in 0..N PROVE g[n + 1] = g[n] \o chain[since + n + 1].txs
    <3>1. CASE n = N
      <4>1. g[n + 1] = d \o s /\ g[n] = d /\ chain[since + n + 1].txs = s
        BY <1>2, <1>7, <1>10, <1>14, <3>1 DEF d, s
      <4> QED
        BY <4>1, Zenon
    <3>2. CASE n # N
      <4>1. n \in 0..N - 1 /\ n + 1 \in 0..N
        BY <1>2, <3>2
      <4> QED
        BY <1>5, <1>10, <4>1
    <3> QED
      BY <3>1, <3>2
  <2>2. g[0] = <<>>
    BY <1>2, <1>5, <1>10
  <2>3. 0..(N + 1) - 1 = 0..N
    BY <1>2
  <2>4. (accepted + 1) - since = N + 1
    BY <1>2 DEF N
  <2> QED
    BY <1>10, <2>1, <2>2, <2>3, <2>4 DEF Done
<1>12. ASSUME NEW m \in 1..Len(e), m > Len(e) - C
       PROVE  activityCache'[(m - 1) % C] = <<Activity(e[m])>>
  <2> DEFINE k == (m - 1) % C
             at == {i \in DOMAIN s : (cursor + i - 1) % C = k}
  <2>1. m - 1 \in Nat /\ k \in 0..C - 1
    <3> DEFINE x == m - 1
    <3>1. x \in Nat
      BY <1>8
    <3> HIDE DEF x
    <3>2. x % C \in 0..C - 1
      BY <1>2, <3>1, Division
    <3> QED
      BY <3>1, <3>2 DEF x
  <2>2. activityCache'[k] = IF at = {} THEN activityCache[k] ELSE <<Activity(s[Max(at)])>>
    <3> HIDE DEF k
    <3> QED
      BY <1>3, <2>1
  <2>3. \A i \in at : i \in 1..Len(s) /\ cursor + i - 1 \in Nat /\ (cursor + i - 1) % C = (m - 1) % C
    BY <1>6, <1>8
  <2>4. CASE m \in 1..Len(d)
    <3>1. at = {}
      <4> SUFFICES ASSUME NEW i \in at PROVE FALSE
        OBVIOUS
      <4>1. i \in 1..Len(s) /\ cursor + i - 1 \in Nat /\ (cursor + i - 1) % C = (m - 1) % C
        BY <2>3
      <4>2. m - 1 < cursor + i - 1
        BY <1>6, <1>8, <2>4, <4>1
      <4> HIDE DEF at, k
      <4> DEFINE x == m - 1
                 y == cursor + i - 1
      <4>3. y - x >= C
        <5>1. x \in Nat /\ y \in Nat /\ x < y /\ x % C = y % C
          BY <2>1, <4>1, <4>2
        <5> HIDE DEF x, y
        <5> QED
          BY <1>2, <5>1, RoundsApart
      <4> QED
        BY <1>2, <1>6, <1>8, <1>12, <2>4, <4>1, <4>3
    <3>2. activityCache[k] = <<Activity(d[m])>>
      <4>1. m > Len(d) - C
        BY <1>2, <1>8, <1>12, <2>4
      <4> QED
        BY <1>6, <2>4, <4>1
    <3> HIDE DEF at, k
    <3> QED
      BY <1>8, <2>2, <2>4, <3>1, <3>2 DEF k
  <2>5. CASE m \in Len(d) + 1..Len(d) + Len(s)
    <3> DEFINE j == m - Len(d)
    <3>1. j \in 1..Len(s) /\ e[m] = s[j] /\ cursor + j - 1 = m - 1
      BY <1>6, <1>8, <1>9, <2>5
    <3> HIDE DEF j
    <3>2. j \in at
      BY <1>8, <3>1
    <3>3. ASSUME NEW i \in at PROVE i <= j
      <4> SUFFICES ASSUME j < i PROVE FALSE
        BY <1>8, <2>3, <3>1
      <4>1. i \in 1..Len(s) /\ cursor + i - 1 \in Nat /\ (cursor + i - 1) % C = (m - 1) % C
        BY <2>3
      <4>2. m - 1 < cursor + i - 1
        BY <1>6, <1>8, <3>1, <4>1
      <4> HIDE DEF at, k
      <4> DEFINE x == m - 1
                 y == cursor + i - 1
      <4>3. y - x >= C
        <5>1. x \in Nat /\ y \in Nat /\ x < y /\ x % C = y % C
          BY <2>1, <4>1, <4>2
        <5> HIDE DEF x, y
        <5> QED
          BY <1>2, <5>1, RoundsApart
      <4> QED
        BY <1>2, <1>6, <1>8, <1>12, <2>5, <4>1, <4>3
    <3>4. Max(at) = j
      <4>1. at \subseteq Nat
        BY <2>3
      <4> HIDE DEF at
      <4>2. \A x \in at : (\A y \in at : x >= y) => x = j
        BY <3>2, <3>3, <4>1
      <4>3. \A y \in at : j >= y
        BY <3>3, <3>2, <4>1
      <4> QED
        BY <3>2, <4>2, <4>3 DEF Max
    <3> HIDE DEF at, k
    <3> QED
      BY <2>2, <3>1, <3>2, <3>4 DEF k
  <2> QED
    BY <1>8, <2>4, <2>5
<1>13. Ring(e, activityCache', cursor')
  <2>1. DOMAIN activityCache' = 0..CacheSize - 1 /\ cursor' = Len(e)
    BY <1>3, <1>6, <1>8 DEF C
  <2> QED
    BY <1>12, <2>1 DEF Ring, C
<1>15. Done(g, chain', accepted', since') /\ g[accepted' - since'] = e
  BY <1>3, <1>7, <1>10, <1>11
<1>16. Ring(g[accepted' - since'], activityCache', cursor')
  BY <1>13, <1>15
<1> QED
  <2> PICK G : G = g
    OBVIOUS
  <2>1. Done(G, chain', accepted', since') /\ Ring(G[accepted' - since'], activityCache', cursor')
    BY <1>15, <1>16
  <2> QED
    BY <2>1, ActivityPrimed

\* RecentActivity reads the ring as it was written.
LEMMA ActivityRead ==
  ASSUME ChainType, ActivityInv
  PROVE  ActivityExact
<1> DEFINE N == accepted - since
           C == CacheSize
           P(t) == t = [n \in 0..N |-> IF n = 0 THEN <<>> ELSE t[n - 1] \o chain[since + n].txs]
           g == CHOOSE t : P(t)
<1>1. accepted \in Nat /\ since \in Nat \ {0} /\ since <= accepted /\ N \in Nat /\ C \in Nat \ {0}
  BY ChainFacts, Numbers
<1>2. PICK h : Done(h, chain, accepted, since) /\ Ring(h[N], activityCache, cursor)
  BY DEF ActivityInv
<1>3. h \in [0..N -> Seq(Tx)] /\ h[0] = <<>> /\ \A n \in 0..N - 1 : h[n + 1] = h[n] \o chain[since + n + 1].txs
  BY <1>2 DEF Done
<1>4. P(h)
  <2> HIDE DEF N
  <2>1. ASSUME NEW n \in 0..N PROVE h[n] = IF n = 0 THEN <<>> ELSE h[n - 1] \o chain[since + n].txs
    <3>1. CASE n = 0
      BY <1>3, <3>1
    <3>2. CASE n # 0
      <4>1. n - 1 \in 0..N - 1 /\ (n - 1) + 1 = n /\ since + (n - 1) + 1 = since + n
        BY <1>1, <3>2
      <4>2. h[(n - 1) + 1] = h[n - 1] \o chain[since + (n - 1) + 1].txs
        BY <1>3, <4>1
      <4> QED
        BY <3>2, <4>1, <4>2
    <3> QED
      BY <3>1, <3>2
  <2>2. h = [n \in 0..N |-> h[n]]
    BY <1>3
  <2> QED
    BY <2>1, <2>2
<1>5. P(g)
  <2>1. \E t : P(t)
    BY <1>4
  <2> HIDE DEF P
  <2> QED
    BY <2>1, Zenon
<1>6. g[N] = h[N]
  <2> HIDE DEF g
  <2>1. g[0] = <<>> /\ \A n \in 0..N - 1 : g[n + 1] = g[n] \o chain[since + n + 1].txs
    <3> HIDE DEF N
    <3>1. g[0] = <<>>
      BY <1>1, <1>5
    <3>2. ASSUME NEW n \in 0..N - 1 PROVE g[n + 1] = g[n] \o chain[since + n + 1].txs
      <4>1. n + 1 \in 0..N /\ (n + 1) - 1 = n /\ n + 1 # 0 /\ since + (n + 1) = since + n + 1
        BY <1>1
      <4>2. g[n + 1] = g[(n + 1) - 1] \o chain[since + (n + 1)].txs
        BY <1>5, <4>1
      <4> QED
        BY <4>1, <4>2
    <3> QED
      BY <3>1, <3>2
  <2> HIDE DEF N
  <2> DEFINE Q == {n \in Nat : n <= N => g[n] = h[n]}
  <2>2. 0 \in Q
    BY <1>3, <2>1
  <2>3. ASSUME NEW n \in Nat, n \in Q, n < N PROVE n + 1 \in Q
    <3>1. n \in 0..N - 1 /\ g[n] = h[n]
      BY <1>1, <2>3
    <3>2. g[n + 1] = h[n + 1]
      BY <1>3, <2>1, <3>1
    <3> QED
      BY <3>2
  <2>4. 0..N \subseteq Q
    <3>1. Q \subseteq Nat
      OBVIOUS
    <3> HIDE DEF Q
    <3> QED
      BY <1>1, <2>2, <2>3, <3>1, NumbersUpTo
  <2> QED
    BY <1>1, <2>4
<1> DEFINE d == h[N]
           R == RecentActivity
           k0 == Min({cursor, C})
<1>7. d \in Seq(Tx) /\ cursor = Len(d) /\ Len(d) \in Nat
      /\ \A m \in 1..Len(d) : m > Len(d) - C => activityCache[(m - 1) % C] = <<Activity(d[m])>>
  BY <1>1, <1>2, <1>3 DEF Ring
<1> HIDE DEF d
<1>8. k0 \in Nat /\ k0 <= cursor /\ k0 <= C
  <2>1. {cursor, C} \in SUBSET Nat /\ {cursor, C} # {}
    BY <1>1, <1>7
  <2>2. k0 \in {cursor, C} /\ \A x \in {cursor, C} : k0 <= x
    BY <2>1, Smallest
  <2> QED
    BY <2>1, <2>2
<1>9. R = [k \in 1..k0 |-> activityCache[(cursor - k) % C]]
  BY DEF RecentActivity
<1> HIDE DEF k0, R, C
<1>10. Len(R) = k0 /\ DOMAIN R = 1..k0
  BY <1>8, <1>9
<1>11. ASSUME NEW k \in 1..k0 PROVE R[k] = <<Activity(d[Len(d) - k + 1])>>
  <2> DEFINE m == Len(d) - k + 1
  <2>1. m \in 1..Len(d) /\ m > Len(d) - C /\ m - 1 = cursor - k
    BY <1>1, <1>7, <1>8
  <2> HIDE DEF m
  <2>2. activityCache[(m - 1) % C] = <<Activity(d[m])>>
    BY <1>7, <2>1
  <2> QED
    BY <1>9, <2>1, <2>2 DEF m
<1>12. ActivityExact = (/\ Len(R) = Min({Len(g[N]), C})
                        /\ \A k \in DOMAIN R : R[k] = <<Activity(g[N][Len(g[N]) - k + 1])>>)
  BY DEF ActivityExact, R, C
<1> HIDE DEF g, N
<1>13. g[N] = d
  BY <1>6 DEF d
<1>14. Len(R) = Min({Len(d), C})
  BY <1>7, <1>10 DEF k0
<1>15. \A k \in DOMAIN R : R[k] = <<Activity(d[Len(d) - k + 1])>>
  BY <1>10, <1>11
<1> QED
  BY <1>12, <1>13, <1>14, <1>15, Zenon

-----------------------------------------------------------------------------
(* How often a client has signed.                                           *)

SignedBy(c) == {s \in signed : s.by = c}

\* Each signature of a client is of another run of its command.
Counted(c) == IsFiniteSet(SignedBy(c)) /\ Cardinality(SignedBy(c)) + Pending(c) <= client[c].tries

CountInv == \A c \in Client : Counted(c)

LEMMA CountedStep ==
  ASSUME ClientType, ClientType', NEW c \in Client, Counted(c),
         \/ SignedBy(c)' \subseteq SignedBy(c) /\ Pending(c)' + client[c].tries <= Pending(c) + client'[c].tries
         \/ \E tx : /\ SignedBy(c)' \subseteq SignedBy(c) \cup {tx}
                    /\ Pending(c)' + client[c].tries + 1 <= Pending(c) + client'[c].tries
  PROVE  Counted(c)'
<1> DEFINE M == SignedBy(c)
           W == SignedBy(c)'
           x == Pending(c)
           y == Pending(c)'
           n == client[c].tries
           m == client'[c].tries
<1>1. x \in Nat /\ y \in Nat /\ n \in Nat /\ m \in Nat
  BY IssueAssumption DEF ClientType, Pending
<1>2. IsFiniteSet(M) /\ Cardinality(M) + x <= n
  BY DEF Counted
<1>3. \/ W \subseteq M /\ y + n <= x + m
      \/ \E tx : W \subseteq M \cup {tx} /\ y + n + 1 <= x + m
  OBVIOUS
<1>4. SUFFICES IsFiniteSet(W) /\ Cardinality(W) + y <= m
  BY DEF Counted
<1> HIDE DEF M, W, x, y, n, m
<1>5. Cardinality(M) \in Nat
  BY <1>2, FS_CardinalityType
<1>6. CASE W \subseteq M /\ y + n <= x + m
  <2>1. IsFiniteSet(W) /\ Cardinality(W) <= Cardinality(M) /\ Cardinality(W) \in Nat
    BY <1>2, <1>6, FS_Subset, FS_CardinalityType
  <2> QED
    BY <1>1, <1>2, <1>5, <1>6, <2>1
<1>7. CASE \E tx : W \subseteq M \cup {tx} /\ y + n + 1 <= x + m
  <2>1. PICK tx : W \subseteq M \cup {tx} /\ y + n + 1 <= x + m
    BY <1>7
  <2>2. IsFiniteSet(M \cup {tx}) /\ Cardinality(M \cup {tx}) <= Cardinality(M) + 1
        /\ Cardinality(M \cup {tx}) \in Nat
    <3>1. IsFiniteSet(M \cup {tx}) /\ (Cardinality(M \cup {tx}) = Cardinality(M) \/ Cardinality(M \cup {tx}) = Cardinality(M) + 1)
      <4>1. CASE tx \in M
        <5>1. M \cup {tx} = M
          BY <4>1
        <5> QED
          BY <1>2, <5>1
      <4>2. CASE tx \notin M
        BY <1>2, <4>2, FS_AddElement
      <4> QED
        BY <4>1, <4>2
    <3> QED
      BY <1>5, <3>1
  <2>3. IsFiniteSet(W) /\ Cardinality(W) <= Cardinality(M \cup {tx}) /\ Cardinality(W) \in Nat
    BY <2>1, <2>2, FS_Subset, FS_CardinalityType
  <2> QED
    BY <1>1, <1>2, <1>5, <2>1, <2>2, <2>3
<1> QED
  BY <1>3, <1>6, <1>7

LEMMA CountedByNode ==
  ASSUME CountInv, UNCHANGED <<client, signed>>
  PROVE  CountInv'
BY DEF CountInv, Counted, SignedBy, Pending

-----------------------------------------------------------------------------
(* The invariant.                                                           *)

ClientsInv == ClientType /\ \A c \in Client : Holding(c) /\ Confirmed(c)

Inv ==
    /\ ChainType /\ FeeInv /\ CoveredInv /\ PlaceInv /\ PoolInv /\ SignedInv
    /\ ClientsInv /\ CountInv /\ ActivityInv

LEMMA InitInv ==
  Init => Inv
<1> SUFFICES ASSUME Init PROVE Inv
  OBVIOUS
<1> DEFINE b == [time |-> 0, price |-> MinPrice, cost |-> 0, units |-> 0, txs |-> <<>>]
<1>1. b \in Block /\ b.time = 0 /\ b.price = MinPrice /\ b.cost = 0 /\ b.txs = <<>> /\ chain = <<b>>
  BY Numbers DEF Init, Block
<1> HIDE DEF b
<1>2. chain \in Seq(Block) /\ Len(chain) = 1 /\ chain[1] = b /\ Len(chain[1].txs) = 0
  BY <1>1
<1>3. ChainType
  BY <1>2, Numbers, FS_EmptySet DEF ChainType, Init
<1>4. FeeInv
  BY <1>1, <1>2, Numbers DEF FeeInv, Init
<1>5. CoveredInv /\ PlaceInv
  BY <1>2 DEF CoveredInv, PlaceInv
<1>6. PoolInv /\ SignedInv
  BY DEF PoolInv, SignedInv, Init
<1>7. ClientType
  <2>1. \A c \in Client : client[c] = [pc |-> "idle", kind |-> "none", tries |-> 0, held |-> <<>>]
    BY DEF Init
  <2>2. client = [c \in Client |-> client[c]]
    BY DEF Init
  <2> QED
    BY <2>1, <2>2, IssueAssumption DEF ClientType, Pc
<1>8. \A c \in Client : client[c].pc = "idle" /\ client[c].tries = 0
  BY DEF Init
<1>9. ClientsInv
  BY <1>7, <1>8 DEF ClientsInv, Holding, Confirmed
<1>10. CountInv
  <2> SUFFICES ASSUME NEW c \in Client PROVE Counted(c)
    BY DEF CountInv
  <2>1. SignedBy(c) = {}
    BY DEF SignedBy, Init
  <2>2. Pending(c) = 0
    BY <1>8 DEF Pending
  <2> QED
    BY <1>8, <2>1, <2>2, FS_EmptySet DEF Counted
<1>11. ActivityInv
  <2> DEFINE h == [n \in 0..0 |-> <<>>]
  <2>1. h \in [0..0 -> Seq(Tx)] /\ h[0] = <<>>
    OBVIOUS
  <2> HIDE DEF h
  <2>2. accepted = 1 /\ since = 1 /\ 1 - 1 = 0 /\ 0..1 - 1 - 1 = {}
    BY DEF Init
  <2>3. Done(h, chain, accepted, since)
    BY <2>1, <2>2 DEF Done
  <2>4. Ring(<<>>, activityCache, cursor)
    BY DEF Ring, Init
  <2>5. Ring(h[accepted - since], activityCache, cursor)
    BY <2>1, <2>2, <2>4
  <2> QED
    BY <2>3, <2>5 DEF ActivityInv
<1> QED
  BY <1>3, <1>4, <1>5, <1>6, <1>9, <1>10, <1>11 DEF Inv

\* A step of a client.
LEMMA ClientStep ==
  ASSUME Inv, NEW c \in Client, ClientEffect(c)
  PROVE  Inv'
<1>1. /\ UNCHANGED <<chain, accepted, activityCache, cursor, since, now>>
      /\ asked \subseteq asked' /\ ClientType' /\ Holding(c)' /\ Confirmed(c)'
      /\ \A d \in Client \ {c} : client'[d] = client[d]
  BY DEF ClientEffect
<1>2. signed \subseteq signed' /\ \A s \in signed' \ signed : s.by = c /\ Backed(s, asked')
  BY DEF ClientEffect
<1>3. ChainType'
  <2>1. pool' = pool \/ \E tx \in Tx : pool' = pool \cup {tx}
    BY DEF ClientEffect
  <2>2. pool' \in SUBSET Tx /\ IsFiniteSet(pool')
    BY <2>1, FS_AddElement DEF Inv, ChainType
  <2> QED
    BY <1>1, <2>2 DEF Inv, ChainType
<1>4. FeeInv' /\ CoveredInv' /\ PlaceInv'
  <2>1. Len(chain') <= Len(chain) /\ (\A i \in 1..Len(chain') : chain'[i] = chain[i]) /\ now <= now'
    BY <1>1, ChainFacts DEF Inv
  <2> QED
    BY <1>1, <1>2, <1>3, <2>1, ChainKept DEF Inv
<1>5. PoolInv'
  <2> SUFFICES ASSUME NEW t \in pool' PROVE Meant(t, asked', signed')
    BY DEF PoolInv, Meant, SignatureOf, Agreed, AsSigned, Sender, TypedDataOf
  <2>1. CASE t \in pool
    BY <1>1, <1>2, <2>1, MoreAsked DEF Inv, PoolInv
  <2>2. CASE t \notin pool
    BY <2>2 DEF ClientEffect
  <2> QED
    BY <2>1, <2>2
<1>9. SignedInv'
  <2> SUFFICES ASSUME NEW s \in signed' PROVE Backed(s, asked')
    BY DEF SignedInv, Backed, Agreed, AsSigned, TypedDataOf
  <2>1. CASE s \in signed
    BY <1>1, <1>2, <2>1, MoreAsked DEF Inv, SignedInv
  <2> QED
    BY <1>2, <2>1
<1>6. ClientsInv'
  <2> SUFFICES ASSUME NEW d \in Client, d # c PROVE Holding(d)' /\ Confirmed(d)'
    BY <1>1 DEF ClientsInv
  <2>1. Holding(d) /\ Confirmed(d) /\ client'[d] = client[d]
    BY <1>1 DEF Inv, ClientsInv
  <2>2. Confirmed(d)'
    BY <1>1, <2>1 DEF Confirmed
  <2>3. Holding(d)'
    <3>1. CASE client[d].pc = "signing"
      <4>1. PICK kind \in DOMAIN Decoded, b \in Nat, p \in Nat :
               /\ HasBaseTx(kind) /\ Request(d, kind, Struct[kind]) \in asked
               /\ client[d].held = <<TypedDataOf(Unsigned(kind, Fields(kind, Decoded[kind], d), b, p))>>
        BY <2>1, <3>1 DEF Holding
      <4>2. Request(d, kind, Struct[kind]) \in asked'
        BY <1>1, <4>1
      <4> QED
        <5>1. \E k \in DOMAIN Decoded, x \in Nat, y \in Nat :
                /\ HasBaseTx(k) /\ Request(d, k, Struct[k]) \in asked'
                /\ client'[d].held = <<TypedDataOf(Unsigned(k, Fields(k, Decoded[k], d), x, y))>>
          BY <2>1, <4>1, <4>2
        <5>2. client'[d].pc = "signing"
          BY <2>1, <3>1
        <5> QED
          BY <5>1, <5>2, Zenon DEF Holding
    <3>2. CASE client[d].pc \in {"accepted", "priced"}
      <4>1. PICK kind \in Kind, b \in Nat, p \in Nat :
               /\ Request(d, kind, Command[kind]) \in asked
               /\ client[d].held = <<Unsigned(kind, Fields(kind, Command[kind], d), b, p)>>
        BY <2>1, <3>2 DEF Holding
      <4>2. Request(d, kind, Command[kind]) \in asked'
        BY <1>1, <4>1
      <4> QED
        BY <2>1, <3>2, <4>1, <4>2 DEF Holding, Request, Fields, Unsigned
    <3> QED
      BY <2>1, <3>1, <3>2 DEF Holding
  <2> QED
    BY <2>2, <2>3
<1>7. CountInv'
  <2> SUFFICES ASSUME NEW d \in Client PROVE Counted(d)'
    BY DEF CountInv
  <2>1. CASE d = c
    <3>1. CASE signed' = signed /\ Pending(c)' + client[c].tries <= Pending(c) + client'[c].tries
      <4>1. SignedBy(c)' \subseteq SignedBy(c)
        BY <3>1 DEF SignedBy
      <4> QED
        BY <1>1, <2>1, <3>1, <4>1, CountedStep DEF Inv, CountInv, ClientsInv
    <3>2. CASE \E s : /\ signed' = signed \cup {s}
                      /\ Pending(c)' + client[c].tries + 1 <= Pending(c) + client'[c].tries
      <4>1. PICK s : /\ signed' = signed \cup {s}
                     /\ Pending(c)' + client[c].tries + 1 <= Pending(c) + client'[c].tries
        BY <3>2
      <4>2. SignedBy(c)' \subseteq SignedBy(c) \cup {s}
        BY <4>1 DEF SignedBy
      <4> QED
        BY <1>1, <2>1, <4>1, <4>2, CountedStep DEF Inv, CountInv, ClientsInv
    <3> QED
      BY <3>1, <3>2 DEF ClientEffect
  <2>2. CASE d # c
    <3>1. client'[d] = client[d]
      BY <1>1, <2>2
    <3>2. SignedBy(d)' \subseteq SignedBy(d)
      BY <1>2, <2>2 DEF SignedBy
    <3>3. Pending(d)' = Pending(d) /\ Pending(d) \in Nat /\ client[d].tries \in Nat
      BY <3>1, IssueAssumption DEF Pending, Inv, ClientsInv, ClientType
    <3>4. Pending(d)' + client[d].tries <= Pending(d) + client'[d].tries
      BY <3>1, <3>3
    <3> QED
      BY <1>1, <3>2, <3>4, CountedStep DEF Inv, CountInv, ClientsInv
  <2> QED
    BY <2>1, <2>2
<1>8. ActivityInv'
  <2>1. \A i \in 1..accepted : chain'[i] = chain[i]
    BY <1>1
  <2> QED
    BY <1>1, <2>1, ActivityKept DEF Inv
<1> QED
  BY <1>3, <1>4, <1>5, <1>6, <1>7, <1>8, <1>9 DEF Inv

\* A step of the node leaves the clients and what is accepted alone.
LEMMA NodeClients ==
  ASSUME ClientsInv, ChainType, UNCHANGED <<client, asked>>, accepted' \in Nat, accepted <= accepted',
         \A i \in 1..accepted : chain'[i] = chain[i]
  PROVE  ClientsInv'
<1>1. ClientType'
  BY DEF ClientsInv, ClientType
<1>2. ASSUME NEW c \in Client PROVE Holding(c)'
  BY DEF ClientsInv, Holding
<1>3. ASSUME NEW c \in Client PROVE Confirmed(c)'
  <2> SUFFICES ASSUME client[c].pc = "confirmed"
               PROVE  \E i \in 1..accepted' : client[c].held[1] \in Range(chain'[i].txs)
    BY DEF Confirmed
  <2>1. PICK i \in 1..accepted : client[c].held[1] \in Range(chain[i].txs)
    BY DEF ClientsInv, Confirmed
  <2>2. i \in 1..accepted' /\ chain'[i] = chain[i]
    BY ChainFacts
  <2> QED
    BY <2>1, <2>2
<1> QED
  BY <1>1, <1>2, <1>3 DEF ClientsInv

LEMMA SignedKept ==
  ASSUME SignedInv, UNCHANGED <<asked, signed>>
  PROVE  SignedInv'
BY DEF SignedInv, Backed, Agreed, AsSigned, TypedDataOf

LEMMA BuildBlockInv ==
  ASSUME Inv, BuildBlock
  PROVE  Inv'
<1>0. ChainType /\ FeeInv /\ CoveredInv /\ PlaceInv /\ PoolInv /\ SignedInv /\ ClientsInv /\ CountInv /\ ActivityInv /\ ClientType
  BY DEF Inv, ClientsInv
<1>1. UNCHANGED <<accepted, activityCache, cursor, since, now, client, asked, signed>>
  BY DEF BuildBlock
<1>2. /\ pool' \subseteq pool
      /\ chain' = chain \/ \E b \in Block : Built(b) /\ chain' = Append(chain, b)
  BY <1>0, BuildEffect
<1>3. Len(chain) \in Nat /\ accepted \in Nat \ {0} /\ since \in Nat \ {0} /\ since <= accepted /\ accepted <= Len(chain)
      /\ now \in Nat /\ chain \in Seq(Block)
  BY <1>0, ChainFacts DEF ChainType
<1>4. IsFiniteSet(pool') /\ pool' \in SUBSET Tx
  BY <1>0, <1>2, FS_Subset DEF ChainType
<1>5. PoolInv'
  BY <1>0, <1>1, <1>2 DEF PoolInv, Meant, SignatureOf, Agreed, AsSigned, Sender, TypedDataOf
<1>8. SignedInv' /\ CountInv'
  BY <1>0, <1>1, SignedKept, CountedByNode
<1>6. CASE chain' = chain
  <2>1. ChainType'
    BY <1>0, <1>1, <1>4, <1>6 DEF ChainType
  <2>2. Len(chain') <= Len(chain) /\ (\A i \in 1..Len(chain') : chain'[i] = chain[i]) /\ now <= now' /\ asked \subseteq asked' /\ signed \subseteq signed'
    BY <1>1, <1>3, <1>6
  <2>3. FeeInv' /\ CoveredInv' /\ PlaceInv'
    BY <1>0, <2>1, <2>2, ChainKept
  <2>4. /\ \A i \in 1..accepted : chain'[i] = chain[i]
        /\ accepted' \in Nat /\ accepted <= accepted'
    BY <1>1, <1>3, <1>6
  <2>5. ClientsInv' /\ ActivityInv'
    BY <1>0, <1>1, <2>4, NodeClients, ActivityKept
  <2> QED
    BY <1>5, <1>8, <2>1, <2>3, <2>5 DEF Inv
<1>7. CASE \E b \in Block : Built(b) /\ chain' = Append(chain, b)
  <2>0. PICK b \in Block : Built(b) /\ chain' = Append(chain, b)
    BY <1>7
  <2> DEFINE n == Len(chain)
             new == chain'
  <2>1. new \in Seq(Block) /\ Len(new) = n + 1 /\ new[n + 1] = b /\ \A i \in 1..n : new[i] = chain[i]
    BY <1>3, <2>0
  <2>2. ChainType'
    <3>1. accepted' \in 1..Len(new)
      BY <1>1, <1>3, <2>1
    <3>2. since' \in 1..accepted' /\ now' \in 0..MaxTime
      BY <1>0, <1>1 DEF ChainType
    <3> QED
      BY <1>4, <2>1, <3>1, <3>2 DEF ChainType
  <2>3. FeeInv' /\ CoveredInv' /\ PlaceInv'
    BY <1>0, <1>1, <2>0, ChainGrown
  <2>4. /\ \A i \in 1..accepted : chain'[i] = chain[i]
        /\ accepted' \in Nat /\ accepted <= accepted'
    BY <1>1, <1>3, <2>1
  <2>5. ClientsInv' /\ ActivityInv'
    BY <1>0, <1>1, <2>4, NodeClients, ActivityKept
  <2> QED
    BY <1>5, <1>8, <2>2, <2>3, <2>5 DEF Inv
<1> QED
  BY <1>2, <1>6, <1>7

LEMMA AcceptInv ==
  ASSUME Inv, Accept
  PROVE  Inv'
<1>0. ChainType /\ FeeInv /\ CoveredInv /\ PlaceInv /\ PoolInv /\ SignedInv /\ ClientsInv /\ CountInv /\ ActivityInv /\ ClientType
  BY DEF Inv, ClientsInv
<1>1. UNCHANGED <<chain, pool, since, now, client, asked, signed>> /\ accepted < Len(chain) /\ accepted' = accepted + 1
  BY DEF Accept
<1>2. Len(chain) \in Nat /\ accepted \in Nat \ {0} /\ since \in Nat \ {0} /\ since <= accepted /\ now \in Nat
  BY <1>0, ChainFacts
<1>3. ChainType'
  <2>1. accepted' \in 1..Len(chain) /\ since \in 1..accepted'
    BY <1>1, <1>2
  <2> QED
    BY <1>0, <1>1, <2>1 DEF ChainType
<1>4. FeeInv' /\ CoveredInv' /\ PlaceInv'
  <2>1. Len(chain') <= Len(chain) /\ (\A i \in 1..Len(chain') : chain'[i] = chain[i]) /\ now <= now' /\ asked \subseteq asked' /\ signed \subseteq signed'
    BY <1>1, <1>2
  <2> QED
    BY <1>0, <1>3, <2>1, ChainKept
<1>5. PoolInv'
  BY <1>0, <1>1 DEF PoolInv, Meant, SignatureOf, Agreed, AsSigned, Sender, TypedDataOf
<1>6. ClientsInv'
  <2>1. /\ \A i \in 1..accepted : chain'[i] = chain[i]
        /\ accepted' \in Nat /\ accepted <= accepted'
    BY <1>1, <1>2
  <2> QED
    BY <1>0, <1>1, <2>1, NodeClients
<1>7. SignedInv' /\ CountInv'
  BY <1>0, <1>1, SignedKept, CountedByNode
<1>8. ActivityInv'
  BY <1>0, ActivityGrows
<1> QED
  BY <1>3, <1>4, <1>5, <1>6, <1>7, <1>8 DEF Inv

LEMMA TickInv ==
  ASSUME Inv, Tick \/ UNCHANGED vars
  PROVE  Inv'
<1>0. ChainType /\ FeeInv /\ CoveredInv /\ PlaceInv /\ PoolInv /\ SignedInv /\ ClientsInv /\ CountInv /\ ActivityInv /\ ClientType
  BY DEF Inv, ClientsInv
<1>1. UNCHANGED <<chain, accepted, pool, activityCache, cursor, since, client, asked, signed>>
  BY DEF Tick, vars, nodeVars
<1>2. Len(chain) \in Nat /\ accepted \in Nat /\ now' \in 0..MaxTime /\ now <= now'
  <2>1. now \in 0..MaxTime /\ MaxTime \in Nat
    BY <1>0, Numbers DEF ChainType
  <2>2. now' = now \/ (now < MaxTime /\ now' = now + 1)
    BY DEF Tick, vars
  <2> QED
    BY <1>0, <2>1, <2>2, ChainFacts
<1>3. ChainType'
  BY <1>0, <1>1, <1>2 DEF ChainType
<1>4. FeeInv' /\ CoveredInv' /\ PlaceInv'
  <2>1. Len(chain') <= Len(chain) /\ (\A i \in 1..Len(chain') : chain'[i] = chain[i]) /\ now <= now' /\ asked \subseteq asked' /\ signed \subseteq signed'
    BY <1>1, <1>2
  <2> QED
    BY <1>0, <1>3, <2>1, ChainKept
<1>5. PoolInv'
  BY <1>0, <1>1 DEF PoolInv, Meant, SignatureOf, Agreed, AsSigned, Sender, TypedDataOf
<1>6. ClientsInv' /\ ActivityInv'
  <2>1. /\ \A i \in 1..accepted : chain'[i] = chain[i]
        /\ accepted' \in Nat /\ accepted <= accepted'
    BY <1>1, <1>2
  <2> QED
    BY <1>0, <1>1, <2>1, NodeClients, ActivityKept
<1>7. SignedInv' /\ CountInv'
  BY <1>0, <1>1, SignedKept, CountedByNode
<1> QED
  BY <1>3, <1>4, <1>5, <1>6, <1>7 DEF Inv

LEMMA RestartInv ==
  ASSUME Inv, Restart
  PROVE  Inv'
<1>0. ChainType /\ FeeInv /\ CoveredInv /\ PlaceInv /\ PoolInv /\ SignedInv /\ ClientsInv /\ CountInv /\ ActivityInv /\ ClientType
  BY DEF Inv, ClientsInv
<1>1. /\ UNCHANGED <<accepted, now, client, asked, signed>> /\ chain' = SubSeq(chain, 1, accepted)
      /\ pool' = {} /\ since' = accepted /\ cursor' = 0
      /\ activityCache' = [i \in 0..CacheSize - 1 |-> <<>>]
  BY DEF Restart
<1>2. Len(chain) \in Nat /\ accepted \in Nat \ {0} /\ accepted <= Len(chain) /\ now \in Nat /\ chain \in Seq(Block)
  BY <1>0, ChainFacts DEF ChainType
<1>3. chain' \in Seq(Block) /\ Len(chain') = accepted /\ \A i \in 1..accepted : chain'[i] = chain[i]
  BY <1>1, <1>2
<1>4. ChainType'
  <2>1. accepted' \in 1..Len(chain') /\ since' \in 1..accepted'
    BY <1>1, <1>2, <1>3
  <2>2. IsFiniteSet(pool')
    BY <1>1, FS_EmptySet
  <2> QED
    BY <1>0, <1>1, <1>3, <2>1, <2>2 DEF ChainType
<1>5. FeeInv' /\ CoveredInv' /\ PlaceInv'
  <2>1. Len(chain') <= Len(chain) /\ (\A i \in 1..Len(chain') : chain'[i] = chain[i]) /\ now <= now' /\ asked \subseteq asked' /\ signed \subseteq signed'
    BY <1>1, <1>2, <1>3
  <2> QED
    BY <1>0, <1>4, <2>1, ChainKept
<1>6. PoolInv'
  BY <1>1 DEF PoolInv
<1>7. ClientsInv'
  <2>1. accepted' \in Nat /\ accepted <= accepted'
    BY <1>1, <1>2
  <2> QED
    BY <1>0, <1>1, <1>3, <2>1, NodeClients
<1>8. SignedInv' /\ CountInv'
  BY <1>0, <1>1, SignedKept, CountedByNode
<1>9. ActivityInv'
  BY <1>1, <1>4, ActivityFresh
<1> QED
  BY <1>4, <1>5, <1>6, <1>7, <1>8, <1>9 DEF Inv

\* A transaction from elsewhere goes to the pool.
LEMMA SubmitBytesInv ==
  ASSUME Inv, NEW tx \in Tx, Meant(tx, asked, signed), SubmitBytes(tx)
  PROVE  Inv'
<1>0. ChainType /\ FeeInv /\ CoveredInv /\ PlaceInv /\ PoolInv /\ SignedInv /\ ClientsInv /\ CountInv /\ ActivityInv
  BY DEF Inv
<1>1. /\ UNCHANGED <<chain, accepted, activityCache, cursor, since, now, client, asked, signed>>
      /\ pool' = pool \cup {tx}
  BY DEF SubmitBytes
<1>2. Len(chain) \in Nat /\ accepted \in Nat /\ now \in Nat
  BY <1>0, ChainFacts
<1>3. ChainType'
  <2>1. pool' \in SUBSET Tx /\ IsFiniteSet(pool')
    BY <1>0, <1>1, FS_AddElement DEF ChainType
  <2> QED
    BY <1>0, <1>1, <2>1 DEF ChainType
<1>4. FeeInv' /\ CoveredInv' /\ PlaceInv'
  <2>1. /\ Len(chain') <= Len(chain) /\ (\A i \in 1..Len(chain') : chain'[i] = chain[i]) /\ now <= now'
        /\ asked \subseteq asked' /\ signed \subseteq signed'
    BY <1>1, <1>2
  <2> QED
    BY <1>0, <1>3, <2>1, ChainKept
<1>5. PoolInv'
  <2> SUFFICES ASSUME NEW t \in pool' PROVE Meant(t, asked', signed')
    BY DEF PoolInv, Meant, SignatureOf, Agreed, AsSigned, Sender, TypedDataOf
  <2> QED
    BY <1>0, <1>1 DEF PoolInv
<1>6. ClientsInv' /\ ActivityInv'
  <2>1. /\ \A i \in 1..accepted : chain'[i] = chain[i]
        /\ accepted' \in Nat /\ accepted <= accepted'
    BY <1>1, <1>2
  <2> QED
    BY <1>0, <1>1, <2>1, NodeClients, ActivityKept
<1>7. SignedInv' /\ CountInv'
  BY <1>0, <1>1, SignedKept, CountedByNode
<1> QED
  BY <1>3, <1>4, <1>5, <1>6, <1>7 DEF Inv

LEMMA ReadingType ==
  ASSUME NEW v \in UnsignedTx, NEW td, td = TypedDataOf(v), NEW u \in Readings(td, Other)
  PROVE  u \in UnsignedTx /\ TypedDataOf(u) = td
<1>1. TypedDataOf(u) = td
  BY DEF Readings
<1>2. PICK kind \in Kind, x \in Other : u = Reading(td, kind, x)
  BY DEF Readings
<1> DEFINE names == Message[kind].names
           From(y) == {n \in DOMAIN names \cap DOMAIN td.message : names[n] = y}
           f == [y \in Struct[kind] |-> IF From(y) = {} THEN x ELSE td.message[CHOOSE n \in From(y) : TRUE]]
<1>3. u = [kind |-> kind, block |-> td.block, price |-> td.price, f |-> f]
  BY <1>2, Zenon DEF Reading
<1>4. td.block \in Nat /\ td.price \in Nat /\ \A n \in DOMAIN td.message : td.message[n] \in Value
  <2> DEFINE m == Message[v.kind].names
             w == [n \in DOMAIN m |-> v.f[m[n]]]
  <2>1. v.kind \in Kind /\ v.f \in [Struct[v.kind] -> Value] /\ v.block \in Nat /\ v.price \in Nat
    BY UnsignedIs
  <2>2. td = [primary |-> Message[v.kind].primary, block |-> v.block, price |-> v.price, message |-> w]
    BY DEF TypedDataOf
  <2>3. \A n \in DOMAIN m : m[n] \in Struct[v.kind]
    BY <2>1, NamesAreFields
  <2>4. \A n \in DOMAIN w : w[n] \in Value
    <3> HIDE DEF m
    <3> QED
      BY <2>1, <2>3
  <2> HIDE DEF w, m
  <2>5. td.block = v.block /\ td.price = v.price /\ td.message = w
    BY <2>2
  <2> QED
    BY <2>1, <2>4, <2>5
<1>5. f \in [Struct[kind] -> Value]
  <2>1. x \in Value
    BY DEF Value
  <2>2. ASSUME NEW y \in Struct[kind], From(y) # {} PROVE td.message[CHOOSE n \in From(y) : TRUE] \in Value
    <3>1. (CHOOSE n \in From(y) : TRUE) \in From(y)
      BY <2>2
    <3>2. (CHOOSE n \in From(y) : TRUE) \in DOMAIN td.message
      BY <3>1
    <3> QED
      BY <1>4, <3>2
  <2> HIDE DEF From
  <2> QED
    BY <2>1, <2>2
<1>6. u = Unsigned(kind, f, td.block, td.price)
  <2> HIDE DEF f
  <2> QED
    BY <1>3 DEF Unsigned
<1> HIDE DEF f
<1> QED
  BY <1>1, <1>4, <1>5, <1>6, UnsignedType

LEMMA ResubmitInv ==
  ASSUME Inv, Resubmit
  PROVE  Inv'
<1>1. PICK s \in signed, sig \in {"signed"} \cup Recoded :
         \E u \in Readings(s.digest, Other) : SubmitBytes([Signed(u, s.digest, s.by) EXCEPT !.sig = sig])
  BY DEF Resubmit
<1>2. PICK u \in Readings(s.digest, Other) : SubmitBytes([Signed(u, s.digest, s.by) EXCEPT !.sig = sig])
  BY <1>1
<1> DEFINE tx == [Signed(u, s.digest, s.by) EXCEPT !.sig = sig]
<1>3. Backed(s, asked)
  BY DEF Inv, SignedInv
<1>4. PICK v \in UnsignedTx :
         /\ s.digest = TypedDataOf(v)
         /\ (v.kind = "proposal" /\ v.f["ActionType"] = Zero) \/ Agreed(s.by, v, asked)
  BY <1>3 DEF Backed
<1>5. u \in UnsignedTx /\ TypedDataOf(u) = s.digest
  BY <1>4, ReadingType
<1>6. s.by \in Client
  BY <1>3 DEF Backed
<1>7. tx \in Tx /\ tx.u = u /\ tx.by = s.by /\ tx.digest = s.digest
  BY <1>4, <1>5, <1>6 DEF Signed, Tx
<1> HIDE DEF tx
<1>8. SubmitBytes(tx) /\ OwnChecks(tx)
  BY <1>2 DEF SubmitBytes, Executes, tx
<1>9. Agreed(s.by, u, asked)
  <2>1. CASE v.kind = "proposal" /\ v.f["ActionType"] = Zero
    <3>1. /\ u.kind = v.kind \/ {u.kind, v.kind} = {"vote", "govern"}
          /\ \A x \in Struct[u.kind] : u.f[x] = v.f[x] \/ (u.kind = "unstake" /\ x = "EndTime")
      BY <1>4, <1>5, DescribedAlike
    <3>2. u.kind = "proposal"
      BY <2>1, <3>1
    <3>3. "ActionType" \in Struct["proposal"]
      BY DEF Struct
    <3>4. u.f["ActionType"] = Zero
      BY <2>1, <3>1, <3>2, <3>3
    <3> QED
      BY <1>7, <1>8, <3>2, <3>4 DEF OwnChecks
  <2>2. CASE Agreed(s.by, v, asked)
    BY <1>4, <1>5, <2>2, AgreedAlike
  <2> QED
    BY <1>4, <2>1, <2>2
<1>10. SignatureOf(tx) \in signed
  <2>1. s = [by |-> s.by, digest |-> s.digest]
    BY <1>3, Zenon DEF Backed
  <2> QED
    BY <1>7, <2>1 DEF SignatureOf
<1>11. Meant(tx, asked, signed)
  BY <1>5, <1>7, <1>9, <1>10 DEF Meant, Sender
<1> QED
  BY <1>7, <1>8, <1>11, SubmitBytesInv

LEMMA SubmitOtherInv ==
  ASSUME Inv, SubmitOther
  PROVE  Inv'
<1>1. PICK o \in Outside, b \in DOMAIN chain :
         LET u == [kind |-> o.kind, f |-> o.f, block |-> b, price |-> o.price]
         IN  SubmitBytes(Signed(u, TypedDataOf(u), Stranger))
  BY DEF SubmitOther
<1> DEFINE u == [kind |-> o.kind, f |-> o.f, block |-> b, price |-> o.price]
           tx == Signed(u, TypedDataOf(u), Stranger)
<1>2. SubmitBytes(tx)
  BY <1>1
<1>3. o.kind \in Kind /\ o.f \in [Struct[o.kind] -> Value] /\ o.price \in Nat /\ b \in Nat
  BY IssueAssumption, ChainFacts DEF Inv
<1>4. u = Unsigned(o.kind, o.f, b, o.price)
  BY DEF Unsigned
<1>5. u \in UnsignedTx
  <2> HIDE DEF u
  <2> QED
    BY <1>3, <1>4, UnsignedType
<1> HIDE DEF u
<1>6. tx \in Tx /\ tx.by = Stranger
  BY <1>5, SignedType
<1> HIDE DEF tx
<1>7. Meant(tx, asked, signed)
  BY <1>6, IssueAssumption DEF Meant
<1> QED
  BY <1>2, <1>6, <1>7, SubmitBytesInv

LEMMA NextInv ==
  ASSUME Inv, [Next]_vars
  PROVE  Inv'
<1>1. ASSUME NEW c \in Client, IssueTx(c) PROVE Inv'
  BY <1>1, IssueTxEffect, ClientStep DEF Inv, ClientsInv
<1>2. ASSUME NEW c \in Client, SuggestedRawFee(c) PROVE Inv'
  BY <1>2, SuggestedRawFeeEffect, ClientStep DEF Inv, ClientsInv
<1>3. ASSUME NEW c \in Client, IssueRawTx(c) PROVE Inv'
  BY <1>3, IssueRawTxEffect, ClientStep DEF Inv, ClientsInv
<1>4. ASSUME NEW c \in Client, PollTx(c) \/ GiveUp(c) PROVE Inv'
  BY <1>4, PollTxEffect, ClientStep DEF Inv, ClientsInv
<1>5. ASSUME NEW c \in Client, NEW kind \in Kind, SuggestedFeeAPI(c, kind) PROVE Inv'
  BY <1>5, SuggestedFeeAPIEffect, ClientStep DEF Inv, ClientsInv
<1>6. ASSUME NEW c \in Client, NEW kind \in Kind, LastAccepted(c, kind) PROVE Inv'
  BY <1>6, LastAcceptedEffect, ClientStep DEF Inv, ClientsInv
<1>7. ASSUME NEW c \in Client, NEW kind \in Kind, SignSubmitRawTx(c, kind) PROVE Inv'
  BY <1>7, SignSubmitRawTxEffect, ClientStep DEF Inv, ClientsInv
<1> QED
  BY <1>1, <1>2, <1>3, <1>4, <1>5, <1>6, <1>7, BuildBlockInv, AcceptInv, TickInv, RestartInv,
     ResubmitInv, SubmitOtherInv DEF Next

LEMMA SpecInv ==
  Spec => []Inv
<1>1. Init => Inv
  BY InitInv
<1>2. Inv /\ [Next]_vars => Inv'
  BY NextInv
<1> QED
  BY <1>1, <1>2, PTL DEF Spec

LEMMA Places ==
  ASSUME ChainType, NEW p \in Executed(Len(chain))
  PROVE  \E i \in 1..Len(chain) : \E j \in 1..Len(chain[i].txs) :
            p = <<i, j>> /\ At(p) = chain[i].txs[j] /\ chain[i].txs[j] \in Tx
<1>1. PICK i \in 1..Len(chain) : p \in {<<i, j>> : j \in DOMAIN chain[i].txs}
  BY DEF Executed
<1>2. PICK j \in DOMAIN chain[i].txs : p = <<i, j>>
  BY <1>1
<1>3. chain[i].txs \in Seq(Tx)
  BY ChainFacts
<1>4. At(p) = chain[i].txs[j]
  BY <1>2 DEF At
<1>5. j \in 1..Len(chain[i].txs) /\ chain[i].txs[j] \in Tx
  BY <1>3
<1> QED
  BY <1>2, <1>4, <1>5

LEMMA PlacedMeant ==
  ASSUME ChainType, PlaceInv, NEW p \in Executed(Len(chain))
  PROVE  At(p) \in Tx /\ Meant(At(p), asked, signed)
<1>1. PICK i \in 1..Len(chain) : \E j \in 1..Len(chain[i].txs) : At(p) = chain[i].txs[j] /\ At(p) \in Tx
  BY Places
<1> QED
  BY <1>1 DEF PlaceInv, Placed

-----------------------------------------------------------------------------
(* Theorems.                                                                *)

\* Whoever asks for what, whichever way it is described, signed and read back, and whoever
\* sends the bytes: what is executed in a client's name is what it asked for, in every
\* field but the end time of an unstake, and up to a vote for a govern.
THEOREM IssueAsAsked ==
  Spec => []AsAsked
<1>1. Inv => AsAsked
  <2> SUFFICES ASSUME Inv, NEW p \in Executed(Len(chain)), At(p).by \in Client
               PROVE  Sender(At(p)) = At(p).by /\ \E a \in asked : a.by = At(p).by /\ AsSigned(a, At(p).u)
    BY DEF AsAsked
  <2>1. Meant(At(p), asked, signed)
    BY PlacedMeant DEF Inv
  <2> QED
    BY <2>1 DEF Meant, Agreed
<1> QED
  BY <1>1, SpecInv, PTL

\* However often commands are run again, answers are lost and bytes are sent again, no
\* transaction is executed twice, no signature twice unless it leaves open for what, and no
\* client's more often than it ran a command: the window of recent transactions and the one
\* of the blocks they may name are the same.
THEOREM IssueExecutedOnce ==
  Spec => []ExecutedOnce
<1>1. Inv => ExecutedOnce
  <2> SUFFICES ASSUME Inv PROVE ExecutedOnce
    OBVIOUS
  <2>0. ChainType /\ PlaceInv /\ CountInv
    BY DEF Inv
  <2>1. ASSUME NEW p \in Executed(Len(chain)), NEW q \in Executed(Len(chain)), At(p) = At(q) PROVE p = q
    <3>1. PICK i \in 1..Len(chain) : \E j \in 1..Len(chain[i].txs) : p = <<i, j>> /\ At(p) = chain[i].txs[j]
      BY <2>0, Places
    <3>2. PICK j \in 1..Len(chain[i].txs) : p = <<i, j>> /\ At(p) = chain[i].txs[j]
      BY <3>1
    <3>3. PICK k \in 1..Len(chain) : \E l \in 1..Len(chain[k].txs) : q = <<k, l>> /\ At(q) = chain[k].txs[l]
      BY <2>0, Places
    <3>4. PICK l \in 1..Len(chain[k].txs) : q = <<k, l>> /\ At(q) = chain[k].txs[l]
      BY <3>3
    <3>5. i = k /\ j = l
      BY <2>0, <2>1, <3>2, <3>4 DEF PlaceInv, Placed
    <3> QED
      BY <3>2, <3>4, <3>5
  <2>3. ASSUME NEW p \in Executed(Len(chain)), NEW q \in Executed(Len(chain)), p # q, At(p).by \in Client,
               At(p).by = At(q).by, At(p).digest = At(q).digest
        PROVE  At(p).u.kind \in {"unstake", "vote", "govern"} \/ At(p).sig # At(q).sig
    <3> SUFFICES ASSUME At(p).sig = At(q).sig
                 PROVE  At(p).u.kind \in {"unstake", "vote", "govern"}
      OBVIOUS
    <3> DEFINE s == At(p)
               t == At(q)
    <3>1. s \in Tx /\ t \in Tx /\ Sender(s) = s.by /\ Sender(t) = t.by
      BY <2>0, <2>3, PlacedMeant DEF Meant
    <3>2. s # t /\ s.by = t.by /\ s.digest = t.digest /\ s.sig = t.sig /\ s.by \in Client
      BY <2>1, <2>3
    <3> HIDE DEF s, t
    <3>3. TypedDataOf(s.u) = s.digest /\ TypedDataOf(t.u) = s.digest
      BY <3>1, <3>2, IssueAssumption DEF Sender
    <3>4. s.u \in UnsignedTx /\ t.u \in UnsignedTx
      BY <3>1, TxParts
    <3>5. s.u # t.u
      BY <3>1, <3>2 DEF Tx
    <3> DEFINE u == s.u
               v == t.u
    <3>6. u \in UnsignedTx /\ v \in UnsignedTx /\ u # v /\ TypedDataOf(u) = TypedDataOf(v)
      BY <3>3, <3>4, <3>5
    <3> HIDE DEF u, v
    <3>7. /\ u.kind = v.kind \/ {u.kind, v.kind} = {"vote", "govern"}
          /\ Struct[u.kind] = Struct[v.kind] /\ u.block = v.block /\ u.price = v.price
          /\ \A x \in Struct[u.kind] : u.f[x] = v.f[x] \/ (u.kind = "unstake" /\ x = "EndTime")
      BY <3>6, DescribedAlike
    <3>8. CASE u.kind = v.kind /\ u.kind # "unstake"
      <4>1. u.f \in [Struct[u.kind] -> Value] /\ v.f \in [Struct[u.kind] -> Value]
        BY <3>6, <3>8, UnsignedIs
      <4>2. u.f = v.f
        BY <3>7, <3>8, <4>1
      <4>3. u = Unsigned(u.kind, u.f, u.block, u.price) /\ v = Unsigned(v.kind, v.f, v.block, v.price)
        BY <3>6, UnsignedIs
      <4>4. u = v
        BY <3>7, <3>8, <4>2, <4>3
      <4> QED
        BY <3>6, <4>4
    <3>9. CASE {u.kind, v.kind} = {"vote", "govern"}
      <4>1. u.kind \in {"vote", "govern"}
        BY <3>9
      <4> QED
        BY <4>1 DEF u, s
    <3>10. CASE u.kind = "unstake"
      BY <3>10 DEF u, s
    <3> QED
      BY <3>7, <3>8, <3>9, <3>10
  <2>2. ASSUME NEW c \in Client
        PROVE  Cardinality({At(p).digest : p \in {q \in Executed(Len(chain)) : At(q).by = c}}) <= client[c].tries
    <3> DEFINE Q == {q \in Executed(Len(chain)) : At(q).by = c}
               D == {At(p).digest : p \in Q}
               Sig(d) == [by |-> c, digest |-> d]
               f == [d \in D |-> Sig(d)]
    <3>1. \A d \in D : Sig(d) \in SignedBy(c)
      <4> SUFFICES ASSUME NEW p \in Q PROVE Sig(At(p).digest) \in SignedBy(c)
        OBVIOUS
      <4>1. Meant(At(p), asked, signed) /\ At(p).by = c
        BY <2>0, PlacedMeant
      <4>2. SignatureOf(At(p)) \in signed /\ SignatureOf(At(p)) = Sig(At(p).digest)
        BY <4>1 DEF Meant, SignatureOf
      <4>3. Sig(At(p).digest).by = c
        OBVIOUS
      <4> QED
        BY <4>2, <4>3 DEF SignedBy
    <3>2. f \in Injection(D, SignedBy(c))
      <4>1. f \in [D -> SignedBy(c)]
        BY <3>1
      <4>2. ASSUME NEW d \in D, NEW e \in D, f[d] = f[e] PROVE d = e
        <5>1. Sig(d) = Sig(e) /\ Sig(d).digest = d /\ Sig(e).digest = e
          <6> HIDE DEF D
          <6> QED BY <4>2
        <5> QED
          BY <5>1
      <4> HIDE DEF f, D
      <4> QED
        BY <4>1, <4>2 DEF Injection, IsInjective
    <3>3. IsFiniteSet(SignedBy(c)) /\ Cardinality(SignedBy(c)) + Pending(c) <= client[c].tries
      BY <2>0 DEF CountInv, Counted
    <3> HIDE DEF f, D
    <3>4. IsFiniteSet(D) /\ Cardinality(D) <= Cardinality(SignedBy(c))
      BY <3>2, <3>3, FS_Injection
    <3>5. Cardinality(D) \in Nat /\ Cardinality(SignedBy(c)) \in Nat /\ Pending(c) \in Nat /\ client[c].tries \in Nat
      <4>1. Cardinality(D) \in Nat /\ Cardinality(SignedBy(c)) \in Nat
        BY <3>3, <3>4, FS_CardinalityType
      <4>2. Pending(c) \in Nat /\ client[c].tries \in Nat
        BY IssueAssumption DEF Pending, Inv, ClientsInv, ClientType
      <4> QED
        BY <4>1, <4>2
    <3>6. Cardinality(D) <= client[c].tries
      BY <3>3, <3>4, <3>5
    <3> QED
      BY <3>6 DEF D
  <2> QED
    BY <2>1, <2>2, <2>3 DEF ExecutedOnce
<1> QED
  BY <1>1, SpecInv, PTL

\* For any size of the ring, blocks of any length and any restarts: a confirmation is of an
\* accepted transaction and stays so, and RecentActivity is the end of what was accepted.
THEOREM IssueAnswersRight ==
  Spec => []AnswersRight
<1>1. Inv => AnswersRight
  <2> SUFFICES ASSUME Inv PROVE AnswersRight
    OBVIOUS
  <2>1. ConfirmedIsStored
    BY DEF Inv, ClientsInv, Confirmed, ConfirmedIsStored
  <2>2. ActivityExact
    BY ActivityRead DEF Inv
  <2> QED
    BY <2>1, <2>2 DEF AnswersRight
<1> QED
  BY <1>1, SpecInv, PTL

\* For all windows, rates, targets and prices under which a word holds a block's cost, the
\* transactions of a block pay for it, and waiting makes no block dearer.
THEOREM IssueFeesRight ==
  Spec => []FeesRight
<1>1. Inv => FeesRight
  <2> SUFFICES ASSUME Inv PROVE FeesRight
    OBVIOUS
  <2>0. ChainType /\ FeeInv /\ ClientType
    BY DEF Inv, ClientsInv
  <2>1. TypeOK
    <3>1. now \in 0..MaxTime /\ accepted \in 1..Len(chain) /\ since \in 1..accepted
      BY <2>0 DEF ChainType
    <3>2. \A b \in Range(chain) : b.time <= now /\ b.price >= MinPrice /\ b.cost \in Nat
      BY <2>0, ChainFacts, Numbers DEF Range, FeeInv
    <3>3. \A t \in pool : t.by \in Client \cup {Stranger} /\ t.u.kind \in Kind
      BY <2>0, TxParts DEF ChainType
    <3>4. \A c \in Client :
            /\ client[c].pc \in {"idle", "signing", "accepted", "priced", "polling", "confirmed", "failed"}
            /\ client[c].kind \in Kind \cup {"none"} /\ client[c].tries \in 0..MaxTries[c]
      BY <2>0 DEF ClientType, Pc
    <3> QED
      BY <3>1, <3>2, <3>3, <3>4 DEF TypeOK
  <2>2. PriceCovered
    BY DEF Inv, CoveredInv, Covered, PriceCovered
  <2>3. WaitingIsCheaper
    <3> SUFFICES ASSUME NEW t \in now..MaxTime
                 PROVE  /\ NextCost(t) <= NextCost(now) /\ NextPrice(t) <= NextPrice(now)
                        /\ NextCost(t) <= Len(chain) * TargetBlockRate
      BY DEF WaitingIsCheaper
    <3>1. t \in Nat /\ now <= t
      BY <2>0, ChainFacts, Numbers
    <3> QED
      BY <2>0, <3>1, NextCostBound, NextPriceBound
  <2> QED
    BY <2>1, <2>2, <2>3 DEF FeesRight
<1> QED
  BY <1>1, SpecInv, PTL

=============================================================================
