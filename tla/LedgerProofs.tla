----------------------------- MODULE LedgerProofs -----------------------------
(***************************************************************************)
(* Proofs about Ledger.  The first part is about sums over finite sets: it  *)
(* takes the place of an induction, from the well-founded order of the      *)
(* subsets of a finite set.                                                 *)
(***************************************************************************)
EXTENDS Ledger, FiniteSetTheorems, WellFoundedInduction, NaturalsInduction, TLAPS

-----------------------------------------------------------------------------
(* Sums over a finite set: MapThenSumSet, for every set and every function.  *)

\* A set of sets that lie in a finite one has a smallest element.
LEMMA LeastSet ==
  ASSUME NEW S, IsFiniteSet(S), NEW T \in SUBSET (SUBSET S), T # {}
  PROVE  \E U \in T : \A V \in T : ~(V \subseteq U /\ V # U)
<1>1. IsWellFoundedOn(StrictSubsetOrdering(S), SUBSET S)
  BY FS_StrictSubsetOrderingWellFounded, FS_FiniteSubsetsOfFinite
<1>2. PICK U \in T : \A V \in T : ~(<<V, U>> \in StrictSubsetOrdering(S))
  BY <1>1, WFMin
<1> QED
  BY <1>2 DEF StrictSubsetOrdering

\* A set that holds 0 and with every number the next one holds them all.
LEMMA AllNumbers ==
  ASSUME NEW P \in SUBSET Nat, 0 \in P, \A n \in P : n + 1 \in P
  PROVE  P = Nat
<1> DEFINE Less == {ss \in Nat \X Nat : ss[1] < ss[2]}
<1>1. IsWellFoundedOn(Less, Nat)
  BY NatLessThanWellFounded, Zenon DEF OpToRel
<1>2. SUFFICES ASSUME Nat \ P # {} PROVE FALSE
  OBVIOUS
<1>3. PICK n \in Nat \ P : \A m \in Nat \ P : ~(<<m, n>> \in Less)
  <2> HIDE DEF Less
  <2> QED
    BY <1>1, <1>2, WFMin
<1>4. n # 0 /\ n - 1 \in Nat
  OBVIOUS
<1>5. <<n - 1, n>> \in Less
  <2>1. <<n - 1, n>> \in Nat \X Nat /\ n - 1 < n
    BY <1>4
  <2> QED
    BY <2>1
<1>6. n - 1 \in P
  BY <1>3, <1>4, <1>5
<1>7. n - 1 + 1 \in P
  BY <1>6
<1> QED
  BY <1>4, <1>7

pick(s) == CHOOSE x \in s : TRUE

\* h adds up f over every part of S, in the order of pick.
IsSum(h, f, S) ==
    h = [s \in SUBSET S |-> IF s = {} THEN 0 ELSE f[pick(s)] + h[s \ {pick(s)}]]

LEMMA SumExists ==
  ASSUME NEW S, IsFiniteSet(S), NEW f \in [S -> Int]
  PROVE  \E h \in [SUBSET S -> Int] : IsSum(h, f, S)
<1> DEFINE Sums(n) == {h \in [SUBSET S -> Int] : \A s \in SUBSET S : Cardinality(s) <= n =>
                          h[s] = IF s = {} THEN 0 ELSE f[pick(s)] + h[s \ {pick(s)}]}
           P == {n \in Nat : Sums(n) # {}}
<1>0. \A s \in SUBSET S : IsFiniteSet(s) /\ Cardinality(s) \in Nat /\ Cardinality(s) <= Cardinality(S)
  BY FS_Subset, FS_CardinalityType
<1>1. \A s \in SUBSET S : s # {} => pick(s) \in s
  BY DEF pick
<1>2. \A s \in SUBSET S : s # {} => Cardinality(s \ {pick(s)}) = Cardinality(s) - 1
  BY <1>0, <1>1, FS_RemoveElement
<1>3. 0 \in P
  <2> DEFINE z == [s \in SUBSET S |-> 0]
  <2>1. \A s \in SUBSET S : Cardinality(s) <= 0 => s = {}
    BY <1>0, FS_EmptySet
  <2>2. z \in Sums(0)
    BY <2>1
  <2> QED
    BY <2>2
<1>4. ASSUME NEW n \in P PROVE n + 1 \in P
  <2>1. PICK g : g \in Sums(n)
    BY <1>4
  <2> DEFINE h == [s \in SUBSET S |-> IF Cardinality(s) <= n THEN g[s]
                                      ELSE f[pick(s)] + g[s \ {pick(s)}]]
  <2>2. n \in Nat /\ g \in [SUBSET S -> Int]
    BY <2>1
  <2>3. ASSUME NEW s \in SUBSET S, Cardinality(s) > n
        PROVE  s # {} /\ pick(s) \in S /\ s \ {pick(s)} \in SUBSET S
    BY <1>0, <1>1, <2>2, <2>3, FS_EmptySet
  <2>4. h \in [SUBSET S -> Int]
    BY <1>0, <2>2, <2>3
  <2>5. ASSUME NEW s \in SUBSET S, Cardinality(s) <= n + 1
        PROVE  h[s] = IF s = {} THEN 0 ELSE f[pick(s)] + h[s \ {pick(s)}]
    <3>1. CASE s = {}
      <4>1. Cardinality(s) = 0
        BY <3>1, FS_EmptySet
      <4> QED
        BY <2>1, <2>2, <3>1, <4>1
    <3>2. CASE s # {}
      <4> DEFINE r == s \ {pick(s)}
      <4>1. r \in SUBSET S /\ Cardinality(r) <= n
        BY <1>0, <1>2, <2>2, <2>5, <3>2
      <4>2. h[r] = g[r]
        BY <4>1
      <4>3. h[s] = f[pick(s)] + g[r]
        <5>1. CASE Cardinality(s) <= n
          <6>1. h[s] = g[s]
            BY <5>1
          <6>2. g[s] = f[pick(s)] + g[r]
            BY <2>1, <3>2, <5>1
          <6> QED
            BY <6>1, <6>2
        <5>2. CASE ~(Cardinality(s) <= n)
          BY <5>2
        <5> QED
          BY <5>1, <5>2
      <4> QED
        BY <3>2, <4>2, <4>3
    <3> QED
      BY <3>1, <3>2
  <2>6. h \in Sums(n + 1)
    <3> HIDE DEF h
    <3> QED
      BY <2>4, <2>5
  <2>7. n + 1 \in Nat /\ Sums(n + 1) # {}
    <3> HIDE DEF h, Sums
    <3> QED
      BY <2>2, <2>6
  <2> HIDE DEF h, Sums
  <2> QED
    BY <2>7
<1>5. Cardinality(S) \in P
  <2>1. P \in SUBSET Nat
    OBVIOUS
  <2>2. \A n \in P : n + 1 \in P
    BY <1>4
  <2>3. Cardinality(S) \in Nat
    BY <1>0
  <2> HIDE DEF P
  <2>4. P = Nat
    BY <1>3, <2>1, <2>2, AllNumbers
  <2> QED
    BY <2>3, <2>4
<1>6. PICK h : h \in Sums(Cardinality(S))
  BY <1>5
<1>7. h \in [SUBSET S -> Int] /\ \A s \in SUBSET S :
        h[s] = IF s = {} THEN 0 ELSE f[pick(s)] + h[s \ {pick(s)}]
  BY <1>0, <1>6
<1> QED
  BY <1>7 DEF IsSum

\* What satisfies the recursion is a function to the integers.
LEMMA SumType ==
  ASSUME NEW S, IsFiniteSet(S), NEW f \in [S -> Int], NEW h, IsSum(h, f, S)
  PROVE  h \in [SUBSET S -> Int]
<1> DEFINE T == {s \in SUBSET S : h[s] \notin Int}
<1>1. \A s \in SUBSET S : h[s] = IF s = {} THEN 0 ELSE f[pick(s)] + h[s \ {pick(s)}]
  BY DEF IsSum
<1>2. \A s \in SUBSET S : s # {} => pick(s) \in s
  BY DEF pick
<1>3. ASSUME T # {} PROVE FALSE
  <2>1. PICK U \in T : \A V \in T : ~(V \subseteq U /\ V # U)
    <3>1. T \in SUBSET (SUBSET S)
      OBVIOUS
    <3> HIDE DEF T
    <3> QED
      BY <1>3, <3>1, LeastSet
  <2>2. U \in SUBSET S /\ U # {} /\ pick(U) \in U
    <3>1. h[{}] = 0
      BY <1>1
    <3>2. U \in SUBSET S /\ h[U] \notin Int
      OBVIOUS
    <3>3. U # {}
      <4> SUFFICES ASSUME U = {} PROVE FALSE
        OBVIOUS
      <4>1. h[U] = 0
        BY <3>1
      <4> QED
        BY <3>2, <4>1
    <3> QED
      BY <1>2, <3>2, <3>3
  <2>3. U \ {pick(U)} \notin T
    BY <2>1, <2>2
  <2>4. h[U] = f[pick(U)] + h[U \ {pick(U)}] /\ f[pick(U)] \in Int
    BY <1>1, <2>2
  <2>5. h[U \ {pick(U)}] \in Int
    BY <2>2, <2>3
  <2> QED
    BY <2>1, <2>4, <2>5
<1>4. h = [s \in SUBSET S |-> h[s]]
  BY DEF IsSum
<1> QED
  BY <1>3, <1>4

\* h adds up f over every part of S, in any order.
Adds(h, f, S) ==
    /\ h[{}] = 0
    /\ \A s \in SUBSET S : \A x \in s : h[s] = f[x] + h[s \ {x}]

\* The order does not matter: any element may be taken out first.
LEMMA SumStep ==
  ASSUME NEW S, IsFiniteSet(S), NEW f \in [S -> Int], NEW h \in [SUBSET S -> Int], IsSum(h, f, S)
  PROVE  Adds(h, f, S)
<1> DEFINE T == {s \in SUBSET S : \E x \in s : h[s] # f[x] + h[s \ {x}]}
<1>1. \A s \in SUBSET S : h[s] = IF s = {} THEN 0 ELSE f[pick(s)] + h[s \ {pick(s)}]
  BY DEF IsSum
<1>2. \A s \in SUBSET S : s # {} => pick(s) \in s
  BY DEF pick
<1>3. ASSUME T # {} PROVE FALSE
  <2>1. PICK U \in T : \A V \in T : ~(V \subseteq U /\ V # U)
    <3>1. T \in SUBSET (SUBSET S)
      OBVIOUS
    <3> HIDE DEF T
    <3> QED
      BY <1>3, <3>1, LeastSet
  <2>2. PICK x \in U : h[U] # f[x] + h[U \ {x}]
    BY <2>1
  <2> DEFINE p == pick(U)
  <2>3. U \in SUBSET S /\ p \in U /\ h[U] = f[p] + h[U \ {p}]
    BY <1>1, <1>2, <2>1, <2>2
  <2>4. p # x
    BY <2>2, <2>3
  <2>5. U \ {p} \notin T /\ U \ {x} \notin T
    BY <2>1, <2>2, <2>3
  <2> HIDE DEF p
  <2>6. h[U \ {p}] = f[x] + h[(U \ {p}) \ {x}] /\ h[U \ {x}] = f[p] + h[(U \ {x}) \ {p}]
    BY <2>2, <2>3, <2>4, <2>5
  <2>7. (U \ {p}) \ {x} = (U \ {x}) \ {p}
    OBVIOUS
  <2>8. f[x] \in Int /\ f[p] \in Int /\ h[(U \ {p}) \ {x}] \in Int
    BY <2>2, <2>3
  <2> HIDE DEF T
  <2> DEFINE fx == f[x]
             fp == f[p]
             rest == h[(U \ {p}) \ {x}]
  <2>9. h[U \ {p}] = fx + rest /\ h[U \ {x}] = fp + rest /\ h[U] = fp + h[U \ {p}] /\ h[U] # fx + h[U \ {x}]
    BY <2>2, <2>3, <2>6, <2>7
  <2>10. fx \in Int /\ fp \in Int /\ rest \in Int
    BY <2>8
  <2> HIDE DEF fx, fp, rest
  <2>11. fp + (fx + rest) = fx + (fp + rest)
    BY <2>10
  <2> QED
    BY <2>9, <2>11
<1>4. h[{}] = 0
  BY <1>1
<1> QED
  BY <1>3, <1>4 DEF Adds

SameOn(s, f, g) == \A x \in s : f[x] = g[x]

\* The sum over a part depends on the values in that part only.
LEMMA SumAgree ==
  ASSUME NEW S, IsFiniteSet(S), NEW f \in [S -> Int], NEW g \in [S -> Int],
         NEW h \in [SUBSET S -> Int], IsSum(h, f, S), NEW k \in [SUBSET S -> Int], IsSum(k, g, S),
         NEW s \in SUBSET S, SameOn(s, f, g)
  PROVE  h[s] = k[s]
<1> DEFINE T == {t \in SUBSET s : h[t] # k[t]}
<1>0. Adds(h, f, S) /\ Adds(k, g, S)
  BY SumStep
<1>1. /\ h[{}] = 0 /\ \A t \in SUBSET S : \A x \in t : h[t] = f[x] + h[t \ {x}]
      /\ k[{}] = 0 /\ \A t \in SUBSET S : \A x \in t : k[t] = g[x] + k[t \ {x}]
  BY <1>0 DEF Adds
<1>2. ASSUME T # {} PROVE FALSE
  <2>1. PICK U \in T : \A V \in T : ~(V \subseteq U /\ V # U)
    <3>1. T \in SUBSET (SUBSET S)
      OBVIOUS
    <3> HIDE DEF T
    <3> QED
      BY <1>2, <3>1, LeastSet
  <2>2. U # {}
    BY <1>1
  <2>3. PICK x : x \in U
    BY <2>2
  <2>4. U \ {x} \notin T
    BY <2>1, <2>3
  <2>5. h[U \ {x}] = k[U \ {x}]
    BY <2>4
  <2>6. h[U] = f[x] + h[U \ {x}] /\ k[U] = g[x] + k[U \ {x}] /\ f[x] = g[x]
    BY <1>1, <2>3 DEF SameOn
  <2> QED
    BY <2>1, <2>5, <2>6
<1> QED
  BY <1>2

AllAre(c, f, S) == \A x \in S : f[x] = c

\* The sum of equal values.
LEMMA SumConstant ==
  ASSUME NEW S, IsFiniteSet(S), NEW c \in Int, NEW f \in [S -> Int], AllAre(c, f, S),
         NEW h \in [SUBSET S -> Int], IsSum(h, f, S)
  PROVE  h[S] = Cardinality(S) * c
<1> DEFINE T == {s \in SUBSET S : h[s] # Cardinality(s) * c}
<1>0. Adds(h, f, S)
  BY SumStep
<1>1. h[{}] = 0 /\ \A t \in SUBSET S : \A x \in t : h[t] = f[x] + h[t \ {x}]
  BY <1>0 DEF Adds
<1>2. ASSUME T # {} PROVE FALSE
  <2>1. PICK U \in T : \A V \in T : ~(V \subseteq U /\ V # U)
    <3>1. T \in SUBSET (SUBSET S)
      OBVIOUS
    <3> HIDE DEF T
    <3> QED
      BY <1>2, <3>1, LeastSet
  <2>2. U # {}
    <3>1. Cardinality({}) * c = 0
      BY FS_EmptySet
    <3> QED
      BY <1>1, <2>1, <3>1
  <2>3. PICK x : x \in U
    BY <2>2
  <2>4. U \ {x} \notin T
    BY <2>1, <2>3
  <2>5. h[U \ {x}] = Cardinality(U \ {x}) * c
    BY <2>4
  <2>6. h[U] = c + h[U \ {x}]
    BY <1>1, <2>3 DEF AllAre
  <2>7. Cardinality(U) \in Nat /\ Cardinality(U \ {x}) = Cardinality(U) - 1
    BY <2>3, FS_Subset, FS_RemoveElement, FS_CardinalityType
  <2>8. (Cardinality(U) - 1) * c = Cardinality(U) * c - c
    BY <2>7
  <2>9. Cardinality(U) * c \in Int
    BY <2>7
  <2> QED
    BY <2>1, <2>5, <2>6, <2>7, <2>8, <2>9
<1> QED
  BY <1>2

-----------------------------------------------------------------------------
(* The sums of the module: SumOver, and the years of StakerReword.          *)

LEMMA Constants ==
  /\ IsFiniteSet(Address)
  /\ Alloc \in Nat /\ TxFee \in Nat /\ StakeAmount \in Nat /\ UserFee \in Nat /\ Yield \in Nat
  /\ Day \in Nat /\ Week \in Nat /\ Year \in Nat /\ MinStake \in Nat /\ Effective \in Nat
  /\ MaxTime \in Nat /\ MaxLag \in Nat /\ MaxTxs \in Nat
  /\ Day > 0 /\ Year > 0 /\ Yield <= UserFee /\ 2 * Day <= Week
  /\ Effective <= StakeAmount /\ Effective <= Day /\ MaxLag <= Day
BY LedgerAssumption

LEMMA SumOverIsSum ==
  ASSUME NEW f \in [Address -> Int]
  PROVE  \E h \in [SUBSET Address -> Int] : IsSum(h, f, Address) /\ SumOver(f) = h[Address]
<1> DEFINE P(h) == h = [s \in SUBSET Address |-> IF s = {} THEN 0
                           ELSE f[CHOOSE x \in s : TRUE] + h[s \ {CHOOSE x \in s : TRUE}]]
           it == CHOOSE h : P(h)
<1>1. SumOver(f) = it[Address]
  BY Zenon DEF SumOver, MapThenSumSet, MapThenFoldSet
<1>2. \A h : P(h) <=> IsSum(h, f, Address)
  BY DEF IsSum, pick
<1>3. PICK h \in [SUBSET Address -> Int] : IsSum(h, f, Address)
  BY SumExists, Constants
<1>4. IsSum(it, f, Address)
  <2>1. \E x : P(x)
    <3>1. P(h)
      BY <1>2, <1>3
    <3> QED
      BY <3>1
  <2>2. P(it)
    BY <2>1, Zenon
  <2> HIDE DEF it, P
  <2> QED
    BY <1>2, <2>2
<1>5. it \in [SUBSET Address -> Int]
  <2> HIDE DEF it
  <2> QED
    BY <1>4, SumType, Constants
<1> QED
  BY <1>1, <1>4, <1>5

LEMMA SumOverType ==
  ASSUME NEW f \in [Address -> Int]
  PROVE  SumOver(f) \in Int
BY SumOverIsSum

\* A new value in one place changes the sum by the difference.
LEMMA SumOverChange ==
  ASSUME NEW f \in [Address -> Int], NEW g \in [Address -> Int],
         NEW a \in Address, \A b \in Address \ {a} : f[b] = g[b]
  PROVE  SumOver(g) = SumOver(f) - f[a] + g[a]
<1>1. PICK h \in [SUBSET Address -> Int] : IsSum(h, f, Address) /\ SumOver(f) = h[Address]
  BY SumOverIsSum
<1>2. PICK k \in [SUBSET Address -> Int] : IsSum(k, g, Address) /\ SumOver(g) = k[Address]
  BY SumOverIsSum
<1>3. IsFiniteSet(Address)
  BY Constants
<1>4. Adds(h, f, Address) /\ Adds(k, g, Address)
  BY <1>1, <1>2, <1>3, SumStep
<1>5. h[Address] = f[a] + h[Address \ {a}] /\ k[Address] = g[a] + k[Address \ {a}]
  BY <1>4 DEF Adds
<1>6. h[Address \ {a}] = k[Address \ {a}]
  <2> DEFINE s == Address \ {a}
  <2>1. s \in SUBSET Address /\ SameOn(s, f, g)
    BY DEF SameOn
  <2>2. IsSum(h, f, Address) /\ IsSum(k, g, Address)
    BY <1>1, <1>2
  <2> HIDE DEF s
  <2>3. h[s] = k[s]
    BY <1>3, <2>1, <2>2, SumAgree
  <2> QED
    BY <2>3 DEF s
<1>7. f[a] \in Int /\ g[a] \in Int /\ h[Address \ {a}] \in Int
  OBVIOUS
<1> QED
  BY <1>1, <1>2, <1>5, <1>6, <1>7

LEMMA SumOverConstant ==
  ASSUME NEW c \in Int, NEW f, f = [a \in Address |-> c]
  PROVE  SumOver(f) = Cardinality(Address) * c
<1>1. f \in [Address -> Int] /\ AllAre(c, f, Address)
  BY DEF AllAre
<1>2. PICK h \in [SUBSET Address -> Int] : IsSum(h, f, Address) /\ SumOver(f) = h[Address]
  BY <1>1, SumOverIsSum
<1>3. h[Address] = Cardinality(Address) * c
  BY <1>1, <1>2, SumConstant, Constants
<1> QED
  BY <1>2, <1>3

Years(start, end) == (start \div Year)..(end \div Year)

SecsOfYears(start, end) == [i \in Years(start, end) |-> WorkSecs(i, start, end)]

YearSum(start, end) ==
    MapThenSumSet(LAMBDA i : WorkSecs(i, start, end), (start \div Year)..(end \div Year))

\* A time, and the year it is in.
LEMMA InYear ==
  ASSUME NEW n \in Nat
  PROVE  n \div Year \in Nat /\ (n \div Year) * Year <= n /\ n < (n \div Year) * Year + Year
BY Constants

LEMMA YearsGrow ==
  ASSUME NEW m \in Int, NEW n \in Int, m < n
  PROVE  m * Year + Year <= n * Year
BY Constants

LEMMA NextYear ==
  ASSUME NEW m \in Int
  PROVE  (m + 1) * Year = m * Year + Year /\ m * Year \in Int
BY Constants

LEMMA WorkSecsType ==
  ASSUME NEW i \in Int, NEW start \in Int, NEW end \in Int
  PROVE  WorkSecs(i, start, end) \in Int
<1>1. i * Year \in Int /\ (i + 1) * Year \in Int
  BY Constants
<1> QED
  BY <1>1 DEF WorkSecs

LEMMA YearSumIsSum ==
  ASSUME NEW start \in Nat, NEW end \in Nat
  PROVE  /\ SecsOfYears(start, end) \in [Years(start, end) -> Int]
         /\ \E h \in [SUBSET Years(start, end) -> Int] :
               /\ IsSum(h, SecsOfYears(start, end), Years(start, end))
               /\ YearSum(start, end) = h[Years(start, end)]
<1> DEFINE S == (start \div Year)..(end \div Year)
           f == [i \in S |-> WorkSecs(i, start, end)]
           P(h) == h = [s \in SUBSET S |-> IF s = {} THEN 0
                           ELSE WorkSecs(CHOOSE x \in s : TRUE, start, end)
                                + h[s \ {CHOOSE x \in s : TRUE}]]
           it == CHOOSE h : P(h)
<1>0. start \div Year \in Nat /\ end \div Year \in Nat /\ S \subseteq Int /\ IsFiniteSet(S)
  <2>1. start \div Year \in Nat /\ end \div Year \in Nat
    BY InYear
  <2>2. IsFiniteSet((start \div Year)..(end \div Year))
    BY <2>1, FS_Interval
  <2> QED
    BY <2>1, <2>2
<1>1. YearSum(start, end) = it[S]
  BY Zenon DEF YearSum, MapThenSumSet, MapThenFoldSet
<1>2. \A h : P(h) <=> IsSum(h, f, S)
  <2>1. \A s \in SUBSET S : s # {} => f[pick(s)] = WorkSecs(pick(s), start, end)
    BY DEF pick
  <2>2. \A h : IsSum(h, f, S) <=> h = [s \in SUBSET S |-> IF s = {} THEN 0
                           ELSE WorkSecs(pick(s), start, end) + h[s \ {pick(s)}]]
    BY <2>1 DEF IsSum
  <2> QED
    BY <2>2, Zenon DEF pick
<1>3. f \in [S -> Int]
  <2>1. \A i \in S : WorkSecs(i, start, end) \in Int
    BY <1>0, WorkSecsType
  <2> QED
    BY <2>1
<1>4. PICK h \in [SUBSET S -> Int] : IsSum(h, f, S)
  BY <1>0, <1>3, SumExists
<1>5. IsSum(it, f, S)
  <2>1. \E x : P(x)
    <3>1. P(h)
      BY <1>2, <1>4
    <3> QED
      BY <3>1
  <2>2. P(it)
    BY <2>1, Zenon
  <2> HIDE DEF it, P
  <2> QED
    BY <1>2, <2>2
<1>6. it \in [SUBSET S -> Int]
  <2> HIDE DEF it
  <2> QED
    BY <1>0, <1>3, <1>5, SumType
<1>7. S = Years(start, end) /\ f = SecsOfYears(start, end)
  BY Zenon DEF Years, SecsOfYears
<1> HIDE DEF S, f, it
<1> QED
  BY <1>1, <1>3, <1>5, <1>6, <1>7

\* The years between two times add up to the time between them.
LEMMA YearsAddUp ==
  ASSUME NEW start \in Nat, NEW end \in Nat, start <= end
  PROVE  YearSum(start, end) = end - start
<1> DEFINE ys == start \div Year
           ye == end \div Year
           S == ys..ye
           f == [i \in S |-> WorkSecs(i, start, end)]
           To(k) == IF (k + 1) * Year < end THEN (k + 1) * Year ELSE end
<1>1. /\ ys \in Nat /\ ye \in Nat
      /\ ys * Year \in Int /\ ye * Year \in Int
      /\ ys * Year <= start /\ start < ys * Year + Year
      /\ ye * Year <= end /\ end < ye * Year + Year
  BY InYear, NextYear
<1>2. IsFiniteSet(S) /\ S \subseteq Int
  BY <1>1, FS_Interval
<1>3. ys <= ye
  <2> SUFFICES ASSUME ye < ys PROVE FALSE
    BY <1>1
  <2>1. ye * Year + Year <= ys * Year
    BY <1>1, YearsGrow
  <2> QED
    BY <1>1, <2>1, Constants
<1>4. f \in [S -> Int] /\ \E h \in [SUBSET S -> Int] : IsSum(h, f, S) /\ YearSum(start, end) = h[S]
  <2>1. S = Years(start, end) /\ f = SecsOfYears(start, end)
    BY Zenon DEF Years, SecsOfYears
  <2> HIDE DEF S, f
  <2> QED
    BY <2>1, YearSumIsSum
<1>5. PICK h \in [SUBSET S -> Int] : IsSum(h, f, S) /\ YearSum(start, end) = h[S]
  BY <1>4
<1>6. Adds(h, f, S)
  <2> HIDE DEF S, f
  <2> QED
    BY <1>2, <1>4, <1>5, SumStep
<1>7. \A i \in S : f[i] = WorkSecs(i, start, end)
  OBVIOUS
<1> HIDE DEF f
<1> DEFINE P == {n \in Nat : ys + n <= ye => h[ys..(ys + n)] = To(ys + n) - start}
<1>8. 0 \in P
  <2>1. ys \in S /\ ys..(ys + 0) = {ys} /\ {ys} \in SUBSET S
    BY <1>1, <1>3
  <2>2. h[{ys}] = f[ys] + h[{ys} \ {ys}] /\ {ys} \ {ys} = {} /\ h[{}] = 0
    BY <1>6, <2>1 DEF Adds
  <2>3. f[ys] = To(ys) - start
    <3>1. f[ys] = WorkSecs(ys, start, end)
      BY <1>7, <2>1
    <3> HIDE DEF ys
    <3>2. (ys + 1) * Year = ys * Year + Year
      BY <1>1, NextYear
    <3>3. (IF ys * Year > start THEN ys * Year ELSE start) = start
      BY <1>1
    <3> QED
      BY <3>1, <3>3 DEF WorkSecs
  <2>4. To(ys) \in Int /\ To(ys) - start \in Int
    BY <1>1, NextYear, Constants
  <2>5. h[{ys}] = To(ys) - start
    <3>1. f[ys] \in Int
      BY <2>3, <2>4
    <3> HIDE DEF To, ys
    <3>2. h[{ys}] = f[ys] + 0
      BY <2>2
    <3> QED
      BY <2>3, <3>1, <3>2
  <2>6. ys + 0 = ys
    BY <1>1
  <2> HIDE DEF To, ys
  <2> QED
    BY <2>1, <2>5, <2>6
<1>9. ASSUME NEW n \in P PROVE n + 1 \in P
  <2>0. n \in Nat
    OBVIOUS
  <2> SUFFICES ASSUME ys + (n + 1) <= ye
               PROVE  h[ys..(ys + (n + 1))] = To(ys + (n + 1)) - start
    BY <2>0
  <2> DEFINE k == ys + n
  <2>1. k \in Nat /\ k + 1 <= ye /\ k >= ys /\ ys + (n + 1) = k + 1
    BY <1>1, <2>0
  <2>2. h[ys..k] = To(k) - start
    BY <1>1, <2>0
  <2> HIDE DEF k, ys, ye
  <2>3. k + 1 \in ys..(k + 1) /\ ys..(k + 1) \in SUBSET S /\ (ys..(k + 1)) \ {k + 1} = ys..k
    BY <1>1, <2>1
  <2>4. h[ys..(k + 1)] = f[k + 1] + h[ys..k]
    <3> DEFINE s == ys..(k + 1)
    <3>1. s \in SUBSET S /\ k + 1 \in s /\ s \ {k + 1} = ys..k
      BY <2>3
    <3> HIDE DEF s
    <3>2. h[s] = f[k + 1] + h[s \ {k + 1}]
      BY <1>6, <3>1 DEF Adds
    <3>3. h[s] = f[k + 1] + h[ys..k]
      BY <3>1, <3>2
    <3> QED
      BY <3>3 DEF s
  <2>5. f[k + 1] = WorkSecs(k + 1, start, end)
    BY <1>7, <2>3
  <2> DEFINE ky == (k + 1) * Year
  <2>6. ky \in Int /\ ((k + 1) + 1) * Year = ky + Year
    BY <2>1, NextYear
  <2>7. ky <= end
    <3>1. CASE k + 1 = ye
      BY <1>1, <3>1
    <3>2. CASE k + 1 < ye
      <4>1. ky + Year <= ye * Year
        BY <1>1, <2>1, <3>2, YearsGrow
      <4>2. ye * Year \in Int /\ ye * Year <= end /\ Year \in Nat
        BY <1>1, Constants
      <4>3. ky \in Int
        BY <2>6
      <4> HIDE DEF ky, S, P, To
      <4> QED
        BY <4>1, <4>2, <4>3
    <3> QED
      BY <1>1, <2>1, <3>1, <3>2
  <2>8. ky > start
    <3>1. ys * Year + Year <= ky
      BY <1>1, <2>1, YearsGrow
    <3>2. ys * Year \in Int /\ start < ys * Year + Year /\ Year \in Nat
      BY <1>1, Constants
    <3>3. ky \in Int
      BY <2>6
    <3> HIDE DEF ky, S, P, To
    <3> QED
      BY <3>1, <3>2, <3>3
  <2>9. f[k + 1] = To(k + 1) - ky
    BY <2>5, <2>6, <2>8 DEF WorkSecs
  <2>10. To(k) = ky
    BY <2>6, <2>7
  <2>11. To(k + 1) \in Int
    <3> HIDE DEF ky
    <3> QED
      BY <2>6, Constants
  <2> HIDE DEF To, ky
  <2>12. h[ys..(k + 1)] = (To(k + 1) - ky) + (ky - start)
    BY <2>2, <2>4, <2>9, <2>10
  <2> QED
    BY <2>1, <2>6, <2>11, <2>12
<1>10. P = Nat
  <2>1. P \in SUBSET Nat /\ \A n \in P : n + 1 \in P
    BY <1>9
  <2> HIDE DEF P
  <2> QED
    BY <1>8, <2>1, AllNumbers
<1>11. h[ys..ye] = To(ye) - start
  <2>1. ye - ys \in Nat /\ ys + (ye - ys) = ye
    BY <1>1, <1>3
  <2>2. ye - ys \in P
    BY <1>10, <2>1
  <2>3. ys + (ye - ys) <= ye => h[ys..(ys + (ye - ys))] = To(ys + (ye - ys)) - start
    BY <2>2
  <2> HIDE DEF ys, ye, To
  <2> QED
    BY <1>1, <2>1, <2>3
<1>12. To(ye) = end
  <2>1. (ye + 1) * Year = ye * Year + Year
    BY <1>1, NextYear
  <2> HIDE DEF ye
  <2> QED
    BY <1>1, <2>1, Constants
<1> QED
  BY <1>5, <1>11, <1>12

\* A time that goes back gives the difference within a year, and nothing across years.
LEMMA YearsGoBack ==
  ASSUME NEW start \in Nat, NEW end \in Nat, end < start
  PROVE  YearSum(start, end) \in {0, end - start}
<1> DEFINE ys == start \div Year
           ye == end \div Year
           S == ys..ye
           f == [i \in S |-> WorkSecs(i, start, end)]
<1>1. /\ ys \in Nat /\ ye \in Nat
      /\ ys * Year \in Int /\ ye * Year \in Int
      /\ ys * Year <= start /\ start < ys * Year + Year
      /\ ye * Year <= end /\ end < ye * Year + Year
  BY InYear, NextYear
<1>2. IsFiniteSet(S) /\ S \subseteq Int
  BY <1>1, FS_Interval
<1>3. f \in [S -> Int] /\ \E h \in [SUBSET S -> Int] : IsSum(h, f, S) /\ YearSum(start, end) = h[S]
  <2>1. S = Years(start, end) /\ f = SecsOfYears(start, end)
    BY Zenon DEF Years, SecsOfYears
  <2> HIDE DEF S, f
  <2> QED
    BY <2>1, YearSumIsSum
<1>4. PICK h \in [SUBSET S -> Int] : IsSum(h, f, S) /\ YearSum(start, end) = h[S]
  BY <1>3
<1>5. Adds(h, f, S)
  <2> HIDE DEF S, f
  <2> QED
    BY <1>2, <1>3, <1>4, SumStep
<1>6. \A i \in S : f[i] = WorkSecs(i, start, end)
  OBVIOUS
<1> HIDE DEF f
<1>7. CASE ye < ys
  <2>1. S = {}
    BY <1>1, <1>7
  <2> QED
    BY <1>4, <1>5, <2>1 DEF Adds
<1>8. CASE ye >= ys
  <2>1. ye = ys
    <3> SUFFICES ASSUME ys < ye PROVE FALSE
      BY <1>1, <1>8
    <3>1. ys * Year + Year <= ye * Year
      BY <1>1, YearsGrow
    <3> QED
      BY <1>1, <3>1, Constants
  <2>2. S = {ys} /\ ys \in S /\ S \ {ys} = {}
    BY <1>1, <2>1
  <2>3. h[S] = f[ys] + h[S \ {ys}] /\ h[{}] = 0
    BY <1>5, <2>2 DEF Adds
  <2>4. f[ys] = WorkSecs(ys, start, end)
    BY <1>6, <2>2
  <2>5. (ys + 1) * Year = ys * Year + Year
    BY <1>1, NextYear
  <2>6. WorkSecs(ys, start, end) = end - start
    <3>1. end < ys * Year + Year
      BY <1>1, <2>1
    <3> HIDE DEF ys, ye
    <3> QED
      BY <1>1, <2>5, <3>1, Constants DEF WorkSecs
  <2>7. h[S] = end - start
    <3> HIDE DEF S, ys
    <3>1. h[S] = (end - start) + 0
      BY <2>2, <2>3, <2>4, <2>6
    <3> QED
      BY <3>1
  <2> QED
    BY <1>4, <2>7
<1> QED
  BY <1>1, <1>7, <1>8

-----------------------------------------------------------------------------
(* The maps, the databases and the records: the base of all that follows.   *)

\* A record at the time t: no older than the first block, no younger than t, and its
\* sum below zero only by what a settlement may lie in the past.
GoodRecord(r, t) ==
    \/ r = NoReward
    \/ r.last \in 0..t /\ r.claim = r.last /\ r.acc >= r.last - t /\ r.acc >= -Day

RecordsGood ==
    \A a \in Address :
        /\ GoodRecord(cur.rewards[a], now) /\ GoodRecord(pending.rewards[a], now)
        /\ cur.stakers[a] \in -1..now /\ pending.join[a] \in -1..now

BlockIsRecent == phase = "block" => now - btime <= MaxLag

\* What Accept makes of the maps c and the changes p.
StakersOf(c, p) ==
    [a \in Address |-> IF a \in p.leave THEN -1
                       ELSE IF p.join[a] # -1 THEN p.join[a] ELSE c.stakers[a]]
RewardsOf(c, p) ==
    [a \in Address |-> IF p.rewards[a] # NoReward THEN p.rewards[a] ELSE c.rewards[a]]
PowOf(c, p) == [a \in Address |-> IF p.pow[a] # 0 THEN p.pow[a] ELSE c.pow[a]]
YieldsOf(c, p) == IF p.yields # 0 THEN p.yields ELSE c.yields

\* The database d holds these maps.
Holds(d, c, p) ==
    /\ d.stakers = StakersOf(c, p) /\ d.rewards = RewardsOf(c, p) /\ d.pow = PowOf(c, p)
    /\ d.yields = YieldsOf(c, p) /\ d.users = c.users \cup p.users

Allocated == [Empty EXCEPT !.bal = [a \in Address |-> Alloc]]

Matching ==
    /\ phase \notin {"idle", "block"} => cur = Empty /\ layer = Empty /\ disk \in {Empty, Allocated}
    /\ phase \in {"loaded", "keyed"} => disk = Allocated
    /\ phase # "block" => pending = NoPending
    /\ phase \in {"idle", "block"} => Holds(disk, cur, NoPending) /\ cur.global <= disk.global
    /\ phase = "block" => Holds(layer, cur, pending) /\ cur.global <= layer.global

BaseInv == TypeOK /\ RecordsGood /\ BlockIsRecent /\ Matching

\* Where the reward of a staker starts.
StartOf(a) == IF cur.rewards[a] = NoReward THEN cur.stakers[a] ELSE cur.rewards[a].last

\* What StakerReword returns: the time since the start, and for a time before it less
\* within the year, or nothing.
LEMMA RewordIs ==
  ASSUME TypeOK, RecordsGood, NEW a \in Stakers, NEW end \in Nat
  PROVE  /\ StakerReword(a, end) \in Int /\ StartOf(a) \in 0..now /\ cur.rewards[a].acc \in Int
         /\ StartOf(a) <= end => StakerReword(a, end) = cur.rewards[a].acc + (end - StartOf(a))
         /\ end < StartOf(a) => StakerReword(a, end) \in
               {cur.rewards[a].acc, cur.rewards[a].acc + (end - StartOf(a))}
<1>1. StakerReword(a, end) = cur.rewards[a].acc + YearSum(StartOf(a), end)
  BY Zenon DEF StakerReword, YearSum, StartOf
<1>2. a \in Address /\ cur.stakers[a] >= 0
  BY DEF Stakers
<1>3. cur.rewards[a] \in Reward /\ cur.stakers[a] \in Int /\ now \in Nat
  BY <1>2 DEF TypeOK, Database
<1>4. cur.rewards[a].acc \in Int
  BY <1>3 DEF Reward
<1>5. StartOf(a) \in 0..now
  BY <1>2, <1>3 DEF StartOf, RecordsGood, GoodRecord
<1>6. StartOf(a) \in Nat
  BY <1>3, <1>5
<1>7. CASE StartOf(a) <= end
  <2>1. YearSum(StartOf(a), end) = end - StartOf(a)
    BY <1>6, <1>7, YearsAddUp
  <2> QED
    BY <1>1, <1>4, <1>5, <1>6, <1>7, <2>1
<1>8. CASE end < StartOf(a)
  <2>1. YearSum(StartOf(a), end) \in {0, end - StartOf(a)}
    BY <1>6, <1>8, YearsGoBack
  <2> QED
    BY <1>1, <1>4, <1>5, <1>6, <1>8, <2>1
<1> QED
  BY <1>6, <1>7, <1>8

\* A settlement at the time end brings a record to end, and it is a good one.
LEMMA SettledRecordGood ==
  ASSUME TypeOK, RecordsGood, NEW a \in Stakers, NEW end \in 0..now, now - end <= Day
  PROVE  /\ StakerReword(a, end) \in Int
         /\ StakerReword(a, end) >= 0 \/ cur.rewards[a] # NoReward \/ end < cur.stakers[a]
         /\ cur.stakers[a] <= end => StakerReword(a, end) >= end - now
         /\ cur.stakers[a] <= end => StakerReword(a, end) >= -Day
<1>1. a \in Address /\ cur.stakers[a] >= 0
  BY DEF Stakers
<1>2. cur.rewards[a] \in Reward /\ cur.stakers[a] \in Int /\ now \in Nat /\ end \in Nat
  BY <1>1 DEF TypeOK, Database
<1> DEFINE R == StakerReword(a, end)
           acc == cur.rewards[a].acc
           st == StartOf(a)
<1>3. /\ R \in Int /\ st \in 0..now /\ acc \in Int
      /\ st <= end => R = acc + (end - st)
      /\ end < st => R = acc \/ R = acc + (end - st)
  BY <1>2, RewordIs
<1>4. CASE cur.rewards[a] = NoReward
  <2>1. acc = 0 /\ st = cur.stakers[a]
    BY <1>4 DEF StartOf, NoReward
  <2> HIDE DEF R, acc, st
  <2> QED
    BY <1>2, <1>3, <1>4, <2>1, Constants DEF R
<1>5. CASE cur.rewards[a] # NoReward
  <2>1. st = cur.rewards[a].last /\ acc >= st - now
    BY <1>1, <1>5 DEF StartOf, RecordsGood, GoodRecord
  <2> HIDE DEF R, acc, st
  <2>2. R >= end - now /\ R >= -Day
    BY <1>2, <1>3, <2>1, Constants
  <2> QED
    BY <1>3, <1>5, <2>2 DEF R
<1> QED
  BY <1>4, <1>5

RewordOf(a, who, end) == IF a = who THEN 0 ELSE StakerReword(a, end)

\* The record of a staker after a settlement.
NewRecord(a, who, end) == [acc |-> RewordOf(a, who, end), last |-> end, claim |-> end]

\* Who is settled.
Reached(end) == {a \in Stakers : cur.stakers[a] < end}

LEMMA NewRecordGood ==
  ASSUME TypeOK, RecordsGood, NEW end \in 0..now, now - end <= Day, NEW who, NEW a \in Reached(end)
  PROVE  /\ NewRecord(a, who, end) \in Reward /\ NewRecord(a, who, end) # NoReward
         /\ GoodRecord(NewRecord(a, who, end), now)
         /\ NewRecord(a, who, end).last = end /\ NewRecord(a, who, end).claim = end
         /\ NewRecord(a, who, end).acc = RewordOf(a, who, end)
<1>1. a \in Stakers /\ a \in Address /\ cur.stakers[a] < end
  BY DEF Reached, Stakers
<1>2. now \in Nat /\ end \in Nat /\ end <= now /\ cur.stakers[a] \in Int
  BY <1>1 DEF TypeOK, Database
<1>3. StakerReword(a, end) \in Int /\ StakerReword(a, end) >= end - now /\ StakerReword(a, end) >= -Day
  BY <1>1, <1>2, SettledRecordGood
<1>4. RewordOf(a, who, end) \in Int /\ RewordOf(a, who, end) >= end - now /\ RewordOf(a, who, end) >= -Day
  BY <1>2, <1>3, Constants DEF RewordOf
<1>5. NewRecord(a, who, end) \in Reward
  BY <1>2, <1>4 DEF NewRecord, Reward
<1>6. /\ NewRecord(a, who, end).last = end /\ NewRecord(a, who, end).claim = end
      /\ NewRecord(a, who, end).acc = RewordOf(a, who, end)
  BY DEF NewRecord
<1>7. NewRecord(a, who, end) # NoReward
  BY <1>2, <1>6 DEF NoReward
<1> QED
  BY <1>2, <1>4, <1>5, <1>6, <1>7 DEF GoodRecord

LEMMA SettledIs ==
  ASSUME NEW rewards, NEW who, NEW end
  PROVE  Settled(rewards, who, end) =
            [a \in Address |-> IF a \in Reached(end) THEN NewRecord(a, who, end) ELSE rewards[a]]
BY Zenon DEF Settled, Reached, NewRecord, RewordOf

LEMMA SettledType ==
  ASSUME TypeOK, RecordsGood, NEW end \in 0..now, now - end <= Day, NEW who,
         NEW rewards \in [Address -> Reward]
  PROVE  /\ Settled(rewards, who, end) \in [Address -> Reward]
         /\ \A a \in Address :
              /\ a \in Reached(end) => Settled(rewards, who, end)[a] = NewRecord(a, who, end)
              /\ a \notin Reached(end) => Settled(rewards, who, end)[a] = rewards[a]
<1>1. \A a \in Reached(end) : NewRecord(a, who, end) \in Reward
  BY NewRecordGood
<1> QED
  BY <1>1, SettledIs

\* What a settlement leaves alone, and that it writes well-formed maps.
LEMMA SettledParts ==
  ASSUME TypeOK, RecordsGood, NEW end \in 0..now, now - end <= Day, NEW who
  PROVE  /\ PendingSettled(who, end) \in Change
         /\ PendingSettled(who, end).join = pending.join
         /\ PendingSettled(who, end).leave = pending.leave
         /\ PendingSettled(who, end).pow = pending.pow
         /\ PendingSettled(who, end).users = pending.users
         /\ LayerSettled(layer, who, end) \in Database
         /\ LayerSettled(layer, who, end).bal = layer.bal
         /\ LayerSettled(layer, who, end).locked = layer.locked
         /\ LayerSettled(layer, who, end).stakers = layer.stakers
         /\ LayerSettled(layer, who, end).pow = layer.pow
         /\ LayerSettled(layer, who, end).users = layer.users
<1>1. pending \in Change /\ layer \in Database /\ cur \in Database /\ end \in Int
  BY DEF TypeOK
<1>2. pending.rewards \in [Address -> Reward] /\ layer.rewards \in [Address -> Reward]
  BY <1>1 DEF Change, Database
<1>3. /\ Settled(pending.rewards, who, end) \in [Address -> Reward]
      /\ Settled(layer.rewards, who, end) \in [Address -> Reward]
      /\ cur.yields \in Nat
  BY <1>1, <1>2, SettledType DEF Database
<1>4. CASE Skipped(end)
  BY <1>1, <1>4 DEF PendingSettled, LayerSettled
<1>5. CASE ~Skipped(end)
  <2>1. PendingSettled(who, end) =
          [pending EXCEPT !.rewards = Settled(pending.rewards, who, end), !.yields = cur.yields]
    BY <1>5, Zenon DEF PendingSettled
  <2>2. LayerSettled(layer, who, end) =
          [layer EXCEPT !.rewards = Settled(layer.rewards, who, end), !.global = end, !.yields = cur.yields]
    BY <1>5, Zenon DEF LayerSettled
  <2>3. /\ PendingSettled(who, end) \in Change
        /\ PendingSettled(who, end).join = pending.join
        /\ PendingSettled(who, end).leave = pending.leave
        /\ PendingSettled(who, end).pow = pending.pow
        /\ PendingSettled(who, end).users = pending.users
    BY <1>1, <1>3, <2>1 DEF Change
  <2>4. /\ LayerSettled(layer, who, end) \in Database
        /\ LayerSettled(layer, who, end).bal = layer.bal
        /\ LayerSettled(layer, who, end).locked = layer.locked
        /\ LayerSettled(layer, who, end).stakers = layer.stakers
        /\ LayerSettled(layer, who, end).pow = layer.pow
        /\ LayerSettled(layer, who, end).users = layer.users
    BY <1>1, <1>3, <2>2 DEF Database
  <2> QED
    BY <2>3, <2>4
<1> QED
  BY <1>4, <1>5

\* What a settlement writes, to both alike.
LEMMA SettledWrites ==
  ASSUME TypeOK, RecordsGood, NEW end \in 0..now, now - end <= Day, NEW who
  PROVE  /\ Skipped(end) =>
              /\ PendingSettled(who, end) = pending
              /\ LayerSettled(layer, who, end) = layer
         /\ ~Skipped(end) =>
              /\ PendingSettled(who, end).yields = cur.yields
              /\ LayerSettled(layer, who, end).yields = cur.yields
              /\ LayerSettled(layer, who, end).global = end
              /\ \A a \in Address :
                   /\ a \in Reached(end) =>
                        /\ PendingSettled(who, end).rewards[a] = NewRecord(a, who, end)
                        /\ LayerSettled(layer, who, end).rewards[a] = NewRecord(a, who, end)
                   /\ a \notin Reached(end) =>
                        /\ PendingSettled(who, end).rewards[a] = pending.rewards[a]
                        /\ LayerSettled(layer, who, end).rewards[a] = layer.rewards[a]
<1>1. pending \in Change /\ layer \in Database
  BY DEF TypeOK
<1>2. pending.rewards \in [Address -> Reward] /\ layer.rewards \in [Address -> Reward]
  BY <1>1 DEF Change, Database
<1>3. CASE Skipped(end)
  BY <1>3 DEF PendingSettled, LayerSettled
<1>4. CASE ~Skipped(end)
  <2> DEFINE P == Settled(pending.rewards, who, end)
             L == Settled(layer.rewards, who, end)
  <2>1. PendingSettled(who, end) = [pending EXCEPT !.rewards = P, !.yields = cur.yields]
    BY <1>4, Zenon DEF PendingSettled
  <2>2. LayerSettled(layer, who, end) = [layer EXCEPT !.rewards = L, !.global = end, !.yields = cur.yields]
    BY <1>4, Zenon DEF LayerSettled
  <2>3. \A a \in Address :
          /\ a \in Reached(end) => P[a] = NewRecord(a, who, end) /\ L[a] = NewRecord(a, who, end)
          /\ a \notin Reached(end) => P[a] = pending.rewards[a] /\ L[a] = layer.rewards[a]
    BY <1>2, SettledType
  <2> HIDE DEF P, L
  <2>4. PendingSettled(who, end).rewards = P /\ PendingSettled(who, end).yields = cur.yields
    BY <1>1, <2>1 DEF Change
  <2>5. /\ LayerSettled(layer, who, end).rewards = L /\ LayerSettled(layer, who, end).yields = cur.yields
        /\ LayerSettled(layer, who, end).global = end
    BY <1>1, <2>2 DEF Database
  <2> QED
    BY <1>4, <2>3, <2>4, <2>5
<1> QED
  BY <1>3, <1>4

\* What the steps with a settlement have in common.
Settles(who, end) ==
    /\ phase = "block" /\ end \in 0..now /\ now - end <= Day /\ cur.global <= end
    /\ pending' \in Change /\ layer' \in Database
    /\ pending'.rewards = PendingSettled(who, end).rewards
    /\ pending'.yields = PendingSettled(who, end).yields
    /\ pending'.pow = pending.pow /\ pending'.users = pending.users
    /\ layer'.rewards = LayerSettled(layer, who, end).rewards
    /\ layer'.global = LayerSettled(layer, who, end).global
    /\ layer'.yields = LayerSettled(layer, who, end).yields
    /\ layer'.pow = layer.pow /\ layer'.users = layer.users
    /\ UNCHANGED <<phase, cur, disk, now, btime>>

LEMMA StakeEffect ==
  ASSUME BaseInv, NEW s \in Address, NEW a \in Address, Stake(s, a)
  PROVE  /\ Settles(a, btime)
         /\ pending'.join = [pending.join EXCEPT ![a] = btime]
         /\ pending'.leave = pending.leave \ {a}
         /\ layer'.stakers = [layer.stakers EXCEPT ![a] = btime]
         /\ layer'.bal = [layer.bal EXCEPT ![s] = @ - TxFee - StakeAmount]
         /\ layer'.locked = [layer.locked EXCEPT ![s] = @ + StakeAmount]
<1> DEFINE P == PendingSettled(a, btime)
           L == LayerSettled(layer, a, btime)
<1>1. /\ btime \in 0..now /\ btime \in Int /\ now \in Nat /\ phase = "block" /\ now - btime <= MaxLag
      /\ TypeOK /\ RecordsGood /\ layer \in Database /\ cur \in Database /\ layer.bal[s] >= TxFee + StakeAmount
      /\ ~TooEarly(btime)
  BY DEF BaseInv, TypeOK, BlockIsRecent, Stake, Executing, Pays
<1>2. now - btime <= Day
  BY <1>1, Constants
<1>3. /\ P \in Change /\ P.join = pending.join /\ P.leave = pending.leave /\ P.pow = pending.pow
      /\ P.users = pending.users
      /\ L \in Database /\ L.bal = layer.bal /\ L.locked = layer.locked /\ L.stakers = layer.stakers
      /\ L.pow = layer.pow /\ L.users = layer.users
  BY <1>1, <1>2, SettledParts
<1>4. /\ pending' = [P EXCEPT !.join[a] = btime, !.leave = @ \ {a}]
      /\ layer' = [L EXCEPT !.bal[s] = @ - TxFee - StakeAmount, !.locked[s] = @ + StakeAmount,
                            !.stakers[a] = btime]
      /\ UNCHANGED <<phase, cur, disk, now, btime>>
  BY DEF Stake, Rest
<1> HIDE DEF P, L
<1>5. /\ pending' \in Change /\ pending'.rewards = P.rewards /\ pending'.yields = P.yields
      /\ pending'.pow = P.pow /\ pending'.users = P.users
      /\ pending'.join = [P.join EXCEPT ![a] = btime] /\ pending'.leave = P.leave \ {a}
  BY <1>1, <1>3, <1>4 DEF Change
<1>6. L.bal[s] - TxFee - StakeAmount \in Nat /\ L.locked[s] + StakeAmount \in Nat
  BY <1>1, <1>3, Constants DEF Database
<1>7. /\ layer' \in Database /\ layer'.rewards = L.rewards /\ layer'.global = L.global
      /\ layer'.yields = L.yields /\ layer'.pow = L.pow /\ layer'.users = L.users
      /\ layer'.stakers = [L.stakers EXCEPT ![a] = btime]
      /\ layer'.bal = [L.bal EXCEPT ![s] = @ - TxFee - StakeAmount]
      /\ layer'.locked = [L.locked EXCEPT ![s] = @ + StakeAmount]
  BY <1>1, <1>3, <1>4, <1>6 DEF Database
<1>8. cur.global <= btime
  BY <1>1 DEF TooEarly, Database
<1>9. Settles(a, btime)
  BY <1>1, <1>2, <1>3, <1>4, <1>5, <1>7, <1>8 DEF Settles, P, L
<1> QED
  BY <1>3, <1>5, <1>7, <1>9

LEMMA UnstakeEffect ==
  ASSUME BaseInv, NEW a \in Address, NEW end \in 0..now, Unstake(a, end)
  PROVE  /\ Settles(a, end) /\ a \in Stakers /\ cur.stakers[a] <= end
         /\ StakerReword(a, end) \in Int
         /\ pending'.join = [pending.join EXCEPT ![a] = -1]
         /\ pending'.leave = pending.leave \cup {a}
         /\ layer'.stakers = [layer.stakers EXCEPT ![a] = -1]
         /\ layer'.bal = [layer.bal EXCEPT ![a] = @ - TxFee + StakeAmount + StakerReword(a, end)]
         /\ layer'.locked = [layer.locked EXCEPT ![a] = @ - StakeAmount]
         /\ layer.locked[a] >= StakeAmount
<1> DEFINE P == PendingSettled(a, end)
           L == LayerSettled(layer, a, end)
           R == StakerReword(a, end)
           none == -1
<1>1. /\ end \in Nat /\ now \in Nat /\ end <= now /\ phase = "block" /\ now <= end + Effective
      /\ TypeOK /\ RecordsGood /\ layer \in Database /\ cur \in Database /\ layer.bal[a] >= TxFee
      /\ layer.locked[a] >= StakeAmount
      /\ ~TooEarly(end) /\ a \in Stakers /\ end >= cur.stakers[a] /\ cur.stakers[a] \in Int
  BY DEF BaseInv, TypeOK, Unstake, Executing, Pays, Database
<1>2. now - end <= Day /\ end - now >= -Effective
  BY <1>1, Constants
<1>3. /\ P \in Change /\ P.join = pending.join /\ P.leave = pending.leave /\ P.pow = pending.pow
      /\ P.users = pending.users
      /\ L \in Database /\ L.bal = layer.bal /\ L.locked = layer.locked /\ L.stakers = layer.stakers
      /\ L.pow = layer.pow /\ L.users = layer.users
  BY <1>1, <1>2, SettledParts
<1>4. /\ pending' = [P EXCEPT !.join[a] = none, !.leave = @ \cup {a}]
      /\ layer' = [L EXCEPT !.locked[a] = @ - StakeAmount, !.stakers[a] = none,
                            !.bal[a] = @ - TxFee + StakeAmount + R]
      /\ UNCHANGED <<phase, cur, disk, now, btime>>
  BY DEF Unstake, Rest
<1>n. none \in Int
  OBVIOUS
<1>r. R \in Int /\ R >= end - now
  BY <1>1, <1>2, SettledRecordGood
<1> HIDE DEF P, L, R, none
<1>5. /\ pending' \in Change /\ pending'.rewards = P.rewards /\ pending'.yields = P.yields
      /\ pending'.pow = P.pow /\ pending'.users = P.users
      /\ pending'.join = [P.join EXCEPT ![a] = none] /\ pending'.leave = P.leave \cup {a}
  BY <1>1, <1>3, <1>4, <1>n DEF Change
<1>6. L.bal[a] - TxFee + StakeAmount + R \in Nat /\ L.locked[a] - StakeAmount \in Nat
  BY <1>1, <1>2, <1>3, <1>r, Constants DEF Database
<1>7. /\ layer' \in Database /\ layer'.rewards = L.rewards /\ layer'.global = L.global
      /\ layer'.yields = L.yields /\ layer'.pow = L.pow /\ layer'.users = L.users
      /\ layer'.stakers = [L.stakers EXCEPT ![a] = none]
      /\ layer'.bal = [L.bal EXCEPT ![a] = @ - TxFee + StakeAmount + R]
      /\ layer'.locked = [L.locked EXCEPT ![a] = @ - StakeAmount]
  BY <1>1, <1>3, <1>4, <1>6, <1>n DEF Database
<1>8. cur.global <= end
  BY <1>1 DEF TooEarly, Database
<1>9. Settles(a, end)
  BY <1>1, <1>2, <1>3, <1>4, <1>5, <1>7, <1>8 DEF Settles, P, L
<1> QED
  BY <1>1, <1>3, <1>5, <1>7, <1>9, <1>r DEF R, none

LEMMA ClaimEndsRecent ==
  ASSUME now \in Nat, NEW end \in ClaimEnds
  PROVE  now - end <= Day
<1>1. (now \div Day) * Day \in Int /\ now < (now \div Day) * Day + Day
  BY Constants
<1>2. end = (now \div Day) * Day \/ end = (now \div Day) * Day - 1
  BY DEF ClaimEnds
<1> DEFINE d == (now \div Day) * Day
<1>3. d \in Int /\ now < d + Day /\ (end = d \/ end = d - 1)
  BY <1>1, <1>2
<1> HIDE DEF d
<1> QED
  BY <1>3, Constants

\* The reward of a claim is never negative: a week is longer than what a settlement
\* may lie in the past.
LEMMA ClaimEffect ==
  ASSUME BaseInv, NEW a \in Address, NEW end \in 0..now, Claim(a, end)
  PROVE  /\ Settles(a, end) /\ a \in Stakers /\ cur.stakers[a] <= end
         /\ StakerReword(a, end) \in Int
         /\ pending'.join = pending.join /\ pending'.leave = pending.leave
         /\ layer'.stakers = layer.stakers /\ layer'.locked = layer.locked
         /\ layer'.bal = [layer.bal EXCEPT ![a] = @ - TxFee + StakerReword(a, end)]
<1> DEFINE P == PendingSettled(a, end)
           L == LayerSettled(layer, a, end)
           R == StakerReword(a, end)
<1>1. /\ end \in Nat /\ now \in Nat /\ end <= now /\ phase = "block" /\ end \in ClaimEnds
      /\ TypeOK /\ RecordsGood /\ layer \in Database /\ cur \in Database /\ layer.bal[a] >= TxFee
      /\ ~TooEarly(end) /\ a \in Stakers /\ end >= cur.stakers[a] /\ cur.stakers[a] \in Int
      /\ WeekPassed(a)
  BY DEF BaseInv, TypeOK, Claim, Executing, Pays, Database
<1>2. now - end <= Day
  BY <1>1, ClaimEndsRecent
<1>3. /\ P \in Change /\ P.join = pending.join /\ P.leave = pending.leave /\ P.pow = pending.pow
      /\ P.users = pending.users
      /\ L \in Database /\ L.bal = layer.bal /\ L.locked = layer.locked /\ L.stakers = layer.stakers
      /\ L.pow = layer.pow /\ L.users = layer.users
  BY <1>1, <1>2, SettledParts
<1>4. /\ pending' = P /\ layer' = [L EXCEPT !.bal[a] = @ - TxFee + R]
      /\ UNCHANGED <<phase, cur, disk, now, btime>>
  BY DEF Claim, Rest
<1>r. R \in Int /\ R >= 0
  <2>1. CASE cur.rewards[a] = NoReward
    BY <1>1, <1>2, <2>1, SettledRecordGood
  <2>2. CASE cur.rewards[a] # NoReward
    <3> DEFINE last == cur.rewards[a].last
               acc == cur.rewards[a].acc
    <3>1. /\ R \in Int /\ acc \in Int /\ StartOf(a) \in 0..now
          /\ StartOf(a) <= end => R = acc + (end - StartOf(a))
      BY <1>1, RewordIs
    <3>2. StartOf(a) = last /\ last = cur.rewards[a].claim /\ acc >= -Day
      BY <1>1, <2>2 DEF StartOf, RecordsGood, GoodRecord
    <3>3. now - last >= Week
      BY <1>1, <2>2, <3>2 DEF WeekPassed
    <3> HIDE DEF last, acc, R
    <3> QED
      BY <1>1, <1>2, <3>1, <3>2, <3>3, Constants
  <2> QED
    BY <2>1, <2>2
<1> HIDE DEF P, L, R
<1>6. L.bal[a] - TxFee + R \in Nat
  BY <1>1, <1>3, <1>r, Constants DEF Database
<1>7. /\ layer' \in Database /\ layer'.rewards = L.rewards /\ layer'.global = L.global
      /\ layer'.yields = L.yields /\ layer'.pow = L.pow /\ layer'.users = L.users
      /\ layer'.stakers = L.stakers /\ layer'.locked = L.locked
      /\ layer'.bal = [L.bal EXCEPT ![a] = @ - TxFee + R]
  BY <1>1, <1>3, <1>4, <1>6 DEF Database
<1>8. cur.global <= end
  BY <1>1 DEF TooEarly, Database
<1>9. Settles(a, end)
  BY <1>1, <1>2, <1>3, <1>4, <1>7, <1>8 DEF Settles, P, L
<1> QED
  BY <1>1, <1>3, <1>4, <1>7, <1>9, <1>r DEF R

\* A settlement leaves good records, the same in the maps and in the database.
LEMMA SettlesKeeps ==
  ASSUME BaseInv, NEW who, NEW end, Settles(who, end)
  PROVE  /\ \A a \in Address : GoodRecord(pending'.rewards[a], now)
         /\ layer'.rewards = RewardsOf(cur, pending') /\ layer'.pow = PowOf(cur, pending')
         /\ layer'.yields = YieldsOf(cur, pending') /\ layer'.users = cur.users \cup pending'.users
         /\ cur.global <= layer'.global
<1> DEFINE P == PendingSettled(who, end)
           L == LayerSettled(layer, who, end)
<1>1. /\ phase = "block" /\ end \in 0..now /\ now - end <= Day /\ cur.global <= end
      /\ layer' \in Database /\ pending' \in Change
      /\ pending'.rewards = P.rewards /\ pending'.yields = P.yields
      /\ pending'.pow = pending.pow /\ pending'.users = pending.users
      /\ layer'.rewards = L.rewards /\ layer'.global = L.global /\ layer'.yields = L.yields
      /\ layer'.pow = layer.pow /\ layer'.users = layer.users
  BY DEF Settles
<1>2. TypeOK /\ RecordsGood /\ Holds(layer, cur, pending) /\ cur.global <= layer.global
  BY <1>1 DEF BaseInv, Matching
<1>3. layer'.pow = PowOf(cur, pending') /\ layer'.users = cur.users \cup pending'.users
  BY <1>1, <1>2 DEF Holds, PowOf
<1>4. CASE Skipped(end)
  <2>1. P = pending /\ L = layer
    BY <1>1, <1>2, <1>4, SettledWrites
  <2> HIDE DEF P, L
  <2>2. pending'.rewards = pending.rewards /\ layer'.rewards = layer.rewards /\ pending'.yields = pending.yields
        /\ layer'.yields = layer.yields /\ layer'.global = layer.global
    BY <1>1, <2>1
  <2>3. layer'.rewards = RewardsOf(cur, pending')
    BY <1>2, <2>2 DEF Holds, RewardsOf
  <2>4. layer'.yields = YieldsOf(cur, pending')
    BY <1>2, <2>2 DEF Holds, YieldsOf
  <2>5. \A a \in Address : GoodRecord(pending'.rewards[a], now)
    BY <1>2, <2>2 DEF RecordsGood
  <2> QED
    BY <1>2, <1>3, <2>2, <2>3, <2>4, <2>5
<1>5. CASE ~Skipped(end)
  <2>1. /\ P.yields = cur.yields /\ L.yields = cur.yields /\ L.global = end
        /\ \A a \in Address :
             /\ a \in Reached(end) => P.rewards[a] = NewRecord(a, who, end) /\ L.rewards[a] = NewRecord(a, who, end)
             /\ a \notin Reached(end) => P.rewards[a] = pending.rewards[a] /\ L.rewards[a] = layer.rewards[a]
    BY <1>1, <1>2, <1>5, SettledWrites
  <2>2. \A a \in Reached(end) : NewRecord(a, who, end) # NoReward /\ GoodRecord(NewRecord(a, who, end), now)
    BY <1>1, <1>2, NewRecordGood
  <2> HIDE DEF P, L
  <2>3. \A a \in Address : GoodRecord(pending'.rewards[a], now)
    BY <1>1, <1>2, <2>1, <2>2 DEF RecordsGood
  <2>4. layer'.yields = YieldsOf(cur, pending')
    BY <1>1, <2>1 DEF YieldsOf
  <2>5. layer'.rewards = RewardsOf(cur, pending')
    <3>1. layer'.rewards \in [Address -> Reward]
      BY <1>1 DEF Database
    <3>2. ASSUME NEW a \in Address PROVE layer'.rewards[a] = RewardsOf(cur, pending')[a]
      <4>1. CASE a \in Reached(end)
        BY <1>1, <2>1, <2>2, <4>1 DEF RewardsOf
      <4>2. CASE a \notin Reached(end)
        <5>1. layer.rewards[a] = RewardsOf(cur, pending)[a]
          BY <1>2 DEF Holds
        <5> QED
          BY <1>1, <2>1, <4>2, <5>1 DEF RewardsOf
      <4> QED
        BY <4>1, <4>2
    <3> QED
      BY <3>1, <3>2 DEF RewardsOf
  <2> QED
    BY <1>1, <1>3, <2>1, <2>3, <2>4, <2>5
<1> QED
  BY <1>4, <1>5

\* A transaction that keeps the maps and the database of the block in step.
LEMMA TransactionKeeps ==
  ASSUME BaseInv, Executing, Rest, pending' \in Change, layer' \in Database,
         Holds(layer', cur, pending'), cur.global <= layer'.global,
         \A a \in Address : GoodRecord(pending'.rewards[a], now) /\ pending'.join[a] \in -1..now
  PROVE  BaseInv'
<1>1. /\ phase = "block" /\ UNCHANGED <<phase, cur, disk, now, btime>>
      /\ total < MaxTxs /\ executed' = executed + 1 /\ total' = total + 1
  BY DEF Executing, Rest
<1>2. TypeOK'
  BY <1>1, Constants DEF BaseInv, TypeOK
<1>3. RecordsGood'
  BY <1>1 DEF BaseInv, RecordsGood
<1>4. BlockIsRecent'
  BY <1>1 DEF BaseInv, BlockIsRecent
<1>5. Matching'
  BY <1>1 DEF BaseInv, Matching, Holds
<1> QED
  BY <1>2, <1>3, <1>4, <1>5 DEF BaseInv

LEMMA TransferEffect ==
  ASSUME BaseInv, NEW s \in Address, NEW to \in Address, Transfer(s, to, 1)
  PROVE  /\ pending' = pending /\ layer' \in Database /\ s # to
         /\ layer'.bal = [layer.bal EXCEPT ![s] = @ - TxFee - 1, ![to] = @ + 1]
         /\ layer'.locked = layer.locked /\ layer'.stakers = layer.stakers
         /\ layer'.rewards = layer.rewards /\ layer'.global = layer.global
         /\ layer'.pow = layer.pow /\ layer'.yields = layer.yields /\ layer'.users = layer.users
<1>1. /\ layer \in Database /\ layer.bal[s] >= TxFee + 1 /\ s # to /\ pending' = pending
      /\ layer' = [layer EXCEPT !.bal[s] = @ - TxFee - 1, !.bal[to] = @ + 1]
  BY DEF BaseInv, TypeOK, Transfer, Pays
<1>2. layer.bal[s] - TxFee - 1 \in Nat /\ layer.bal[to] + 1 \in Nat
  BY <1>1, Constants DEF Database
<1> QED
  BY <1>1, <1>2 DEF Database

LEMMA ProofEffect ==
  ASSUME BaseInv, NEW a \in Address, Proof(a, 1)
  PROVE  /\ pending' \in Change /\ layer' \in Database /\ Proved(a, 1) \in Nat \ {0}
         /\ pending'.pow = [pending.pow EXCEPT ![a] = Proved(a, 1)]
         /\ pending'.join = pending.join /\ pending'.leave = pending.leave
         /\ pending'.rewards = pending.rewards /\ pending'.yields = pending.yields
         /\ pending'.users = pending.users
         /\ layer'.pow = [layer.pow EXCEPT ![a] = Proved(a, 1)]
         /\ layer'.bal = layer.bal /\ layer'.locked = layer.locked /\ layer'.stakers = layer.stakers
         /\ layer'.rewards = layer.rewards /\ layer'.global = layer.global
         /\ layer'.yields = layer.yields /\ layer'.users = layer.users
<1>1. /\ layer \in Database /\ cur \in Database /\ pending \in Change
      /\ pending' = [pending EXCEPT !.pow[a] = Proved(a, 1)]
      /\ layer' = [layer EXCEPT !.pow[a] = Proved(a, 1)]
  BY DEF BaseInv, TypeOK, Proof
<1>2. pending.pow[a] \in Nat /\ cur.pow[a] \in Nat
  BY <1>1 DEF Change, Database
<1>3. Proved(a, 1) \in Nat \ {0}
  BY <1>2 DEF Proved
<1>4. /\ pending' \in Change
      /\ pending'.pow = [pending.pow EXCEPT ![a] = Proved(a, 1)]
      /\ pending'.join = pending.join /\ pending'.leave = pending.leave
      /\ pending'.rewards = pending.rewards /\ pending'.yields = pending.yields
      /\ pending'.users = pending.users
  BY <1>1, <1>3 DEF Change
<1>5. /\ layer' \in Database
      /\ layer'.pow = [layer.pow EXCEPT ![a] = Proved(a, 1)]
      /\ layer'.bal = layer.bal /\ layer'.locked = layer.locked /\ layer'.stakers = layer.stakers
      /\ layer'.rewards = layer.rewards /\ layer'.global = layer.global
      /\ layer'.yields = layer.yields /\ layer'.users = layer.users
  BY <1>1, <1>3 DEF Database
<1> QED
  BY <1>3, <1>4, <1>5

LEMMA AddUserEffect ==
  ASSUME BaseInv, NEW s \in Address, NEW u \in User, AddUser(s, u)
  PROVE  /\ pending' \in Change /\ layer' \in Database
         /\ pending'.users = pending.users \cup {u} /\ pending'.yields = cur.yields + Yield
         /\ pending'.join = pending.join /\ pending'.leave = pending.leave
         /\ pending'.rewards = pending.rewards /\ pending'.pow = pending.pow
         /\ layer'.users = layer.users \cup {u} /\ layer'.yields = cur.yields + Yield
         /\ layer'.bal = [layer.bal EXCEPT ![s] = @ - TxFee - UserFee]
         /\ layer'.locked = layer.locked /\ layer'.stakers = layer.stakers
         /\ layer'.rewards = layer.rewards /\ layer'.global = layer.global /\ layer'.pow = layer.pow
<1>1. /\ layer \in Database /\ cur \in Database /\ pending \in Change
      /\ layer.bal[s] >= TxFee + UserFee
      /\ pending' = [pending EXCEPT !.users = @ \cup {u}, !.yields = cur.yields + Yield]
      /\ layer' = [layer EXCEPT !.bal[s] = @ - TxFee - UserFee, !.users = @ \cup {u},
                                !.yields = cur.yields + Yield]
  BY DEF BaseInv, TypeOK, AddUser, Pays
<1>2. cur.yields + Yield \in Nat /\ layer.bal[s] - TxFee - UserFee \in Nat
  BY <1>1, Constants DEF Database
<1>3. /\ pending' \in Change
      /\ pending'.users = pending.users \cup {u} /\ pending'.yields = cur.yields + Yield
      /\ pending'.join = pending.join /\ pending'.leave = pending.leave
      /\ pending'.rewards = pending.rewards /\ pending'.pow = pending.pow
  BY <1>1, <1>2 DEF Change
<1>4. /\ layer' \in Database
      /\ layer'.users = layer.users \cup {u} /\ layer'.yields = cur.yields + Yield
      /\ layer'.bal = [layer.bal EXCEPT ![s] = @ - TxFee - UserFee]
      /\ layer'.locked = layer.locked /\ layer'.stakers = layer.stakers
      /\ layer'.rewards = layer.rewards /\ layer'.global = layer.global /\ layer'.pow = layer.pow
  BY <1>1, <1>2 DEF Database
<1> QED
  BY <1>3, <1>4

LEMMA BlankTypes ==
  /\ Empty \in Database /\ NoPending \in Change /\ Allocated \in Database
  /\ \A a \in Address : NoPending.rewards[a] = NoReward /\ NoPending.join[a] = -1 /\ NoPending.pow[a] = 0
  /\ NoPending.leave = {} /\ NoPending.yields = 0 /\ NoPending.users = {}
<1>1. NoReward \in Reward
  BY DEF NoReward, Reward
<1>2. Zero \in [Address -> Nat] /\ [a \in Address |-> Alloc] \in [Address -> Nat]
  BY Constants DEF Zero
<1>3. [a \in Address |-> -1] \in [Address -> Int] /\ -1 \in Int
  OBVIOUS
<1>4. Empty \in Database
  BY <1>1, <1>2, <1>3 DEF Empty, Database
<1>5. Allocated \in Database
  BY <1>2, <1>4 DEF Allocated, Database
<1>6. NoPending \in Change
  BY <1>1, <1>2, <1>3 DEF NoPending, Change
<1> QED
  BY <1>4, <1>5, <1>6 DEF NoPending, Zero

\* With nothing pending, holding the maps is having the same.
LEMMA HoldsNothing ==
  ASSUME NEW c \in Database, NEW d
  PROVE  Holds(d, c, NoPending) <=>
            /\ d.stakers = c.stakers /\ d.rewards = c.rewards /\ d.pow = c.pow
            /\ d.yields = c.yields /\ d.users = c.users
<1>1. c.stakers \in [Address -> Int] /\ c.rewards \in [Address -> Reward] /\ c.pow \in [Address -> Nat]
  BY DEF Database
<1>2. StakersOf(c, NoPending) = c.stakers
  BY <1>1, BlankTypes DEF StakersOf
<1>3. RewardsOf(c, NoPending) = c.rewards
  BY <1>1, BlankTypes DEF RewardsOf
<1>4. PowOf(c, NoPending) = c.pow
  BY <1>1, BlankTypes DEF PowOf
<1>5. YieldsOf(c, NoPending) = c.yields /\ c.users \cup NoPending.users = c.users
  BY BlankTypes DEF YieldsOf
<1> QED
  BY <1>2, <1>3, <1>4, <1>5 DEF Holds

LEMMA MergedIs ==
  ASSUME TypeOK
  PROVE  /\ Merged \in Database /\ Merged.global = cur.global
         /\ Merged.stakers = StakersOf(cur, pending) /\ Merged.rewards = RewardsOf(cur, pending)
         /\ Merged.pow = PowOf(cur, pending) /\ Merged.yields = YieldsOf(cur, pending)
         /\ Merged.users = cur.users \cup pending.users
<1>1. cur \in Database /\ pending \in Change
  BY DEF TypeOK
<1>2. Merged = [cur EXCEPT !.stakers = StakersOf(cur, pending), !.rewards = RewardsOf(cur, pending),
                           !.pow = PowOf(cur, pending), !.yields = YieldsOf(cur, pending),
                           !.users = cur.users \cup pending.users]
  BY Zenon DEF Merged, StakersOf, RewardsOf, PowOf, YieldsOf
<1>3. StakersOf(cur, pending) \in [Address -> Int]
  BY <1>1 DEF StakersOf, Database, Change
<1>4. RewardsOf(cur, pending) \in [Address -> Reward]
  BY <1>1 DEF RewardsOf, Database, Change
<1>5. PowOf(cur, pending) \in [Address -> Nat]
  BY <1>1 DEF PowOf, Database, Change
<1>6. YieldsOf(cur, pending) \in Nat /\ cur.users \cup pending.users \in SUBSET User
  BY <1>1 DEF YieldsOf, Database, Change
<1> QED
  BY <1>1, <1>2, <1>3, <1>4, <1>5, <1>6 DEF Database

LEMMA TransactionsKeepBase ==
  ASSUME BaseInv,
         \/ \E s, a \in Address : Transfer(s, a, 1) \/ Stake(s, a)
         \/ \E a \in Address : \E end \in 0..now : Unstake(a, end) \/ Claim(a, end)
         \/ \E a \in Address : Proof(a, 1)
         \/ \E s \in Address, u \in User : AddUser(s, u)
  PROVE  BaseInv'
<1> DEFINE Stays(d) == /\ d.stakers = layer.stakers /\ d.rewards = layer.rewards /\ d.pow = layer.pow
                       /\ d.yields = layer.yields /\ d.users = layer.users
<1>0. /\ phase = "block" => Holds(layer, cur, pending) /\ cur.global <= layer.global
      /\ \A a \in Address : GoodRecord(pending.rewards[a], now) /\ pending.join[a] \in -1..now
      /\ pending \in Change /\ layer \in Database /\ now \in Nat /\ btime \in 0..now
  BY DEF BaseInv, Matching, RecordsGood, TypeOK
<1>1. ASSUME NEW s \in Address, NEW a \in Address, Transfer(s, a, 1) PROVE BaseInv'
  <2>1. Executing /\ Rest /\ phase = "block"
    BY <1>1 DEF Transfer, Executing
  <2>2. pending' = pending /\ layer' \in Database /\ layer'.global = layer.global /\ Stays(layer')
    BY <1>1, TransferEffect
  <2>3. Holds(layer', cur, pending')
    BY <1>0, <2>1, <2>2 DEF Holds
  <2> QED
    BY <1>0, <2>1, <2>2, <2>3, TransactionKeeps
<1>2. ASSUME NEW s \in Address, NEW a \in Address, Stake(s, a) PROVE BaseInv'
  <2>1. Executing /\ Rest /\ phase = "block"
    BY <1>2 DEF Stake, Executing
  <2>2. /\ Settles(a, btime)
        /\ pending'.join = [pending.join EXCEPT ![a] = btime]
        /\ pending'.leave = pending.leave \ {a}
        /\ layer'.stakers = [layer.stakers EXCEPT ![a] = btime]
    BY <1>2, StakeEffect
  <2>3. /\ \A b \in Address : GoodRecord(pending'.rewards[b], now)
        /\ layer'.rewards = RewardsOf(cur, pending') /\ layer'.pow = PowOf(cur, pending')
        /\ layer'.yields = YieldsOf(cur, pending') /\ layer'.users = cur.users \cup pending'.users
        /\ cur.global <= layer'.global
    BY <2>2, SettlesKeeps
  <2>4. pending' \in Change /\ layer' \in Database
    BY <2>2 DEF Settles
  <2>5. pending.join \in [Address -> Int] /\ layer.stakers = StakersOf(cur, pending)
    BY <1>0, <2>1 DEF Change, Holds
  <2>6. layer'.stakers = StakersOf(cur, pending')
    BY <1>0, <2>2, <2>5 DEF StakersOf
  <2>7. \A b \in Address : pending'.join[b] \in -1..now
    BY <1>0, <2>2, <2>5
  <2>8. Holds(layer', cur, pending')
    BY <2>3, <2>6 DEF Holds
  <2> QED
    BY <2>1, <2>3, <2>4, <2>7, <2>8, TransactionKeeps
<1>3. ASSUME NEW a \in Address, NEW end \in 0..now, Unstake(a, end) PROVE BaseInv'
  <2>1. Executing /\ Rest /\ phase = "block"
    BY <1>3 DEF Unstake, Executing
  <2>2. /\ Settles(a, end)
        /\ pending'.join = [pending.join EXCEPT ![a] = -1]
        /\ pending'.leave = pending.leave \cup {a}
        /\ layer'.stakers = [layer.stakers EXCEPT ![a] = -1]
    BY <1>3, UnstakeEffect
  <2>3. /\ \A b \in Address : GoodRecord(pending'.rewards[b], now)
        /\ layer'.rewards = RewardsOf(cur, pending') /\ layer'.pow = PowOf(cur, pending')
        /\ layer'.yields = YieldsOf(cur, pending') /\ layer'.users = cur.users \cup pending'.users
        /\ cur.global <= layer'.global
    BY <2>2, SettlesKeeps
  <2>4. pending' \in Change /\ layer' \in Database
    BY <2>2 DEF Settles
  <2>5. pending.join \in [Address -> Int] /\ layer.stakers = StakersOf(cur, pending)
    BY <1>0, <2>1 DEF Change, Holds
  <2>6. layer'.stakers = StakersOf(cur, pending')
    BY <1>0, <2>2, <2>5 DEF StakersOf
  <2>7. \A b \in Address : pending'.join[b] \in -1..now
    BY <1>0, <2>2, <2>5
  <2>8. Holds(layer', cur, pending')
    BY <2>3, <2>6 DEF Holds
  <2> QED
    BY <2>1, <2>3, <2>4, <2>7, <2>8, TransactionKeeps
<1>4. ASSUME NEW a \in Address, NEW end \in 0..now, Claim(a, end) PROVE BaseInv'
  <2>1. Executing /\ Rest /\ phase = "block"
    BY <1>4 DEF Claim, Executing
  <2>2. /\ Settles(a, end) /\ pending'.join = pending.join /\ pending'.leave = pending.leave
        /\ layer'.stakers = layer.stakers
    BY <1>4, ClaimEffect
  <2>3. /\ \A b \in Address : GoodRecord(pending'.rewards[b], now)
        /\ layer'.rewards = RewardsOf(cur, pending') /\ layer'.pow = PowOf(cur, pending')
        /\ layer'.yields = YieldsOf(cur, pending') /\ layer'.users = cur.users \cup pending'.users
        /\ cur.global <= layer'.global
    BY <2>2, SettlesKeeps
  <2>4. pending' \in Change /\ layer' \in Database
    BY <2>2 DEF Settles
  <2>5. layer'.stakers = StakersOf(cur, pending')
    BY <1>0, <2>1, <2>2 DEF StakersOf, Holds
  <2>6. \A b \in Address : pending'.join[b] \in -1..now
    BY <1>0, <2>2
  <2>7. Holds(layer', cur, pending')
    BY <2>3, <2>5 DEF Holds
  <2> QED
    BY <2>1, <2>3, <2>4, <2>6, <2>7, TransactionKeeps
<1>5. ASSUME NEW a \in Address, Proof(a, 1) PROVE BaseInv'
  <2>1. Executing /\ Rest /\ phase = "block"
    BY <1>5 DEF Proof, Executing
  <2>2. /\ pending' \in Change /\ layer' \in Database /\ Proved(a, 1) \in Nat \ {0}
        /\ pending'.pow = [pending.pow EXCEPT ![a] = Proved(a, 1)]
        /\ pending'.join = pending.join /\ pending'.leave = pending.leave
        /\ pending'.rewards = pending.rewards /\ pending'.yields = pending.yields
        /\ pending'.users = pending.users
        /\ layer'.pow = [layer.pow EXCEPT ![a] = Proved(a, 1)]
        /\ layer'.stakers = layer.stakers /\ layer'.rewards = layer.rewards /\ layer'.global = layer.global
        /\ layer'.yields = layer.yields /\ layer'.users = layer.users
    BY <1>5, ProofEffect
  <2>3. layer'.pow = PowOf(cur, pending')
    <3>1. layer.pow = PowOf(cur, pending) /\ pending.pow \in [Address -> Nat]
      BY <1>0, <2>1 DEF Holds, Change
    <3> QED
      BY <2>2, <3>1 DEF PowOf
  <2>4. Holds(layer', cur, pending')
    BY <1>0, <2>1, <2>2, <2>3 DEF Holds, StakersOf, RewardsOf, YieldsOf
  <2>5. \A b \in Address : GoodRecord(pending'.rewards[b], now) /\ pending'.join[b] \in -1..now
    BY <1>0, <2>2
  <2> QED
    BY <1>0, <2>1, <2>2, <2>4, <2>5, TransactionKeeps
<1>6. ASSUME NEW s \in Address, NEW u \in User, AddUser(s, u) PROVE BaseInv'
  <2>1. Executing /\ Rest /\ phase = "block" /\ cur.yields \in Nat
    BY <1>6 DEF AddUser, Executing, BaseInv, TypeOK, Database
  <2>2. /\ pending' \in Change /\ layer' \in Database
        /\ pending'.users = pending.users \cup {u} /\ pending'.yields = cur.yields + Yield
        /\ pending'.join = pending.join /\ pending'.leave = pending.leave
        /\ pending'.rewards = pending.rewards /\ pending'.pow = pending.pow
        /\ layer'.users = layer.users \cup {u} /\ layer'.yields = cur.yields + Yield
        /\ layer'.stakers = layer.stakers
        /\ layer'.rewards = layer.rewards /\ layer'.global = layer.global /\ layer'.pow = layer.pow
    BY <1>6, AddUserEffect
  <2>3. layer'.yields = YieldsOf(cur, pending')
    BY <2>1, <2>2, Constants DEF YieldsOf
  <2>4. layer'.users = cur.users \cup pending'.users
    BY <1>0, <2>1, <2>2 DEF Holds
  <2>5. Holds(layer', cur, pending')
    BY <1>0, <2>1, <2>2, <2>3, <2>4 DEF Holds, StakersOf, RewardsOf, PowOf
  <2>6. \A b \in Address : GoodRecord(pending'.rewards[b], now) /\ pending'.join[b] \in -1..now
    BY <1>0, <2>2
  <2> QED
    BY <1>0, <2>1, <2>2, <2>5, <2>6, TransactionKeeps
<1> QED
  BY <1>1, <1>2, <1>3, <1>4, <1>5, <1>6

LEMMA BaseInitially == Init => BaseInv
<1> SUFFICES ASSUME Init PROVE BaseInv
  OBVIOUS
<1>1. TypeOK
  BY BlankTypes, Constants DEF Init, TypeOK
<1>2. RecordsGood
  <2>1. \A a \in Address : Empty.rewards[a] = NoReward /\ Empty.stakers[a] = -1
    BY DEF Empty
  <2>2. 0 \in Nat /\ -1 \in -1..0
    OBVIOUS
  <2>3. cur = Empty /\ pending = NoPending /\ now = 0
    BY DEF Init
  <2> QED
    BY <2>1, <2>2, <2>3, BlankTypes DEF RecordsGood, GoodRecord
<1>3. BlockIsRecent /\ Matching
  BY DEF Init, BlockIsRecent, Matching
<1> QED
  BY <1>1, <1>2, <1>3 DEF BaseInv

LEMMA BaseStep ==
  ASSUME BaseInv, [Next]_vars
  PROVE  BaseInv'
<1>0. /\ cur \in Database /\ disk \in Database /\ layer \in Database /\ pending \in Change
      /\ now \in 0..MaxTime /\ now \in Nat /\ btime \in 0..now /\ total \in 0..MaxTxs /\ executed \in 0..total
      /\ TypeOK /\ RecordsGood /\ BlockIsRecent /\ Matching /\ MaxTime \in Nat /\ MaxTxs \in Nat
  BY Constants DEF BaseInv, TypeOK
<1>1. CASE Load
  <2>1. /\ phase = "new" /\ phase' = "loaded" /\ disk' = [disk EXCEPT !.bal = [a \in Address |-> Alloc]]
        /\ UNCHANGED <<cur, pending, layer, now, btime, executed, total>>
    BY <1>1 DEF Load, memVars
  <2>2. disk' = Allocated
    <3>1. disk = Empty \/ disk = Allocated
      BY <1>0, <2>1 DEF Matching
    <3> QED
      BY <2>1, <3>1 DEF Allocated, Empty
  <2>3. TypeOK'
    BY <1>0, <2>1, <2>2, BlankTypes DEF TypeOK
  <2>4. RecordsGood' /\ BlockIsRecent'
    BY <1>0, <2>1 DEF RecordsGood, BlockIsRecent
  <2>5. Matching'
    BY <1>0, <2>1, <2>2 DEF Matching
  <2> QED
    BY <2>3, <2>4, <2>5 DEF BaseInv
<1>2. CASE PutLastAcceptedKey \/ CrashAtFirstStart
  <2>1. /\ phase \in {"loaded", "keyed"} /\ phase' \in {"keyed", "new", "down"}
        /\ phase' = "keyed" => phase = "loaded"
        /\ UNCHANGED <<cur, pending, layer, disk, now, btime, executed, total>>
    BY <1>2 DEF PutLastAcceptedKey, CrashAtFirstStart, memVars, dbVars
  <2>2. TypeOK'
    BY <1>0, <2>1 DEF TypeOK
  <2>3. RecordsGood' /\ BlockIsRecent'
    BY <1>0, <2>1 DEF RecordsGood, BlockIsRecent
  <2>4. Matching'
    BY <1>0, <2>1 DEF Matching
  <2> QED
    BY <2>2, <2>3, <2>4 DEF BaseInv
<1>3. CASE PutGenesisBlock
  <2>1. /\ phase = "keyed" /\ phase' = "idle" /\ cur' = disk
        /\ UNCHANGED <<pending, layer, disk, now, btime, executed, total>>
    BY <1>3 DEF PutGenesisBlock, dbVars
  <2>2. disk = Allocated /\ pending = NoPending
    BY <1>0, <2>1 DEF Matching
  <2>3. TypeOK'
    BY <1>0, <2>1 DEF TypeOK
  <2>4. RecordsGood'
    <3>1. \A a \in Address : Allocated.rewards[a] = NoReward /\ Allocated.stakers[a] = -1
      BY DEF Allocated, Empty
    <3>2. -1 \in -1..now
      BY <1>0
    <3> QED
      BY <2>1, <2>2, <3>1, <3>2, BlankTypes DEF RecordsGood, GoodRecord
  <2>5. BlockIsRecent'
    BY <2>1 DEF BlockIsRecent
  <2>6. Holds(disk, disk, NoPending) /\ disk.global <= disk.global
    BY <1>0, HoldsNothing DEF Database
  <2>7. Matching'
    BY <1>0, <2>1, <2>2, <2>6 DEF Matching
  <2> QED
    BY <2>3, <2>4, <2>5, <2>7 DEF BaseInv
<1>4. CASE StartBlock
  <2>1. /\ phase = "idle" /\ phase' = "block" /\ executed' = 0 /\ layer' = disk
        /\ btime' \in btime..now /\ now - btime' <= MaxLag
        /\ UNCHANGED <<cur, pending, disk, now, total>>
    BY <1>4 DEF StartBlock, memVars
  <2>2. pending = NoPending /\ Holds(disk, cur, NoPending) /\ cur.global <= disk.global
    BY <1>0, <2>1 DEF Matching
  <2>3. TypeOK'
    BY <1>0, <2>1 DEF TypeOK
  <2>4. RecordsGood' /\ BlockIsRecent'
    BY <1>0, <2>1 DEF RecordsGood, BlockIsRecent
  <2>5. Matching'
    BY <2>1, <2>2 DEF Matching
  <2> QED
    BY <2>3, <2>4, <2>5 DEF BaseInv
<1>5. CASE Accept
  <2>1. /\ phase = "block" /\ phase' = "idle" /\ executed' = 0 /\ disk' = layer
        /\ cur' = Merged /\ pending' = NoPending
        /\ UNCHANGED <<layer, now, btime, total>>
    BY <1>5 DEF Accept
  <2>2. Holds(layer, cur, pending) /\ cur.global <= layer.global
    BY <1>0, <2>1 DEF Matching
  <2>3. /\ Merged \in Database /\ Merged.global = cur.global
        /\ Merged.stakers = StakersOf(cur, pending) /\ Merged.rewards = RewardsOf(cur, pending)
        /\ Merged.pow = PowOf(cur, pending) /\ Merged.yields = YieldsOf(cur, pending)
        /\ Merged.users = cur.users \cup pending.users
    BY <1>0, MergedIs
  <2>4. TypeOK'
    BY <1>0, <2>1, <2>3, BlankTypes DEF TypeOK
  <2> HIDE DEF Merged
  <2>5. RecordsGood'
    <3>1. ASSUME NEW a \in Address
          PROVE  GoodRecord(cur'.rewards[a], now) /\ cur'.stakers[a] \in -1..now
      <4>1. GoodRecord(cur'.rewards[a], now)
        BY <1>0, <2>1, <2>3 DEF RecordsGood, RewardsOf
      <4>2. cur'.stakers[a] \in -1..now
        BY <1>0, <2>1, <2>3 DEF RecordsGood, StakersOf
      <4> QED
        BY <4>1, <4>2
    <3>2. -1 \in -1..now
      BY <1>0
    <3> QED
      BY <2>1, <3>1, <3>2, BlankTypes DEF RecordsGood, GoodRecord
  <2>6. BlockIsRecent'
    BY <2>1 DEF BlockIsRecent
  <2>7. Holds(layer, Merged, NoPending)
    BY <2>2, <2>3, HoldsNothing DEF Holds
  <2>8. Matching'
    BY <2>1, <2>2, <2>3, <2>7 DEF Matching
  <2> QED
    BY <2>4, <2>5, <2>6, <2>8 DEF BaseInv
<1>6. CASE Tick
  <2>1. /\ phase = "idle" /\ now < MaxTime /\ now' = now + 1
        /\ UNCHANGED <<phase, cur, pending, layer, disk, btime, executed, total>>
    BY <1>6 DEF Tick, memVars, dbVars
  <2>2. TypeOK'
    BY <1>0, <2>1 DEF TypeOK
  <2>3. RecordsGood'
    <3>1. ASSUME NEW r \in Reward, GoodRecord(r, now) PROVE GoodRecord(r, now + 1)
      <4>1. r.last \in Int /\ r.acc \in Int
        BY DEF Reward
      <4> QED
        BY <1>0, <3>1, <4>1 DEF GoodRecord
    <3>2. \A a \in Address : cur.rewards[a] \in Reward /\ pending.rewards[a] \in Reward
      BY <1>0 DEF Database, Change
    <3>3. \A a \in Address : GoodRecord(cur.rewards[a], now + 1) /\ GoodRecord(pending.rewards[a], now + 1)
      BY <1>0, <3>1, <3>2 DEF RecordsGood
    <3>4. \A a \in Address : cur.stakers[a] \in -1..(now + 1) /\ pending.join[a] \in -1..(now + 1)
      BY <1>0 DEF RecordsGood
    <3> QED
      BY <2>1, <3>3, <3>4 DEF RecordsGood
  <2>4. BlockIsRecent' /\ Matching'
    BY <1>0, <2>1 DEF BlockIsRecent, Matching
  <2> QED
    BY <2>2, <2>3, <2>4 DEF BaseInv
<1>7. CASE Restart
  <2>1. /\ phase = "idle" /\ cur' = disk /\ pending' = NoPending
        /\ UNCHANGED <<phase, layer, disk, now, btime, executed, total>>
    BY <1>7 DEF Restart, dbVars
  <2>2. Holds(disk, cur, NoPending)
    BY <1>0, <2>1 DEF Matching
  <2>3. disk.rewards = cur.rewards /\ disk.stakers = cur.stakers
    BY <1>0, <2>2, HoldsNothing
  <2>4. TypeOK'
    BY <1>0, <2>1, BlankTypes DEF TypeOK
  <2>5. RecordsGood'
    <3>1. -1 \in -1..now
      BY <1>0
    <3> QED
      BY <1>0, <2>1, <2>3, <3>1, BlankTypes DEF RecordsGood, GoodRecord
  <2>6. BlockIsRecent'
    BY <2>1 DEF BlockIsRecent
  <2>7. Holds(disk, disk, NoPending) /\ disk.global <= disk.global
    BY <1>0, HoldsNothing DEF Database
  <2>8. Matching'
    BY <2>1, <2>7 DEF Matching
  <2> QED
    BY <2>4, <2>5, <2>6, <2>8 DEF BaseInv
<1>8. CASE UNCHANGED vars
  <2>1. UNCHANGED <<phase, cur, pending, layer, disk, now, btime, executed, total>>
    BY <1>8 DEF vars, memVars, dbVars
  <2> QED
    BY <2>1 DEF BaseInv, TypeOK, RecordsGood, BlockIsRecent, Matching
<1> QED
  BY <1>1, <1>2, <1>3, <1>4, <1>5, <1>6, <1>7, <1>8, TransactionsKeepBase DEF Next

-----------------------------------------------------------------------------
(* What the maps count.                                                     *)

WorkInv == worked = PowOf(cur, pending)

\* The yields are counted as long as no second step of a block has started from cur.
YieldsInv ==
    /\ "yields" \notin irregular => collected = YieldsOf(cur, pending)
    /\ pending.users = {} => pending.yields \in {0, cur.yields}

UsersInv ==
    /\ joined \in [User -> {0, 1}]
    /\ \A u \in User : joined[u] = 1 => u \in cur.users \cup pending.users

CountInv == WorkInv /\ YieldsInv /\ UsersInv

LEMMA SettlesCounts ==
  ASSUME BaseInv, CountInv, NEW who, NEW end, Settles(who, end), irregular \subseteq irregular',
         pending.users # {} /\ ~Skipped(end) => "yields" \in irregular',
         UNCHANGED <<worked, joined, collected>>
  PROVE  CountInv'
<1>1. /\ phase = "block" /\ end \in 0..now /\ now - end <= Day /\ cur' = cur
      /\ pending'.yields = PendingSettled(who, end).yields
      /\ pending'.pow = pending.pow /\ pending'.users = pending.users
  BY DEF Settles
<1>2. TypeOK /\ RecordsGood
  BY DEF BaseInv
<1>3. WorkInv'
  BY <1>1 DEF CountInv, WorkInv, PowOf
<1>4. UsersInv'
  BY <1>1 DEF CountInv, UsersInv
<1>5. CASE Skipped(end)
  <2>1. pending'.yields = pending.yields
    BY <1>1, <1>2, <1>5, SettledWrites
  <2> QED
    BY <1>1, <1>3, <1>4, <2>1 DEF CountInv, YieldsInv, YieldsOf
<1>6. CASE ~Skipped(end)
  <2>1. pending'.yields = cur.yields
    BY <1>1, <1>2, <1>6, SettledWrites
  <2>2. "yields" \notin irregular' => pending.users = {} /\ "yields" \notin irregular
    BY <1>6
  <2>3. YieldsInv'
    BY <1>1, <2>1, <2>2 DEF CountInv, YieldsInv, YieldsOf
  <2> QED
    BY <1>3, <1>4, <2>3 DEF CountInv
<1> QED
  BY <1>5, <1>6

LEMMA CountStep ==
  ASSUME BaseInv, CountInv, [Next]_vars
  PROVE  CountInv'
<1>0. /\ cur \in Database /\ disk \in Database /\ layer \in Database /\ pending \in Change
      /\ TypeOK /\ Matching
  BY DEF BaseInv, TypeOK
<1>1. CASE UNCHANGED <<cur, pending, worked, joined, collected, irregular>>
  BY <1>1 DEF CountInv, WorkInv, YieldsInv, UsersInv
<1>2. CASE Load \/ PutLastAcceptedKey \/ CrashAtFirstStart \/ StartBlock \/ Tick \/ UNCHANGED vars
  <2>1. UNCHANGED <<cur, pending, worked, joined, collected, irregular>>
    BY <1>2 DEF Load, PutLastAcceptedKey, CrashAtFirstStart, StartBlock, Tick, vars, memVars, dbVars, history
  <2> QED
    BY <1>1, <2>1
<1>3. ASSUME NEW s \in Address, NEW a \in Address, Transfer(s, a, 1) PROVE CountInv'
  <2>1. UNCHANGED <<cur, pending, worked, joined, collected, irregular>>
    BY <1>3 DEF Transfer, Rest
  <2> QED
    BY <1>1, <2>1
<1>4. ASSUME PutGenesisBlock \/ Restart PROVE CountInv'
  <2>1. /\ cur' = disk /\ pending = NoPending /\ pending' = NoPending
        /\ UNCHANGED <<worked, joined, collected, irregular>>
        /\ disk.pow = cur.pow /\ disk.yields = cur.yields /\ disk.users = cur.users
    <3>1. CASE PutGenesisBlock
      <4>1. disk = Allocated /\ cur = Empty /\ pending = NoPending
        BY <1>0, <3>1 DEF PutGenesisBlock, Matching
      <4>2. Allocated.pow = Empty.pow /\ Allocated.yields = Empty.yields /\ Allocated.users = Empty.users
        BY DEF Allocated, Empty
      <4> QED
        BY <3>1, <4>1, <4>2 DEF PutGenesisBlock, history
    <3>2. CASE Restart
      <4>1. Holds(disk, cur, NoPending) /\ pending = NoPending
        BY <1>0, <3>2 DEF Restart, Matching
      <4> QED
        BY <1>0, <3>2, <4>1, HoldsNothing DEF Restart, history
    <3> QED
      BY <1>4, <3>1, <3>2
  <2> QED
    BY <2>1 DEF CountInv, WorkInv, YieldsInv, UsersInv, PowOf, YieldsOf
<1>5. ASSUME Accept PROVE CountInv'
  <2>1. /\ cur' = Merged /\ pending' = NoPending
        /\ UNCHANGED <<worked, joined, collected, irregular>>
    BY <1>5 DEF Accept, history
  <2>2. /\ cur'.pow = PowOf(cur, pending) /\ cur'.yields = YieldsOf(cur, pending)
        /\ cur'.users = cur.users \cup pending.users /\ cur' \in Database
    BY <1>0, <2>1, MergedIs
  <2>3. PowOf(cur', pending') = cur'.pow
    <3>1. cur'.pow \in [Address -> Nat]
      BY <2>2 DEF Database
    <3> QED
      BY <2>1, <3>1, BlankTypes DEF PowOf
  <2>4. YieldsOf(cur', pending') = cur'.yields /\ pending'.yields = 0 /\ pending'.users = {}
    BY <2>1, BlankTypes DEF YieldsOf
  <2> HIDE DEF Merged
  <2>5. WorkInv'
    BY <2>1, <2>2, <2>3 DEF CountInv, WorkInv
  <2>6. YieldsInv'
    BY <2>1, <2>2, <2>4 DEF CountInv, YieldsInv
  <2>7. UsersInv'
    BY <2>1, <2>2, <2>4 DEF CountInv, UsersInv
  <2> QED
    BY <2>5, <2>6, <2>7 DEF CountInv
<1>6. ASSUME NEW s \in Address, NEW a \in Address, Stake(s, a) PROVE CountInv'
  <2>1. Settles(a, btime)
    BY <1>6, StakeEffect
  <2>2. /\ irregular \subseteq irregular' /\ (pending.users # {} /\ ~Skipped(btime) => "yields" \in irregular')
        /\ UNCHANGED <<worked, joined, collected>>
    BY <1>6 DEF Stake, Noted
  <2> QED
    BY <2>1, <2>2, SettlesCounts
<1>7. ASSUME NEW a \in Address, NEW end \in 0..now, Unstake(a, end) PROVE CountInv'
  <2>1. Settles(a, end)
    BY <1>7, UnstakeEffect
  <2>2. /\ irregular \subseteq irregular' /\ (pending.users # {} /\ ~Skipped(end) => "yields" \in irregular')
        /\ UNCHANGED <<worked, joined, collected>>
    BY <1>7 DEF Unstake, Noted
  <2> QED
    BY <2>1, <2>2, SettlesCounts
<1>8. ASSUME NEW a \in Address, NEW end \in 0..now, Claim(a, end) PROVE CountInv'
  <2>1. Settles(a, end)
    BY <1>8, ClaimEffect
  <2>2. /\ irregular \subseteq irregular' /\ (pending.users # {} /\ ~Skipped(end) => "yields" \in irregular')
        /\ UNCHANGED <<worked, joined, collected>>
    BY <1>8 DEF Claim, Noted
  <2> QED
    BY <2>1, <2>2, SettlesCounts
<1>9. ASSUME NEW a \in Address, Proof(a, 1) PROVE CountInv'
  <2>1. /\ Proved(a, 1) \in Nat \ {0}
        /\ pending'.pow = [pending.pow EXCEPT ![a] = Proved(a, 1)]
        /\ pending'.yields = pending.yields /\ pending'.users = pending.users
    BY <1>9, ProofEffect
  <2>2. /\ cur' = cur /\ UNCHANGED <<joined, collected, irregular>>
        /\ worked' = [worked EXCEPT ![a] = @ + 1]
    BY <1>9 DEF Proof, Rest
  <2>3. WorkInv'
    <3>1. pending.pow \in [Address -> Nat] /\ cur.pow \in [Address -> Nat]
      BY <1>0 DEF Change, Database
    <3>2. worked = PowOf(cur, pending)
      BY DEF CountInv, WorkInv
    <3>3. Proved(a, 1) = PowOf(cur, pending)[a] + 1
      BY DEF Proved, PowOf
    <3> QED
      BY <2>1, <2>2, <3>1, <3>2, <3>3 DEF WorkInv, PowOf
  <2>4. YieldsInv' /\ UsersInv'
    BY <2>1, <2>2 DEF CountInv, YieldsInv, UsersInv, YieldsOf
  <2> QED
    BY <2>3, <2>4 DEF CountInv
<1>10. ASSUME NEW s \in Address, NEW u \in User, AddUser(s, u) PROVE CountInv'
  <2>1. /\ pending'.users = pending.users \cup {u} /\ pending'.yields = cur.yields + Yield
        /\ pending'.pow = pending.pow
    BY <1>10, AddUserEffect
  <2>2. /\ cur' = cur /\ UNCHANGED <<worked>> /\ ~Known(u) /\ phase = "block"
        /\ joined' = [joined EXCEPT ![u] = @ + 1] /\ collected' = collected + Yield
        /\ irregular' = irregular \cup {x \in {"yields"} : pending.users # {}}
    BY <1>10 DEF AddUser, Rest, Executing
  <2>3. WorkInv'
    BY <2>1, <2>2 DEF CountInv, WorkInv, PowOf
  <2>4. YieldsInv'
    <3>1. cur.yields \in Nat /\ Yield \in Nat
      BY <1>0, Constants DEF Database
    <3>2. pending'.users # {}
      BY <2>1
    <3>3. YieldsOf(cur', pending') = cur.yields + Yield
      BY <2>1, <2>2, <3>1 DEF YieldsOf
    <3>4. ASSUME "yields" \notin irregular' PROVE collected' = cur.yields + Yield
      <4>1. pending.users = {} /\ "yields" \notin irregular
        BY <2>2, <3>4
      <4>2. collected = cur.yields
        BY <4>1 DEF CountInv, YieldsInv, YieldsOf
      <4> QED
        BY <2>2, <4>2
    <3> QED
      BY <3>2, <3>3, <3>4 DEF YieldsInv
  <2>5. UsersInv'
    <3>1. layer.users = cur.users \cup pending.users
      BY <1>0, <2>2 DEF Matching, Holds
    <3>2. u \notin cur.users \cup pending.users
      BY <2>2, <3>1 DEF Known
    <3>3. joined \in [User -> {0, 1}] /\ joined[u] = 0
      BY <3>2 DEF CountInv, UsersInv
    <3> QED
      BY <2>1, <2>2, <3>3 DEF CountInv, UsersInv
  <2> QED
    BY <2>3, <2>4, <2>5 DEF CountInv
<1> QED
  BY <1>2, <1>3, <1>4, <1>5, <1>6, <1>7, <1>8, <1>9, <1>10 DEF Next

LEMMA CountInitially == Init => CountInv
<1> SUFFICES ASSUME Init PROVE CountInv
  OBVIOUS
<1>1. /\ cur = Empty /\ pending = NoPending /\ worked = Zero /\ collected = 0
      /\ joined = [u \in User |-> 0]
  BY DEF Init
<1>2. Empty.pow = Zero /\ Empty.yields = 0 /\ NoPending.yields = 0 /\ NoPending.pow = Zero
  BY DEF Empty, NoPending
<1>3. PowOf(Empty, NoPending) = Zero /\ YieldsOf(Empty, NoPending) = 0
  BY <1>2 DEF PowOf, YieldsOf, Zero
<1> QED
  BY <1>1, <1>2, <1>3 DEF CountInv, WorkInv, YieldsInv, UsersInv

\* An accepted block leaves the maps as a restart would read them, and the counters say
\* what the transactions did (state.go:157): for any accounts, users and times.
THEOREM RecordsAreRight == Spec => []RecordsRight
<1>1. Init => BaseInv /\ CountInv
  BY BaseInitially, CountInitially
<1>2. (BaseInv /\ CountInv) /\ [Next]_vars => (BaseInv /\ CountInv)'
  BY BaseStep, CountStep
<1>3. BaseInv /\ CountInv => RecordsRight
  <2> SUFFICES ASSUME BaseInv, CountInv PROVE RecordsRight
    OBVIOUS
  <2>1. TypeOK /\ cur \in Database /\ disk \in Database
    BY DEF BaseInv, TypeOK
  <2>2. UserPaysOnce
    BY DEF CountInv, UsersInv, UserPaysOnce
  <2>3. ASSUME phase = "idle"
        PROVE  /\ pending = NoPending /\ cur.global <= disk.global
               /\ disk.stakers = cur.stakers /\ disk.rewards = cur.rewards /\ disk.pow = cur.pow
               /\ disk.yields = cur.yields /\ disk.users = cur.users
    <3>1. pending = NoPending /\ Holds(disk, cur, NoPending) /\ cur.global <= disk.global
      BY <2>3 DEF BaseInv, Matching
    <3> QED
      BY <2>1, <3>1, HoldsNothing
  <2>4. WorkCounted
    <3>1. ASSUME phase = "idle" PROVE PowOf(cur, pending) = cur.pow
      <4>1. cur.pow \in [Address -> Nat]
        BY <2>1 DEF Database
      <4> QED
        BY <2>3, <3>1, <4>1, BlankTypes DEF PowOf
    <3> QED
      BY <3>1 DEF WorkCounted, CountInv, WorkInv
  <2>5. YieldsCounted
    BY <2>3, BlankTypes DEF YieldsCounted, CountInv, YieldsInv, YieldsOf
  <2>6. CommitMatchesReload
    <3> SUFFICES ASSUME phase = "idle"
                 PROVE  [cur EXCEPT !.bal = disk.bal, !.locked = disk.locked, !.global = disk.global] = disk
      BY <2>3 DEF CommitMatchesReload
    <3> QED
      BY <2>1, <2>3 DEF Database
  <2> QED
    BY <2>1, <2>2, <2>4, <2>5, <2>6 DEF RecordsRight
<1> QED
  BY <1>1, <1>2, <1>3, PTL DEF Spec

-----------------------------------------------------------------------------
(* The tokens.                                                              *)

\* The books of a database with b burnt and p paid out.
Balanced(d, b, p) ==
    SumOver(d.bal) + SumOver(d.locked) + b = Cardinality(Address) * Alloc + SumOver(p)

MoneyInv ==
    /\ paid \in [Address -> Int] /\ burnt \in Int
    /\ phase \notin {"idle", "block"} => burnt = 0 /\ paid = Zero
    /\ phase = "idle" => Balanced(disk, burnt, paid)
    /\ phase = "block" => Balanced(layer, burnt, paid)

\* g is f with x added at a.
Adding(g, f, a, x) ==
    /\ f \in [Address -> Int] /\ g \in [Address -> Int] /\ g[a] = f[a] + x
    /\ \A b \in Address \ {a} : f[b] = g[b]

LEMMA SumOverAdd ==
  ASSUME NEW f, NEW g, NEW a \in Address, NEW x \in Int, Adding(g, f, a, x)
  PROVE  SumOver(g) = SumOver(f) + x /\ SumOver(f) \in Int
<1>1. /\ f \in [Address -> Int] /\ g \in [Address -> Int] /\ g[a] = f[a] + x
      /\ \A b \in Address \ {a} : f[b] = g[b]
  BY DEF Adding
<1>2. f[a] \in Int
  BY <1>1
<1>3. SumOver(g) = SumOver(f) - f[a] + g[a]
  BY <1>1, SumOverChange
<1>4. SumOver(f) \in Int
  BY <1>1, SumOverType
<1>5. SumOver(g) = SumOver(f) - f[a] + (f[a] + x)
  BY <1>1, <1>3
<1> QED
  BY <1>2, <1>4, <1>5

LEMMA AllocationBalanced == Balanced(Allocated, 0, Zero)
<1>1. Allocated.bal = [a \in Address |-> Alloc] /\ Allocated.locked = Zero
  BY DEF Allocated, Empty
<1>2. SumOver(Allocated.locked) = Cardinality(Address) * 0 /\ SumOver(Zero) = Cardinality(Address) * 0
  BY <1>1, SumOverConstant DEF Zero
<1>5. SumOver(Allocated.bal) = Cardinality(Address) * Alloc
  BY <1>1, SumOverConstant, Constants
<1>3. Cardinality(Address) \in Nat
  BY Constants, FS_CardinalityType
<1>4. Cardinality(Address) * 0 = 0 /\ Cardinality(Address) * Alloc \in Int
  BY <1>3, Constants
<1> QED
  BY <1>2, <1>4, <1>5 DEF Balanced

\* A transaction that changes one balance, one locked stake and one payment evenly.
LEMMA BalancedStep ==
  ASSUME NEW d, NEW e, NEW b \in Int, NEW p, Balanced(d, b, p),
         NEW s \in Address, NEW x \in Int, NEW y \in Int, NEW fee \in Int, NEW r \in Int,
         Adding(e.bal, d.bal, s, x), Adding(e.locked, d.locked, s, y),
         NEW q, Adding(q, p, s, r), x + y + fee = r
  PROVE  Balanced(e, b + fee, q)
<1>2. SumOver(e.bal) = SumOver(d.bal) + x /\ SumOver(d.bal) \in Int
  BY SumOverAdd
<1>3. SumOver(e.locked) = SumOver(d.locked) + y /\ SumOver(d.locked) \in Int
  BY SumOverAdd
<1>4. SumOver(q) = SumOver(p) + r /\ SumOver(p) \in Int
  BY SumOverAdd
<1>5. Cardinality(Address) * Alloc \in Int
  <2>1. Cardinality(Address) \in Nat
    BY Constants, FS_CardinalityType
  <2> QED
    BY <2>1, Constants
<1> DEFINE B == SumOver(d.bal)
           L == SumOver(d.locked)
           Q == SumOver(p)
           all == Cardinality(Address) * Alloc
<1>6. B + L + b = all + Q
  BY DEF Balanced
<1>7. B \in Int /\ L \in Int /\ Q \in Int /\ all \in Int
  BY <1>2, <1>3, <1>4, <1>5
<1>8. SumOver(e.bal) = B + x /\ SumOver(e.locked) = L + y /\ SumOver(q) = Q + r
  BY <1>2, <1>3, <1>4
<1> HIDE DEF B, L, Q, all
<1>9. (B + x) + (L + y) + (b + fee) = all + (Q + r)
  BY <1>6, <1>7
<1> QED
  BY <1>8, <1>9 DEF Balanced, all

LEMMA MoneyStep ==
  ASSUME BaseInv, MoneyInv, [Next]_vars
  PROVE  MoneyInv'
<1>0. /\ cur \in Database /\ disk \in Database /\ layer \in Database /\ Matching
      /\ paid \in [Address -> Int] /\ burnt \in Int
      /\ TxFee \in Int /\ StakeAmount \in Int /\ UserFee \in Int
  BY Constants DEF BaseInv, TypeOK, MoneyInv
<1>1. CASE Load \/ PutLastAcceptedKey \/ CrashAtFirstStart
  <2>1. /\ UNCHANGED <<paid, burnt>> /\ phase \notin {"idle", "block"} /\ phase' \notin {"idle", "block"}
    BY <1>1 DEF Load, PutLastAcceptedKey, CrashAtFirstStart, history
  <2> QED
    BY <2>1 DEF MoneyInv
<1>2. CASE PutGenesisBlock
  <2>1. /\ UNCHANGED <<paid, burnt, disk>> /\ phase = "keyed" /\ phase' = "idle"
    BY <1>2 DEF PutGenesisBlock, history, dbVars
  <2>2. disk = Allocated /\ paid = Zero /\ burnt = 0
    BY <1>0, <2>1 DEF Matching, MoneyInv
  <2> QED
    BY <1>0, <2>1, <2>2, AllocationBalanced DEF MoneyInv
<1>3. CASE StartBlock
  <2>1. /\ UNCHANGED <<paid, burnt>> /\ phase = "idle" /\ phase' = "block" /\ layer' = disk
    BY <1>3 DEF StartBlock
  <2> QED
    BY <1>0, <2>1 DEF MoneyInv
<1>4. CASE Accept
  <2>1. /\ UNCHANGED <<paid, burnt>> /\ phase = "block" /\ phase' = "idle" /\ disk' = layer
    BY <1>4 DEF Accept, history
  <2> QED
    BY <1>0, <2>1 DEF MoneyInv
<1>5. CASE Tick \/ Restart \/ UNCHANGED vars
  <2>1. UNCHANGED <<paid, burnt, phase, layer, disk>>
    BY <1>5 DEF Tick, Restart, vars, history, dbVars
  <2> QED
    BY <2>1 DEF MoneyInv
<1>6. ASSUME phase = "block", phase' = phase, paid' \in [Address -> Int], burnt' \in Int,
             Balanced(layer', burnt', paid')
      PROVE  MoneyInv'
  BY <1>6 DEF MoneyInv
<1>7. ASSUME phase = "block" PROVE Balanced(layer, burnt, paid)
  BY <1>7 DEF MoneyInv
<1>8. \A a \in Address : layer.bal[a] \in Int /\ layer.locked[a] \in Int /\ paid[a] \in Int
  BY <1>0 DEF Database
<1>9. ASSUME NEW s \in Address, NEW to \in Address, Transfer(s, to, 1) PROVE MoneyInv'
  <2>1. /\ phase = "block" /\ phase' = phase /\ burnt' = burnt + TxFee /\ paid' = paid
    BY <1>9 DEF Transfer, Executing, Rest
  <2>2. /\ layer' \in Database /\ s # to /\ layer'.locked = layer.locked
        /\ layer'.bal = [layer.bal EXCEPT ![s] = @ - TxFee - 1, ![to] = @ + 1]
    BY <1>9, TransferEffect
  <2> DEFINE x == 0 - TxFee - 1
             f == [layer.bal EXCEPT ![s] = layer.bal[s] - TxFee - 1]
  <2>3. x \in Int /\ layer.bal \in [Address -> Int] /\ layer.bal[s] - TxFee - 1 = layer.bal[s] + x
    BY <1>0, <1>8 DEF Database
  <2>4. Adding(f, layer.bal, s, x)
    BY <1>0, <2>3 DEF Adding
  <2>5. Adding(layer'.bal, f, to, 1)
    BY <1>0, <1>8, <2>2, <2>3 DEF Adding
  <2> HIDE DEF f
  <2>6. SumOver(f) = SumOver(layer.bal) + x /\ SumOver(layer.bal) \in Int
    <3> HIDE DEF x
    <3> QED
      BY <2>3, <2>4, SumOverAdd
  <2>7. SumOver(layer'.bal) = SumOver(f) + 1
    BY <2>5, SumOverAdd
  <2>8. SumOver(layer.locked) \in Int
    <3>1. layer.locked \in [Address -> Int]
      BY <1>0 DEF Database
    <3> QED
      BY <3>1, SumOverType
  <2>9. SumOver(layer'.bal) = SumOver(layer.bal) - TxFee
    BY <1>0, <2>6, <2>7
  <2>10. Balanced(layer', burnt', paid')
    <3>1. SumOver(layer.bal) + SumOver(layer.locked) + burnt = Cardinality(Address) * Alloc + SumOver(paid)
      BY <1>7, <2>1 DEF Balanced
    <3>2. SumOver(layer'.bal) + SumOver(layer'.locked) + burnt' = SumOver(layer.bal) + SumOver(layer.locked) + burnt
      BY <1>0, <2>1, <2>2, <2>6, <2>8, <2>9
    <3> QED
      BY <2>1, <3>1, <3>2 DEF Balanced
  <2> QED
    BY <1>0, <1>6, <2>1, <2>10
<1>10. ASSUME NEW s \in Address, NEW a \in Address, Stake(s, a) PROVE MoneyInv'
  <2>1. /\ phase = "block" /\ phase' = phase /\ burnt' = burnt + TxFee /\ paid' = paid
    BY <1>10 DEF Stake, Executing, Rest
  <2>2. /\ layer'.bal = [layer.bal EXCEPT ![s] = @ - TxFee - StakeAmount]
        /\ layer'.locked = [layer.locked EXCEPT ![s] = @ + StakeAmount]
    BY <1>10, StakeEffect
  <2> DEFINE x == 0 - TxFee - StakeAmount
  <2>3. x \in Int /\ x + StakeAmount + TxFee = 0 /\ layer.bal[s] - TxFee - StakeAmount = layer.bal[s] + x
    BY <1>0, <1>8
  <2>4. Adding(paid', paid, s, 0)
    BY <1>0, <1>8, <2>1 DEF Adding
  <2>5. layer.bal \in [Address -> Int] /\ layer.locked \in [Address -> Int]
    BY <1>0 DEF Database
  <2> HIDE DEF x
  <2>6. Adding(layer'.bal, layer.bal, s, x)
    BY <1>8, <2>2, <2>3, <2>5 DEF Adding
  <2>7. Adding(layer'.locked, layer.locked, s, StakeAmount)
    BY <1>0, <1>8, <2>2, <2>5 DEF Adding
  <2>8. Balanced(layer', burnt + TxFee, paid')
    <3> DEFINE r == 0
    <3>1. Balanced(layer, burnt, paid) /\ x \in Int /\ r \in Int /\ x + StakeAmount + TxFee = r
      BY <1>7, <2>1, <2>3
    <3>2. burnt \in Int /\ TxFee \in Int /\ StakeAmount \in Int
      BY <1>0
    <3>3. Adding(paid', paid, s, r)
      BY <2>4
    <3> HIDE DEF r
    <3> QED
      BY <2>6, <2>7, <3>1, <3>2, <3>3, BalancedStep
  <2> QED
    BY <1>0, <1>6, <2>1, <2>8
<1>11. ASSUME NEW a \in Address, NEW end \in 0..now, Unstake(a, end) PROVE MoneyInv'
  <2> DEFINE R == StakerReword(a, end)
  <2>1. /\ phase = "block" /\ phase' = phase /\ burnt' = burnt + TxFee
        /\ paid' = [paid EXCEPT ![a] = paid[a] + R]
    BY <1>11 DEF Unstake, Executing, Rest
  <2>2. /\ layer'.bal = [layer.bal EXCEPT ![a] = @ - TxFee + StakeAmount + R]
        /\ layer'.locked = [layer.locked EXCEPT ![a] = @ - StakeAmount]
        /\ R \in Int
    BY <1>11, UnstakeEffect
  <2> HIDE DEF R
  <2> DEFINE x == 0 - TxFee + StakeAmount + R
             y == 0 - StakeAmount
  <2>3. /\ x \in Int /\ y \in Int /\ x + y + TxFee = R
        /\ layer.bal[a] - TxFee + StakeAmount + R = layer.bal[a] + x
        /\ layer.locked[a] - StakeAmount = layer.locked[a] + y
        /\ paid[a] + R \in Int
    BY <1>0, <1>8, <2>2
  <2>4. layer.bal \in [Address -> Int] /\ layer.locked \in [Address -> Int]
    BY <1>0 DEF Database
  <2> HIDE DEF x, y
  <2>5. Adding(layer'.bal, layer.bal, a, x)
    BY <1>8, <2>2, <2>3, <2>4 DEF Adding
  <2>6. Adding(layer'.locked, layer.locked, a, y)
    BY <1>8, <2>2, <2>3, <2>4 DEF Adding
  <2>7. Adding(paid', paid, a, R) /\ paid' \in [Address -> Int]
    BY <1>0, <2>1, <2>3 DEF Adding
  <2>8. Balanced(layer', burnt + TxFee, paid')
    <3>1. Balanced(layer, burnt, paid) /\ burnt \in Int /\ TxFee \in Int /\ R \in Int
      BY <1>0, <1>7, <2>1, <2>2
    <3> QED
      BY <2>3, <2>5, <2>6, <2>7, <3>1, BalancedStep
  <2> QED
    BY <1>0, <1>6, <2>1, <2>7, <2>8
<1>12. ASSUME NEW a \in Address, NEW end \in 0..now, Claim(a, end) PROVE MoneyInv'
  <2> DEFINE R == StakerReword(a, end)
  <2>1. /\ phase = "block" /\ phase' = phase /\ burnt' = burnt + TxFee
        /\ paid' = [paid EXCEPT ![a] = paid[a] + R]
    BY <1>12 DEF Claim, Executing, Rest
  <2>2. /\ layer'.bal = [layer.bal EXCEPT ![a] = @ - TxFee + R]
        /\ layer'.locked = layer.locked
        /\ R \in Int
    BY <1>12, ClaimEffect
  <2> HIDE DEF R
  <2> DEFINE x == 0 - TxFee + R
  <2>3. /\ x \in Int /\ x + 0 + TxFee = R
        /\ layer.bal[a] - TxFee + R = layer.bal[a] + x
        /\ layer.locked[a] + 0 = layer.locked[a]
        /\ paid[a] + R \in Int
    BY <1>0, <1>8, <2>2
  <2>4. layer.bal \in [Address -> Int] /\ layer.locked \in [Address -> Int]
    BY <1>0 DEF Database
  <2> HIDE DEF x
  <2>5. Adding(layer'.bal, layer.bal, a, x)
    BY <1>8, <2>2, <2>3, <2>4 DEF Adding
  <2>6. Adding(layer'.locked, layer.locked, a, 0)
    BY <1>8, <2>2, <2>3, <2>4 DEF Adding
  <2>7. Adding(paid', paid, a, R) /\ paid' \in [Address -> Int]
    BY <1>0, <2>1, <2>3 DEF Adding
  <2>8. Balanced(layer', burnt + TxFee, paid')
    <3> DEFINE y == 0
    <3>1. Balanced(layer, burnt, paid) /\ x \in Int /\ R \in Int /\ y \in Int /\ x + y + TxFee = R
      BY <1>7, <2>1, <2>2, <2>3
    <3>2. burnt \in Int /\ TxFee \in Int
      BY <1>0
    <3>3. Adding(layer'.locked, layer.locked, a, y)
      BY <2>6
    <3> HIDE DEF y
    <3> QED
      BY <2>5, <2>7, <3>1, <3>2, <3>3, BalancedStep
  <2> QED
    BY <1>0, <1>6, <2>1, <2>7, <2>8
<1>13. ASSUME NEW a \in Address, Proof(a, 1) PROVE MoneyInv'
  <2>1. /\ phase = "block" /\ phase' = phase /\ burnt' = burnt /\ paid' = paid
    BY <1>13 DEF Proof, Executing, Rest
  <2>2. layer'.bal = layer.bal /\ layer'.locked = layer.locked
    BY <1>13, ProofEffect
  <2>3. Balanced(layer', burnt', paid')
    BY <1>7, <2>1, <2>2 DEF Balanced
  <2> QED
    BY <1>0, <1>6, <2>1, <2>3
<1>14. ASSUME NEW s \in Address, NEW u \in User, AddUser(s, u) PROVE MoneyInv'
  <2>1. /\ phase = "block" /\ phase' = phase /\ burnt' = burnt + TxFee + UserFee /\ paid' = paid
    BY <1>14 DEF AddUser, Executing, Rest
  <2>2. /\ layer'.bal = [layer.bal EXCEPT ![s] = @ - TxFee - UserFee] /\ layer'.locked = layer.locked
    BY <1>14, AddUserEffect
  <2> DEFINE x == 0 - TxFee - UserFee
             fee == TxFee + UserFee
  <2>3. /\ x \in Int /\ fee \in Int /\ x + 0 + fee = 0 /\ layer.bal[s] - TxFee - UserFee = layer.bal[s] + x
        /\ burnt + TxFee + UserFee = burnt + fee
        /\ layer.locked[s] + 0 = layer.locked[s] /\ burnt + fee \in Int
    BY <1>0, <1>8
  <2>4. layer.bal \in [Address -> Int] /\ layer.locked \in [Address -> Int]
    BY <1>0 DEF Database
  <2> HIDE DEF x, fee
  <2>5. Adding(layer'.bal, layer.bal, s, x)
    BY <1>8, <2>2, <2>3, <2>4 DEF Adding
  <2>6. Adding(layer'.locked, layer.locked, s, 0)
    BY <1>8, <2>2, <2>3, <2>4 DEF Adding
  <2>7. Adding(paid', paid, s, 0)
    BY <1>0, <1>8, <2>1 DEF Adding
  <2>8. Balanced(layer', burnt + fee, paid')
    <3> DEFINE r == 0
    <3>1. Balanced(layer, burnt, paid) /\ x \in Int /\ fee \in Int /\ r \in Int /\ x + r + fee = r
      BY <1>7, <2>1, <2>3
    <3>2. burnt \in Int
      BY <1>0
    <3>3. Adding(layer'.locked, layer.locked, s, r) /\ Adding(paid', paid, s, r)
      BY <2>6, <2>7
    <3> HIDE DEF r
    <3> QED
      BY <2>5, <3>1, <3>2, <3>3, BalancedStep
  <2> QED
    BY <1>0, <1>6, <2>1, <2>3, <2>8
<1> QED
  BY <1>1, <1>2, <1>3, <1>4, <1>5, <1>9, <1>10, <1>11, <1>12, <1>13, <1>14 DEF Next

\* No token is made or lost, whatever the number of accounts, over crashes in the first
\* start, years, claims and releases (genesis.go:165, storage.go:350, tx.go:104).
THEOREM TokensAreConserved == Spec => []Conservation
<1>1. Init => BaseInv /\ MoneyInv
  <2> SUFFICES ASSUME Init PROVE MoneyInv
    BY BaseInitially
  <2> QED
    BY DEF Init, MoneyInv, Zero
<1>2. (BaseInv /\ MoneyInv) /\ [Next]_vars => (BaseInv /\ MoneyInv)'
  BY BaseStep, MoneyStep
<1>3. BaseInv /\ MoneyInv => Conservation
  <2> SUFFICES ASSUME BaseInv, MoneyInv PROVE Conservation
    OBVIOUS
  <2>1. CASE phase = "keyed"
    <3>1. disk = Allocated /\ paid = Zero /\ burnt = 0
      BY <2>1 DEF BaseInv, Matching, MoneyInv
    <3> QED
      BY <2>1, <3>1, AllocationBalanced DEF Conservation, Balanced
  <2>2. CASE phase = "idle"
    BY <2>2 DEF MoneyInv, Conservation, Balanced
  <2>3. CASE phase = "block"
    BY <2>3 DEF MoneyInv, Conservation, Balanced
  <2>4. CASE phase \notin {"keyed", "idle", "block"}
    BY <2>4 DEF Conservation
  <2> QED
    BY <2>1, <2>2, <2>3, <2>4
<1> QED
  BY <1>1, <1>2, <1>3, PTL DEF Spec

-----------------------------------------------------------------------------
(* The stakes.                                                              *)

Active(d) == {a \in Address : d.stakers[a] >= 0}

Backed(d) == Cardinality(Active(d)) * StakeAmount <= SumOver(d.locked)

BackedInv == "released" \notin irregular => Backed(disk) /\ Backed(layer)

LEMMA BlankBacked == Backed(Empty) /\ Backed(Allocated)
<1>1. Active(Empty) = {} /\ Active(Allocated) = {} /\ Empty.locked = Zero /\ Allocated.locked = Zero
  BY DEF Active, Empty, Allocated
<1>2. SumOver(Zero) = Cardinality(Address) * 0
  BY SumOverConstant DEF Zero
<1>3. Cardinality(Address) \in Nat /\ Cardinality({}) = 0
  BY Constants, FS_CardinalityType, FS_EmptySet
<1>4. SumOver(Zero) = 0
  BY <1>2, <1>3
<1>5. 0 * StakeAmount = 0
  BY Constants
<1>6. Cardinality({}) * StakeAmount <= SumOver(Zero)
  BY <1>3, <1>4, <1>5
<1> QED
  BY <1>1, <1>6 DEF Backed

LEMMA BackedStep ==
  ASSUME BaseInv, BackedInv, [Next]_vars
  PROVE  BackedInv'
<1>0. /\ cur \in Database /\ disk \in Database /\ layer \in Database /\ pending \in Change
      /\ Matching /\ RecordsGood /\ now \in Nat /\ btime \in Nat /\ StakeAmount \in Nat
  BY Constants DEF BaseInv, TypeOK
<1>1. CASE Load \/ PutLastAcceptedKey \/ CrashAtFirstStart
  <2>1. /\ UNCHANGED <<layer, irregular>> /\ layer = Empty /\ disk' \in {Empty, Allocated}
    <3>1. phase \notin {"idle", "block"} /\ phase' \notin {"idle", "block"} /\ UNCHANGED <<layer, irregular>>
      BY <1>1 DEF Load, PutLastAcceptedKey, CrashAtFirstStart, dbVars, history
    <3>2. BaseInv'
      BY BaseStep
    <3> QED
      BY <1>0, <3>1, <3>2 DEF BaseInv, Matching
  <2> QED
    BY <2>1, BlankBacked DEF BackedInv
<1>2. CASE PutGenesisBlock \/ Tick \/ Restart \/ UNCHANGED vars
  <2>1. UNCHANGED <<layer, disk, irregular>>
    BY <1>2 DEF PutGenesisBlock, Tick, Restart, vars, dbVars, history
  <2> QED
    BY <2>1 DEF BackedInv
<1>3. CASE StartBlock \/ Accept
  <2>1. /\ irregular' = irregular /\ layer' \in {layer, disk} /\ disk' \in {layer, disk}
    BY <1>3 DEF StartBlock, Accept, history
  <2> QED
    BY <2>1 DEF BackedInv
<1>4. ASSUME disk' = disk, layer'.stakers = layer.stakers, layer'.locked = layer.locked,
             irregular \subseteq irregular'
      PROVE  BackedInv'
  BY <1>4 DEF BackedInv, Backed, Active
<1>5. ASSUME NEW s \in Address, NEW a \in Address, Transfer(s, a, 1) PROVE BackedInv'
  <2>1. disk' = disk /\ irregular' = irregular
    BY <1>5 DEF Transfer, Rest
  <2>2. layer'.stakers = layer.stakers /\ layer'.locked = layer.locked
    BY <1>5, TransferEffect
  <2> QED
    BY <1>4, <2>1, <2>2
<1>6. ASSUME NEW a \in Address, Proof(a, 1) PROVE BackedInv'
  <2>1. disk' = disk /\ irregular' = irregular
    BY <1>6 DEF Proof, Rest
  <2>2. layer'.stakers = layer.stakers /\ layer'.locked = layer.locked
    BY <1>6, ProofEffect
  <2> QED
    BY <1>4, <2>1, <2>2
<1>7. ASSUME NEW s \in Address, NEW u \in User, AddUser(s, u) PROVE BackedInv'
  <2>1. disk' = disk /\ irregular \subseteq irregular'
    BY <1>7 DEF AddUser, Rest
  <2>2. layer'.stakers = layer.stakers /\ layer'.locked = layer.locked
    BY <1>7, AddUserEffect
  <2> QED
    BY <1>4, <2>1, <2>2
<1>8. ASSUME NEW a \in Address, NEW end \in 0..now, Claim(a, end) PROVE BackedInv'
  <2>1. disk' = disk /\ irregular \subseteq irregular'
    BY <1>8 DEF Claim, Rest, Noted
  <2>2. layer'.stakers = layer.stakers /\ layer'.locked = layer.locked
    BY <1>8, ClaimEffect
  <2> QED
    BY <1>4, <2>1, <2>2
<1>9. /\ IsFiniteSet(Active(layer)) /\ Cardinality(Active(layer)) \in Nat
      /\ layer.stakers \in [Address -> Int] /\ layer.locked \in [Address -> Int]
      /\ SumOver(layer.locked) \in Int
  <2>1. IsFiniteSet(Active(layer))
    BY Constants, FS_Subset DEF Active
  <2>2. layer.stakers \in [Address -> Int] /\ layer.locked \in [Address -> Int]
    BY <1>0 DEF Database
  <2> QED
    BY <2>1, <2>2, FS_CardinalityType, SumOverType
<1> DEFINE n == Cardinality(Active(layer))
<1>10. ASSUME NEW s \in Address, NEW a \in Address, Stake(s, a) PROVE BackedInv'
  <2>1. disk' = disk /\ irregular \subseteq irregular'
    BY <1>10 DEF Stake, Rest, Noted
  <2>2. /\ layer'.stakers = [layer.stakers EXCEPT ![a] = btime]
        /\ layer'.locked = [layer.locked EXCEPT ![s] = @ + StakeAmount]
    BY <1>10, StakeEffect
  <2>3. Active(layer') = Active(layer) \cup {a}
    BY <1>0, <1>9, <2>2 DEF Active
  <2>4. Cardinality(Active(layer')) = n \/ Cardinality(Active(layer')) = n + 1
    <3>1. CASE a \in Active(layer)
      <4>1. Active(layer') = Active(layer)
        BY <2>3, <3>1
      <4> QED
        BY <4>1
    <3>2. CASE a \notin Active(layer)
      BY <1>9, <2>3, <3>2, FS_AddElement
    <3> QED
      BY <3>1, <3>2
  <2>5. Adding(layer'.locked, layer.locked, s, StakeAmount)
    BY <1>0, <1>9, <2>2 DEF Adding
  <2>6. SumOver(layer'.locked) = SumOver(layer.locked) + StakeAmount
    BY <1>0, <2>5, SumOverAdd
  <2>7. Backed(layer) => Backed(layer')
    <3>1. n \in Nat /\ n * StakeAmount \in Int /\ (n + 1) * StakeAmount = n * StakeAmount + StakeAmount
      BY <1>0, <1>9
    <3> HIDE DEF n
    <3>2. Backed(layer) => n * StakeAmount <= SumOver(layer.locked)
      BY DEF Backed, n
    <3> QED
      BY <1>0, <1>9, <2>4, <2>6, <3>1, <3>2 DEF Backed
  <2> QED
    BY <2>1, <2>7 DEF BackedInv
<1>11. ASSUME NEW a \in Address, NEW end \in 0..now, Unstake(a, end) PROVE BackedInv'
  <2>1. /\ disk' = disk /\ irregular \subseteq irregular' /\ phase = "block"
        /\ a \in pending.leave => "released" \in irregular'
    BY <1>11 DEF Unstake, Rest, Noted, Executing
  <2>2. /\ layer'.stakers = [layer.stakers EXCEPT ![a] = -1] /\ a \in Stakers
        /\ layer'.locked = [layer.locked EXCEPT ![a] = @ - StakeAmount]
    BY <1>11, UnstakeEffect
  <2> SUFFICES ASSUME "released" \notin irregular' PROVE Backed(disk) /\ Backed(layer')
    BY <2>1 DEF BackedInv
  <2>3. a \notin pending.leave /\ Backed(disk) /\ Backed(layer)
    BY <2>1 DEF BackedInv
  <2>4. a \in Active(layer)
    <3>1. layer.stakers = StakersOf(cur, pending)
      BY <1>0, <2>1 DEF Matching, Holds
    <3>2. cur.stakers[a] >= 0 /\ pending.join[a] \in -1..now
      BY <1>0, <2>2 DEF Stakers, RecordsGood
    <3> QED
      BY <2>3, <3>1, <3>2 DEF Active, StakersOf
  <2>5. Active(layer') = Active(layer) \ {a}
    BY <1>9, <2>2 DEF Active
  <2>6. Cardinality(Active(layer')) = n - 1
    BY <1>9, <2>4, <2>5, FS_RemoveElement
  <2> DEFINE y == 0 - StakeAmount
  <2>7. y \in Int /\ Adding(layer'.locked, layer.locked, a, y)
    BY <1>0, <1>9, <2>2 DEF Adding
  <2> HIDE DEF y
  <2>8. SumOver(layer'.locked) = SumOver(layer.locked) + y
    BY <2>7, SumOverAdd
  <2>9. n \in Nat /\ n * StakeAmount \in Int /\ (n - 1) * StakeAmount = n * StakeAmount - StakeAmount
    BY <1>0, <1>9
  <2> HIDE DEF n
  <2>10. n * StakeAmount <= SumOver(layer.locked)
    BY <2>3 DEF Backed, n
  <2>11. Backed(layer')
    BY <1>0, <1>9, <2>6, <2>8, <2>9, <2>10 DEF Backed, y
  <2> QED
    BY <2>3, <2>11
<1> QED
  BY <1>1, <1>2, <1>3, <1>5, <1>6, <1>7, <1>8, <1>10, <1>11 DEF Next

\* The locked stakes cover the stakers, whoever locked them and whatever a block holds,
\* unless a stake was released twice in one block (stake_tx.go:47, unstake_tx.go:55).
THEOREM StakersAreBacked == Spec => []StakesBacked
<1>1. Init => BaseInv /\ BackedInv
  <2> SUFFICES ASSUME Init PROVE BackedInv
    BY BaseInitially
  <2> QED
    BY BlankBacked DEF Init, BackedInv
<1>2. (BaseInv /\ BackedInv) /\ [Next]_vars => (BaseInv /\ BackedInv)'
  BY BaseStep, BackedStep
<1>3. BackedInv => StakesBacked
  BY DEF BackedInv, StakesBacked, Backed, Active
<1> QED
  BY <1>1, <1>2, <1>3, PTL DEF Spec

-----------------------------------------------------------------------------
(* The rewards.                                                             *)

\* The record and the stake time of a in the maps with what is pending.
RecordOf(a) == RewardsOf(cur, pending)[a]
StakeOf(a) == StakersOf(cur, pending)[a]

\* A block that has not settled anything has no records and no stakers pending.
OnceInv ==
    /\ settled \in Nat
    /\ phase = "block" /\ settled = 0 =>
          /\ pending.leave = {}
          /\ \A a \in Address : pending.rewards[a] = NoReward /\ pending.join[a] = -1

\* What a step without a settlement does to the stakes and the records: nothing.
Quiet ==
    /\ RewardsOf(cur, pending)' = RewardsOf(cur, pending)
    /\ StakersOf(cur, pending)' = StakersOf(cur, pending)
    /\ UNCHANGED <<paid, since, claimed>> /\ now' >= now
    /\ irregular \subseteq irregular' /\ irregular' \subseteq irregular \cup {"yields"}

LEMMA QuietSteps ==
  ASSUME BaseInv, OnceInv,
         \/ Load \/ PutLastAcceptedKey \/ PutGenesisBlock \/ CrashAtFirstStart
         \/ StartBlock \/ Accept \/ Tick \/ Restart \/ UNCHANGED vars
         \/ \E s, a \in Address : Transfer(s, a, 1)
         \/ \E a \in Address : Proof(a, 1)
         \/ \E s \in Address, u \in User : AddUser(s, u)
  PROVE  Quiet /\ OnceInv'
<1>0. /\ cur \in Database /\ disk \in Database /\ layer \in Database /\ pending \in Change
      /\ TypeOK /\ Matching /\ now \in Nat
  BY DEF BaseInv, TypeOK
<1>1. ASSUME UNCHANGED <<cur, pending, paid, since, claimed, irregular, settled>>, now' >= now,
             phase' = "block" => phase = "block"
      PROVE  Quiet /\ OnceInv'
  <2>1. Quiet
    BY <1>1 DEF Quiet, RewardsOf, StakersOf
  <2>2. OnceInv'
    BY <1>1 DEF OnceInv
  <2> QED
    BY <2>1, <2>2
<1>2. CASE Load \/ PutLastAcceptedKey \/ CrashAtFirstStart \/ Tick \/ UNCHANGED vars
  <2>1. UNCHANGED <<cur, pending, paid, since, claimed, irregular, settled>>
    BY <1>2 DEF Load, PutLastAcceptedKey, CrashAtFirstStart, Tick, vars, memVars, dbVars, history
  <2>2. now' >= now /\ (phase' = "block" => phase = "block")
    <3>1. CASE Load \/ PutLastAcceptedKey \/ CrashAtFirstStart
      BY <1>0, <3>1 DEF Load, PutLastAcceptedKey, CrashAtFirstStart
    <3>2. CASE Tick
      BY <1>0, <3>2 DEF Tick
    <3>3. CASE UNCHANGED vars
      BY <1>0, <3>3 DEF vars
    <3> QED
      BY <1>2, <3>1, <3>2, <3>3
  <2> QED
    BY <1>1, <2>1, <2>2
<1>3. ASSUME NEW s \in Address, NEW a \in Address, Transfer(s, a, 1) PROVE Quiet /\ OnceInv'
  <2>1. UNCHANGED <<cur, pending, paid, since, claimed, irregular, settled, now, phase>>
    BY <1>3 DEF Transfer, Rest
  <2> QED
    BY <1>0, <1>1, <2>1
<1>4. ASSUME PutGenesisBlock \/ Restart PROVE Quiet /\ OnceInv'
  <2>1. /\ cur' = disk /\ pending = NoPending /\ pending' = NoPending
        /\ UNCHANGED <<paid, since, claimed, irregular, settled, now>> /\ phase' = "idle"
        /\ disk.rewards = cur.rewards /\ disk.stakers = cur.stakers
    <3>1. CASE PutGenesisBlock
      <4>1. disk = Allocated /\ cur = Empty /\ pending = NoPending
        BY <1>0, <3>1 DEF PutGenesisBlock, Matching
      <4>2. Allocated.rewards = Empty.rewards /\ Allocated.stakers = Empty.stakers
        BY DEF Allocated, Empty
      <4> QED
        BY <3>1, <4>1, <4>2 DEF PutGenesisBlock, history
    <3>2. CASE Restart
      <4>1. Holds(disk, cur, NoPending) /\ pending = NoPending
        BY <1>0, <3>2 DEF Restart, Matching
      <4> QED
        BY <1>0, <3>2, <4>1, HoldsNothing DEF Restart, history
    <3> QED
      BY <1>4, <3>1, <3>2
  <2>2. Quiet
    BY <1>0, <2>1 DEF Quiet, RewardsOf, StakersOf
  <2>3. OnceInv'
    BY <2>1 DEF OnceInv
  <2> QED
    BY <2>2, <2>3
<1>5. ASSUME Accept PROVE Quiet /\ OnceInv'
  <2>1. /\ cur' = Merged /\ pending' = NoPending /\ phase' = "idle"
        /\ UNCHANGED <<paid, since, claimed, irregular, settled, now>>
    BY <1>5 DEF Accept, history
  <2>2. /\ Merged.rewards = RewardsOf(cur, pending) /\ Merged.stakers = StakersOf(cur, pending)
        /\ Merged \in Database
    BY <1>0, MergedIs
  <2>3. RewardsOf(Merged, NoPending) = Merged.rewards /\ StakersOf(Merged, NoPending) = Merged.stakers
    <3>1. Merged.rewards \in [Address -> Reward] /\ Merged.stakers \in [Address -> Int]
      BY <2>2 DEF Database
    <3> HIDE DEF Merged
    <3> QED
      BY <3>1, BlankTypes DEF RewardsOf, StakersOf
  <2> HIDE DEF Merged
  <2>4. RewardsOf(cur, pending)' = RewardsOf(cur', pending') /\ StakersOf(cur, pending)' = StakersOf(cur', pending')
    BY DEF RewardsOf, StakersOf
  <2>5. Quiet
    BY <1>0, <2>1, <2>2, <2>3, <2>4 DEF Quiet
  <2>6. OnceInv'
    BY <2>1 DEF OnceInv
  <2> QED
    BY <2>5, <2>6
<1>6. ASSUME StartBlock PROVE Quiet /\ OnceInv'
  <2>1. /\ UNCHANGED <<cur, pending, paid, since, claimed, irregular, now>>
        /\ phase = "idle" /\ settled' = 0
    BY <1>6 DEF StartBlock, memVars
  <2>2. pending = NoPending
    BY <1>0, <2>1 DEF Matching
  <2>3. Quiet
    BY <1>0, <2>1 DEF Quiet, RewardsOf, StakersOf
  <2>4. OnceInv'
    BY <2>1, <2>2, BlankTypes DEF OnceInv
  <2> QED
    BY <2>3, <2>4
<1>7. ASSUME NEW a \in Address, Proof(a, 1) PROVE Quiet /\ OnceInv'
  <2>1. UNCHANGED <<cur, paid, since, claimed, irregular, settled, now, phase>>
    BY <1>7 DEF Proof, Rest
  <2>2. pending'.join = pending.join /\ pending'.leave = pending.leave /\ pending'.rewards = pending.rewards
    BY <1>7, ProofEffect
  <2>3. Quiet
    BY <1>0, <2>1, <2>2 DEF Quiet, RewardsOf, StakersOf
  <2>4. OnceInv'
    BY <2>1, <2>2 DEF OnceInv
  <2> QED
    BY <2>3, <2>4
<1>8. ASSUME NEW s \in Address, NEW u \in User, AddUser(s, u) PROVE Quiet /\ OnceInv'
  <2>1. /\ UNCHANGED <<cur, paid, since, claimed, settled, now, phase>>
        /\ irregular \subseteq irregular' /\ irregular' \subseteq irregular \cup {"yields"}
    BY <1>8 DEF AddUser, Rest
  <2>2. pending'.join = pending.join /\ pending'.leave = pending.leave /\ pending'.rewards = pending.rewards
    BY <1>8, AddUserEffect
  <2>3. Quiet
    BY <1>0, <2>1, <2>2 DEF Quiet, RewardsOf, StakersOf
  <2>4. OnceInv'
    BY <2>1, <2>2 DEF OnceInv
  <2> QED
    BY <2>3, <2>4
<1> QED
  BY <1>2, <1>3, <1>4, <1>5, <1>6, <1>7, <1>8

\* The first settlement of a block, for everybody.
LEMMA FirstSettlement ==
  ASSUME BaseInv, OnceInv, settled = 0, NEW who, NEW end, Settles(who, end)
  PROVE  /\ \A a \in Address : RecordOf(a) = cur.rewards[a] /\ StakeOf(a) = cur.stakers[a]
         /\ \A a \in Address :
              /\ ~Skipped(end) /\ a \in Reached(end) =>
                    RecordOf(a)' = NewRecord(a, who, end) /\ NewRecord(a, who, end) # NoReward
              /\ Skipped(end) \/ a \notin Reached(end) => RecordOf(a)' = cur.rewards[a]
<1>1. /\ phase = "block" /\ end \in 0..now /\ now - end <= Day
      /\ pending'.rewards = PendingSettled(who, end).rewards /\ cur' = cur
  BY DEF Settles
<1>2. TypeOK /\ RecordsGood
  BY DEF BaseInv
<1>3. pending.leave = {} /\ \A a \in Address : pending.rewards[a] = NoReward /\ pending.join[a] = -1
  BY <1>1 DEF OnceInv
<1>4. \A a \in Address : RecordOf(a) = cur.rewards[a] /\ StakeOf(a) = cur.stakers[a]
  BY <1>3 DEF RecordOf, StakeOf, RewardsOf, StakersOf
<1>5. \A a \in Address :
        RecordOf(a)' = IF pending'.rewards[a] # NoReward THEN pending'.rewards[a] ELSE cur.rewards[a]
  BY <1>1 DEF RecordOf, RewardsOf
<1>6. CASE Skipped(end)
  <2>1. PendingSettled(who, end) = pending
    BY <1>1, <1>2, <1>6, SettledWrites
  <2> QED
    BY <1>1, <1>3, <1>4, <1>5, <1>6, <2>1
<1>7. CASE ~Skipped(end)
  <2>1. \A a \in Address :
          /\ a \in Reached(end) => PendingSettled(who, end).rewards[a] = NewRecord(a, who, end)
          /\ a \notin Reached(end) => PendingSettled(who, end).rewards[a] = pending.rewards[a]
    BY <1>1, <1>2, <1>7, SettledWrites
  <2>2. \A a \in Reached(end) : NewRecord(a, who, end) # NoReward
    BY <1>1, <1>2, NewRecordGood
  <2> QED
    BY <1>1, <1>3, <1>4, <1>5, <1>7, <2>1, <2>2
<1> QED
  BY <1>6, <1>7

\* The time of a is credited once; a staker that has no record has not been paid.
Credited(a) ==
    /\ RecordOf(a) = NoReward => paid[a] = 0 /\ (StakeOf(a) >= 0 => since[a] = StakeOf(a))
    /\ RecordOf(a) # NoReward =>
          /\ paid[a] + RecordOf(a).acc = RecordOf(a).last - since[a]
          /\ StakeOf(a) < RecordOf(a).last

CreditInv ==
    /\ since \in [Address -> Int] /\ paid \in [Address -> Int]
    /\ irregular \subseteq {"yields"} => \A a \in Address : Credited(a)

\* Forward in time the reward is what is left of the time staked.
LEMMA RewordForward ==
  ASSUME BaseInv, CreditInv, OnceInv, settled = 0, irregular \subseteq {"yields"}, phase = "block",
         NEW a \in Stakers, NEW end \in Nat, cur.stakers[a] <= end, cur.rewards[a].last <= end
  PROVE  /\ a \in Address /\ StakerReword(a, end) \in Int /\ cur.stakers[a] \in Int
         /\ paid[a] + StakerReword(a, end) = end - since[a]
         /\ cur.rewards[a] # NoReward => cur.stakers[a] < end
         /\ cur.rewards[a] = NoReward => StakerReword(a, end) = end - cur.stakers[a]
<1>1. TypeOK /\ RecordsGood /\ cur \in Database
  BY DEF BaseInv, TypeOK
<1>2. a \in Address /\ cur.stakers[a] >= 0
  BY DEF Stakers
<1>3. RecordOf(a) = cur.rewards[a] /\ StakeOf(a) = cur.stakers[a]
  BY <1>2 DEF OnceInv, RecordOf, StakeOf, RewardsOf, StakersOf
<1>4. Credited(a) /\ since[a] \in Int /\ paid[a] \in Int
  BY <1>2 DEF CreditInv
<1>5. cur.stakers[a] \in Int /\ cur.rewards[a].last \in Int
  BY <1>1, <1>2 DEF Database, Reward
<1> DEFINE R == StakerReword(a, end)
           acc == cur.rewards[a].acc
<1>6. /\ R \in Int /\ StartOf(a) \in 0..now /\ acc \in Int
      /\ StartOf(a) <= end => R = acc + (end - StartOf(a))
  BY <1>1, RewordIs
<1>7. CASE cur.rewards[a] = NoReward
  <2>1. acc = 0 /\ StartOf(a) = cur.stakers[a]
    BY <1>7 DEF StartOf, NoReward
  <2>2. paid[a] = 0 /\ since[a] = cur.stakers[a]
    BY <1>2, <1>3, <1>4, <1>7 DEF Credited
  <2> HIDE DEF R, acc
  <2>3. R = end - cur.stakers[a]
    BY <1>5, <1>6, <2>1
  <2> QED
    BY <1>2, <1>5, <1>6, <1>7, <2>2, <2>3 DEF R
<1>8. CASE cur.rewards[a] # NoReward
  <2> DEFINE last == cur.rewards[a].last
  <2>1. StartOf(a) = last /\ last \in Int /\ last <= end
    BY <1>5, <1>8 DEF StartOf
  <2>2. paid[a] + acc = last - since[a] /\ cur.stakers[a] < last
    BY <1>3, <1>4, <1>8 DEF Credited
  <2> HIDE DEF R, acc, last
  <2>3. R = acc + (end - last)
    BY <1>6, <2>1
  <2>4. paid[a] + R = end - since[a] /\ cur.stakers[a] < end
    BY <1>4, <1>5, <1>6, <2>1, <2>2, <2>3
  <2> QED
    BY <1>2, <1>5, <1>6, <1>8, <2>4 DEF R
<1> QED
  BY <1>7, <1>8

\* Everybody but the one that is paid.
LEMMA OthersCredited ==
  ASSUME BaseInv, CreditInv, OnceInv, settled = 0, irregular \subseteq {"yields"},
         NEW who, NEW end, Settles(who, end), \A a \in Stakers : cur.rewards[a].last <= end,
         NEW b \in Address, b # who, paid'[b] = paid[b], since'[b] = since[b],
         StakeOf(b)' = StakeOf(b)
  PROVE  Credited(b)'
<1>1. /\ phase = "block" /\ end \in Nat /\ end \in Int /\ end \in 0..now /\ now - end <= Day
      /\ TypeOK /\ RecordsGood
  BY DEF Settles, BaseInv, TypeOK
<1>2. /\ RecordOf(b) = cur.rewards[b] /\ StakeOf(b) = cur.stakers[b]
      /\ ~Skipped(end) /\ b \in Reached(end) =>
            RecordOf(b)' = NewRecord(b, who, end) /\ NewRecord(b, who, end) # NoReward
      /\ Skipped(end) \/ b \notin Reached(end) => RecordOf(b)' = cur.rewards[b]
  BY FirstSettlement
<1>3. Credited(b)
  BY DEF CreditInv
<1>4. CASE RecordOf(b)' = cur.rewards[b]
  BY <1>2, <1>3, <1>4 DEF Credited
<1>5. CASE ~Skipped(end) /\ b \in Reached(end)
  <2>1. b \in Stakers /\ cur.stakers[b] < end /\ cur.rewards[b].last <= end
    BY <1>5 DEF Reached
  <2>2. /\ StakerReword(b, end) \in Int /\ paid[b] + StakerReword(b, end) = end - since[b]
        /\ cur.stakers[b] \in Int
    <3>1. cur.stakers[b] <= end
      BY <1>1, <2>1 DEF TypeOK, Database
    <3> QED
      BY <1>1, <2>1, <3>1, RewordForward
  <2>3. NewRecord(b, who, end).acc = StakerReword(b, end) /\ NewRecord(b, who, end).last = end
    BY DEF NewRecord, RewordOf
  <2>4. /\ RecordOf(b)' # NoReward /\ RecordOf(b)'.last = end
        /\ RecordOf(b)'.acc = StakerReword(b, end) /\ StakeOf(b)' = cur.stakers[b]
    BY <1>2, <1>5, <2>3
  <2> QED
    BY <2>1, <2>2, <2>4 DEF Credited
<1> QED
  BY <1>2, <1>4, <1>5

\* The one that is paid, whether it stays a staker or leaves.
LEMMA PaidCredited ==
  ASSUME BaseInv, CreditInv, OnceInv, settled = 0, irregular \subseteq {"yields"},
         NEW a \in Stakers, NEW end, Settles(a, end), \A b \in Stakers : cur.rewards[b].last <= end,
         cur.global # end, cur.stakers[a] <= end,
         paid'[a] = paid[a] + StakerReword(a, end), since'[a] = since[a],
         StakeOf(a)' \in {-1, cur.stakers[a]}
  PROVE  Credited(a)'
<1>1. /\ phase = "block" /\ end \in Nat /\ end \in Int /\ end \in 0..now /\ a \in Address
      /\ TypeOK /\ RecordsGood
  BY DEF Settles, BaseInv, TypeOK, Stakers
<1>2. ~Skipped(end)
  BY DEF Skipped
<1>3. /\ RecordOf(a) = cur.rewards[a] /\ StakeOf(a) = cur.stakers[a]
      /\ a \in Reached(end) => RecordOf(a)' = NewRecord(a, a, end) /\ NewRecord(a, a, end) # NoReward
      /\ a \notin Reached(end) => RecordOf(a)' = cur.rewards[a]
  BY <1>1, <1>2, FirstSettlement
<1>4. /\ StakerReword(a, end) \in Int /\ cur.stakers[a] \in Int
      /\ paid[a] + StakerReword(a, end) = end - since[a]
      /\ cur.rewards[a] # NoReward => cur.stakers[a] < end
      /\ cur.rewards[a] = NoReward => StakerReword(a, end) = end - cur.stakers[a]
  BY <1>1, RewordForward
<1>5. Credited(a) /\ paid[a] \in Int /\ since[a] \in Int
  BY <1>1 DEF CreditInv
<1>6. CASE a \in Reached(end)
  <2>1. NewRecord(a, a, end).acc = 0 /\ NewRecord(a, a, end).last = end
    BY DEF NewRecord, RewordOf
  <2>2. RecordOf(a)' # NoReward /\ RecordOf(a)'.acc = 0 /\ RecordOf(a)'.last = end
    BY <1>3, <1>6, <2>1
  <2>3. cur.stakers[a] < end
    BY <1>6 DEF Reached
  <2>4. StakeOf(a)' < end
    BY <1>1, <2>3
  <2>5. paid'[a] + 0 = end - since'[a]
    BY <1>1, <1>4, <1>5
  <2> QED
    BY <2>2, <2>4, <2>5 DEF Credited
<1>7. CASE a \notin Reached(end)
  <2>1. cur.stakers[a] = end
    BY <1>1, <1>4, <1>7 DEF Reached
  <2>2. cur.rewards[a] = NoReward
    BY <1>4, <2>1
  <2>3. StakerReword(a, end) = 0 /\ paid[a] = 0 /\ since[a] = cur.stakers[a]
    BY <1>1, <1>3, <1>4, <1>5, <2>1, <2>2 DEF Credited
  <2>4. RecordOf(a)' = NoReward /\ paid'[a] = 0
    BY <1>3, <1>7, <2>2, <2>3
  <2>5. StakeOf(a)' >= 0 => since'[a] = StakeOf(a)'
    BY <2>3
  <2> QED
    BY <2>4, <2>5 DEF Credited
<1> QED
  BY <1>6, <1>7

\* What the three transactions do to the stakes, and what they note.
LEMMA StakesAfter ==
  ASSUME BaseInv, OnceInv
  PROVE  /\ \A s, a \in Address : Stake(s, a) =>
              /\ StakeOf(a)' = btime /\ settled' = settled + 1 /\ OnceInv'
              /\ \A b \in Address : b # a => StakeOf(b)' = StakeOf(b)
         /\ \A a \in Address : \A end \in 0..now : Unstake(a, end) =>
              /\ StakeOf(a)' = -1 /\ settled' = settled + 1 /\ OnceInv'
              /\ \A b \in Address : b # a => StakeOf(b)' = StakeOf(b)
         /\ \A a \in Address : \A end \in 0..now : Claim(a, end) =>
              /\ settled' = settled + 1 /\ OnceInv'
              /\ \A b \in Address : StakeOf(b)' = StakeOf(b)
<1>0. /\ settled \in Nat /\ pending \in Change /\ btime \in Nat
      /\ pending.join \in [Address -> Int] /\ pending.leave \in SUBSET Address
  BY DEF OnceInv, BaseInv, TypeOK, Change
<1>1. settled' = settled + 1 => OnceInv'
  BY <1>0 DEF OnceInv
<1>2. ASSUME NEW s \in Address, NEW a \in Address, Stake(s, a)
      PROVE  /\ StakeOf(a)' = btime /\ settled' = settled + 1
             /\ \A b \in Address : b # a => StakeOf(b)' = StakeOf(b)
  <2>1. cur' = cur /\ settled' = settled + 1
    BY <1>2 DEF Stake, Rest
  <2>2. pending'.join = [pending.join EXCEPT ![a] = btime] /\ pending'.leave = pending.leave \ {a}
    BY <1>2, StakeEffect
  <2> QED
    BY <1>0, <2>1, <2>2 DEF StakeOf, StakersOf
<1>3. ASSUME NEW a \in Address, NEW end \in 0..now, Unstake(a, end)
      PROVE  /\ StakeOf(a)' = -1 /\ settled' = settled + 1
             /\ \A b \in Address : b # a => StakeOf(b)' = StakeOf(b)
  <2>1. cur' = cur /\ settled' = settled + 1
    BY <1>3 DEF Unstake, Rest
  <2>2. pending'.join = [pending.join EXCEPT ![a] = -1] /\ pending'.leave = pending.leave \cup {a}
    BY <1>3, UnstakeEffect
  <2> QED
    BY <1>0, <2>1, <2>2 DEF StakeOf, StakersOf
<1>4. ASSUME NEW a \in Address, NEW end \in 0..now, Claim(a, end)
      PROVE  settled' = settled + 1 /\ \A b \in Address : StakeOf(b)' = StakeOf(b)
  <2>1. cur' = cur /\ settled' = settled + 1
    BY <1>4 DEF Claim, Rest
  <2>2. pending'.join = pending.join /\ pending'.leave = pending.leave
    BY <1>4, ClaimEffect
  <2> QED
    BY <2>1, <2>2 DEF StakeOf, StakersOf
<1> QED
  BY <1>1, <1>2, <1>3, <1>4

LEMMA NotedSays ==
  ASSUME NEW who, NEW end, settled \in Nat
  PROVE  /\ irregular \subseteq Noted(who, end)
         /\ "twice" \notin Noted(who, end) => settled = 0
         /\ "backwards" \notin Noted(who, end) => \A a \in Stakers : ~(cur.rewards[a].last > end)
         /\ "skipped" \notin Noted(who, end) => ~(who \in Stakers /\ cur.global = end)
BY DEF Noted

LEMMA CreditStep ==
  ASSUME BaseInv, OnceInv, CreditInv, [Next]_vars
  PROVE  OnceInv' /\ CreditInv'
<1>0. /\ settled \in Nat /\ btime \in Nat /\ now \in Nat /\ cur \in Database
      /\ since \in [Address -> Int] /\ paid \in [Address -> Int]
      /\ \A a \in Address : cur.rewards[a].last \in Int /\ paid[a] \in Int
  BY DEF OnceInv, CreditInv, BaseInv, TypeOK, Database, Reward
<1>1. CASE \/ Load \/ PutLastAcceptedKey \/ PutGenesisBlock \/ CrashAtFirstStart
           \/ StartBlock \/ Accept \/ Tick \/ Restart \/ UNCHANGED vars
           \/ \E s, a \in Address : Transfer(s, a, 1)
           \/ \E a \in Address : Proof(a, 1)
           \/ \E s \in Address, u \in User : AddUser(s, u)
  <2>1. Quiet /\ OnceInv'
    BY <1>1, QuietSteps
  <2>2. \A a \in Address : RecordOf(a)' = RecordOf(a) /\ StakeOf(a)' = StakeOf(a)
    BY <2>1 DEF Quiet, RecordOf, StakeOf
  <2>3. UNCHANGED <<paid, since>> /\ irregular \subseteq irregular'
    BY <2>1 DEF Quiet
  <2>4. \A a \in Address : Credited(a) => Credited(a)'
    BY <2>2, <2>3 DEF Credited
  <2> QED
    BY <2>1, <2>3, <2>4 DEF CreditInv
<1>2. ASSUME NEW s \in Address, NEW a \in Address, Stake(s, a) PROVE OnceInv' /\ CreditInv'
  <2>1. /\ StakeOf(a)' = btime /\ OnceInv' /\ \A b \in Address : b # a => StakeOf(b)' = StakeOf(b)
    BY <1>2, StakesAfter
  <2>2. /\ Settles(a, btime)
    BY <1>2, StakeEffect
  <2>3. /\ paid' = paid /\ since' = [since EXCEPT ![a] = btime] /\ cur.stakers[a] = -1
        /\ irregular' = Noted(a, btime) \cup {x \in {"again"} : cur.rewards[a] # NoReward}
    BY <1>2 DEF Stake
  <2>4. since' \in [Address -> Int] /\ paid' \in [Address -> Int]
    BY <1>0, <2>3
  <2>5. ASSUME irregular' \subseteq {"yields"} PROVE \A b \in Address : Credited(b)'
    <3>1. /\ irregular \subseteq {"yields"} /\ settled = 0 /\ cur.rewards[a] = NoReward
          /\ \A b \in Stakers : ~(cur.rewards[b].last > btime)
      <4>1. Noted(a, btime) \subseteq {"yields"} /\ cur.rewards[a] = NoReward
        BY <2>3, <2>5
      <4>2. "twice" \notin Noted(a, btime) /\ "backwards" \notin Noted(a, btime)
        BY <4>1
      <4>3. irregular \subseteq Noted(a, btime)
        BY <1>0, NotedSays
      <4>4. settled = 0 /\ \A b \in Stakers : ~(cur.rewards[b].last > btime)
        BY <1>0, <4>2, NotedSays
      <4> QED
        BY <4>1, <4>3, <4>4
    <3>2. \A b \in Stakers : cur.rewards[b].last <= btime
      BY <1>0, <3>1 DEF Stakers
    <3>3. ASSUME NEW b \in Address, b # a PROVE Credited(b)'
      <4>1. paid'[b] = paid[b] /\ since'[b] = since[b] /\ StakeOf(b)' = StakeOf(b)
        BY <1>0, <2>1, <2>3, <3>3
      <4> QED
        BY <2>2, <3>1, <3>2, <3>3, <4>1, OthersCredited
    <3>4. Credited(a)'
      <4>1. a \notin Reached(btime)
        BY <2>3 DEF Reached, Stakers
      <4>2. RecordOf(a) = cur.rewards[a] /\ RecordOf(a)' = cur.rewards[a]
        BY <2>2, <3>1, <4>1, FirstSettlement
      <4>3. paid[a] = 0
        BY <3>1, <4>2 DEF CreditInv, Credited
      <4>4. paid'[a] = 0 /\ since'[a] = btime
        BY <1>0, <2>3, <4>3
      <4> QED
        BY <2>1, <3>1, <4>2, <4>4 DEF Credited
    <3> QED
      BY <3>3, <3>4
  <2> QED
    BY <2>1, <2>4, <2>5 DEF CreditInv
<1>3. ASSUME NEW a \in Address, NEW end \in 0..now, Settles(a, end), a \in Stakers, cur.stakers[a] <= end,
             StakerReword(a, end) \in Int, Noted(a, end) \subseteq irregular', since' = since,
             paid' = [paid EXCEPT ![a] = @ + StakerReword(a, end)],
             StakeOf(a)' \in {-1, StakeOf(a)}, \A b \in Address : b # a => StakeOf(b)' = StakeOf(b)
      PROVE  CreditInv'
  <2>1. paid' \in [Address -> Int] /\ since' \in [Address -> Int]
    BY <1>0, <1>3
  <2>2. ASSUME irregular' \subseteq {"yields"} PROVE \A b \in Address : Credited(b)'
    <3>1. /\ irregular \subseteq {"yields"} /\ settled = 0 /\ cur.global # end
          /\ \A b \in Stakers : ~(cur.rewards[b].last > end)
      <4>1. "twice" \notin Noted(a, end) /\ "backwards" \notin Noted(a, end) /\ "skipped" \notin Noted(a, end)
        BY <1>3, <2>2
      <4>2. irregular \subseteq Noted(a, end)
        BY <1>0, NotedSays
      <4>3. settled = 0 /\ \A b \in Stakers : ~(cur.rewards[b].last > end)
        BY <1>0, <4>1, NotedSays
      <4>4. ~(a \in Stakers /\ cur.global = end)
        BY <1>0, <4>1, NotedSays
      <4> QED
        BY <1>3, <2>2, <4>2, <4>3, <4>4
    <3>2. \A b \in Stakers : cur.rewards[b].last <= end
      BY <1>0, <3>1 DEF Stakers
    <3>3. ASSUME NEW b \in Address, b # a PROVE Credited(b)'
      <4>1. paid'[b] = paid[b] /\ since'[b] = since[b] /\ StakeOf(b)' = StakeOf(b)
        BY <1>0, <1>3, <3>3
      <4> QED
        BY <1>3, <3>1, <3>2, <3>3, <4>1, OthersCredited
    <3>4. Credited(a)'
      <4>1. StakeOf(a) = cur.stakers[a]
        BY <1>3, <3>1, FirstSettlement
      <4>2. paid'[a] = paid[a] + StakerReword(a, end) /\ since'[a] = since[a]
        BY <1>0, <1>3
      <4>3. StakeOf(a)' \in {-1, cur.stakers[a]}
        BY <1>3, <4>1
      <4> QED
        BY <1>3, <3>1, <3>2, <4>2, <4>3, PaidCredited
    <3> QED
      BY <3>3, <3>4
  <2> QED
    BY <2>1, <2>2 DEF CreditInv
<1>4. ASSUME NEW a \in Address, NEW end \in 0..now, Unstake(a, end) PROVE OnceInv' /\ CreditInv'
  <2>1. StakeOf(a)' = -1 /\ OnceInv' /\ \A b \in Address : b # a => StakeOf(b)' = StakeOf(b)
    BY <1>4, StakesAfter
  <2>2. Settles(a, end) /\ a \in Stakers /\ cur.stakers[a] <= end /\ StakerReword(a, end) \in Int
    BY <1>4, UnstakeEffect
  <2>3. /\ Noted(a, end) \subseteq irregular' /\ since' = since
        /\ paid' = [paid EXCEPT ![a] = @ + StakerReword(a, end)]
    BY <1>4 DEF Unstake
  <2> QED
    BY <1>3, <2>1, <2>2, <2>3
<1>5. ASSUME NEW a \in Address, NEW end \in 0..now, Claim(a, end) PROVE OnceInv' /\ CreditInv'
  <2>1. OnceInv' /\ \A b \in Address : StakeOf(b)' = StakeOf(b)
    BY <1>5, StakesAfter
  <2>2. Settles(a, end) /\ a \in Stakers /\ cur.stakers[a] <= end /\ StakerReword(a, end) \in Int
    BY <1>5, ClaimEffect
  <2>3. /\ Noted(a, end) \subseteq irregular' /\ since' = since
        /\ paid' = [paid EXCEPT ![a] = @ + StakerReword(a, end)]
    BY <1>5 DEF Claim
  <2> QED
    BY <1>3, <2>1, <2>2, <2>3
<1> QED
  BY <1>1, <1>2, <1>4, <1>5 DEF Next

LEMMA OnceInitially == Init => OnceInv
BY DEF Init, OnceInv

\* Every second staked is credited once, over any number of years, claims and stakes of
\* others, as long as nothing happened that the records do not survive (state.go:297,
\* state.go:460).
THEOREM TimeIsCreditedOnce == Spec => []CreditedOnce
<1>1. Init => BaseInv /\ OnceInv /\ CreditInv
  <2> SUFFICES ASSUME Init PROVE CreditInv
    BY BaseInitially, OnceInitially
  <2>1. cur = Empty /\ pending = NoPending /\ paid = Zero /\ since = Zero
    BY DEF Init
  <2>2. \A a \in Address : RecordOf(a) = NoReward /\ StakeOf(a) = -1 /\ paid[a] = 0
    BY <2>1, BlankTypes DEF RecordOf, StakeOf, RewardsOf, StakersOf, Empty, Zero
  <2>3. Zero \in [Address -> Int]
    BY DEF Zero
  <2> QED
    BY <2>1, <2>2, <2>3 DEF CreditInv, Credited
<1>2. (BaseInv /\ OnceInv /\ CreditInv) /\ [Next]_vars => (BaseInv /\ OnceInv /\ CreditInv)'
  BY BaseStep, CreditStep
<1>3. BaseInv /\ OnceInv /\ CreditInv => CreditedOnce
  <2> SUFFICES ASSUME BaseInv, CreditInv, phase = "idle", irregular \subseteq {"yields"},
                      NEW a \in Address, cur.rewards[a] # NoReward
               PROVE  paid[a] + cur.rewards[a].acc = cur.rewards[a].last - since[a]
    BY DEF CreditedOnce
  <2>1. pending = NoPending
    BY DEF BaseInv, Matching
  <2>2. RecordOf(a) = cur.rewards[a]
    BY <2>1, BlankTypes DEF RecordOf, RewardsOf
  <2> QED
    BY <2>2 DEF CreditInv, Credited
<1> QED
  BY <1>1, <1>2, <1>3, PTL DEF Spec

-----------------------------------------------------------------------------
(* The claims.                                                              *)

\* A staker that was paid has a record not older than the claim, up to a day.
Spaced(a) ==
    /\ RecordOf(a) # NoReward => StakeOf(a) < RecordOf(a).last /\ RecordOf(a).claim = RecordOf(a).last
    /\ claimed[a].num > 0 => RecordOf(a) # NoReward /\ RecordOf(a).claim >= claimed[a].at - Day

SpaceInv ==
    /\ claimed \in [Address -> [num : Nat, at : Nat]]
    /\ \A a \in Address : claimed[a].at <= now
    /\ irregular \cap {"twice", "skipped", "again"} = {} => \A a \in Address : Spaced(a)

\* Everybody that a settlement does not pay.
LEMMA OthersSpaced ==
  ASSUME BaseInv, OnceInv, SpaceInv, settled = 0, irregular \cap {"twice", "skipped", "again"} = {},
         NEW who, NEW end, Settles(who, end), NEW b \in Address,
         claimed'[b] = claimed[b], StakeOf(b)' \in {-1, StakeOf(b)}
  PROVE  Spaced(b)'
<1>1. /\ phase = "block" /\ end \in 0..now /\ now - end <= Day /\ now \in Nat /\ end \in Int
      /\ cur.rewards[b] \in Reward /\ cur.stakers[b] \in Int /\ Day \in Nat
      /\ claimed[b].at \in Nat /\ claimed[b].at <= now
  BY Constants DEF Settles, BaseInv, TypeOK, Database, SpaceInv
<1>2. /\ RecordOf(b) = cur.rewards[b] /\ StakeOf(b) = cur.stakers[b]
      /\ ~Skipped(end) /\ b \in Reached(end) =>
            RecordOf(b)' = NewRecord(b, who, end) /\ NewRecord(b, who, end) # NoReward
      /\ Skipped(end) \/ b \notin Reached(end) => RecordOf(b)' = cur.rewards[b]
  BY FirstSettlement
<1>3. Spaced(b)
  BY DEF SpaceInv
<1>4. CASE RecordOf(b)' = cur.rewards[b]
  <2>1. RecordOf(b)' # NoReward => StakeOf(b)' < RecordOf(b)'.last
    <3> SUFFICES ASSUME cur.rewards[b] # NoReward PROVE StakeOf(b)' < cur.rewards[b].last
      BY <1>4
    <3>1. cur.rewards[b].last \in 0..now /\ cur.stakers[b] < cur.rewards[b].last
      BY <1>2, <1>3 DEF Spaced, BaseInv, RecordsGood, GoodRecord
    <3> QED
      BY <1>1, <1>2, <3>1
  <2> QED
    BY <1>2, <1>3, <1>4, <2>1 DEF Spaced
<1>5. CASE ~Skipped(end) /\ b \in Reached(end)
  <2>1. cur.stakers[b] < end
    BY <1>5 DEF Reached
  <2>2. NewRecord(b, who, end).claim = end /\ NewRecord(b, who, end).last = end
    BY DEF NewRecord
  <2>3. /\ RecordOf(b)' # NoReward /\ RecordOf(b)'.last = end /\ RecordOf(b)'.claim = end
    BY <1>2, <1>5, <2>2
  <2>4. StakeOf(b)' < end /\ end >= claimed'[b].at - Day
    BY <1>1, <1>2, <2>1
  <2> QED
    BY <2>3, <2>4 DEF Spaced
<1> QED
  BY <1>2, <1>4, <1>5

LEMMA SpaceStep ==
  ASSUME BaseInv, OnceInv, SpaceInv, [Next]_vars
  PROVE  OnceInv' /\ SpaceInv' /\
         \A a \in Address :
            claimed[a].num > 0 /\ claimed'[a].num > claimed[a].num
            /\ irregular' \cap {"twice", "skipped", "again"} = {}
            => claimed'[a].at - claimed[a].at >= Week - Day
<1> DEFINE Apart == \A a \in Address :
            claimed[a].num > 0 /\ claimed'[a].num > claimed[a].num
            /\ irregular' \cap {"twice", "skipped", "again"} = {}
            => claimed'[a].at - claimed[a].at >= Week - Day
<1>0. /\ settled \in Nat /\ btime \in Nat /\ now \in Nat /\ cur \in Database
      /\ claimed \in [Address -> [num : Nat, at : Nat]] /\ \A a \in Address : claimed[a].at <= now
      /\ \A a \in Address : claimed[a].num \in Nat /\ claimed[a].at \in Nat
  BY DEF OnceInv, SpaceInv, BaseInv, TypeOK
<1>1. claimed' = claimed => Apart
  BY <1>0
<1> HIDE DEF Apart
<1>2. CASE \/ Load \/ PutLastAcceptedKey \/ PutGenesisBlock \/ CrashAtFirstStart
           \/ StartBlock \/ Accept \/ Tick \/ Restart \/ UNCHANGED vars
           \/ \E s, a \in Address : Transfer(s, a, 1)
           \/ \E a \in Address : Proof(a, 1)
           \/ \E s \in Address, u \in User : AddUser(s, u)
  <2>1. Quiet /\ OnceInv'
    BY <1>2, QuietSteps
  <2>2. \A a \in Address : RecordOf(a)' = RecordOf(a) /\ StakeOf(a)' = StakeOf(a)
    BY <2>1 DEF Quiet, RecordOf, StakeOf
  <2>3. claimed' = claimed /\ irregular \subseteq irregular' /\ now' >= now /\ now' \in Nat
    <3>1. BaseInv'
      BY BaseStep
    <3> QED
      BY <2>1, <3>1 DEF Quiet, BaseInv, TypeOK
  <2>4. \A a \in Address : Spaced(a) => Spaced(a)'
    BY <2>2, <2>3 DEF Spaced
  <2>5. \A a \in Address : claimed'[a].at <= now'
    BY <1>0, <2>3
  <2>6. SpaceInv'
    BY <2>3, <2>4, <2>5 DEF SpaceInv
  <2> QED
    BY <1>1, <2>1, <2>3, <2>6 DEF Apart
<1>3. ASSUME NEW s \in Address, NEW a \in Address, Stake(s, a) PROVE OnceInv' /\ SpaceInv' /\ Apart
  <2>1. /\ StakeOf(a)' = btime /\ OnceInv' /\ \A b \in Address : b # a => StakeOf(b)' = StakeOf(b)
    BY <1>3, StakesAfter
  <2>2. /\ Settles(a, btime)
    BY <1>3, StakeEffect
  <2>3. /\ claimed' = claimed /\ cur.stakers[a] = -1 /\ now' = now
        /\ irregular' = Noted(a, btime) \cup {x \in {"again"} : cur.rewards[a] # NoReward}
    BY <1>3 DEF Stake, Rest
  <2>4. ASSUME irregular' \cap {"twice", "skipped", "again"} = {} PROVE \A b \in Address : Spaced(b)'
    <3>1. /\ irregular \cap {"twice", "skipped", "again"} = {} /\ settled = 0 /\ cur.rewards[a] = NoReward
      <4>1. "twice" \notin Noted(a, btime) /\ cur.rewards[a] = NoReward
        BY <2>3, <2>4
      <4>2. irregular \subseteq Noted(a, btime) /\ settled = 0
        BY <1>0, <4>1, NotedSays
      <4> QED
        BY <2>3, <2>4, <4>1, <4>2
    <3>2. ASSUME NEW b \in Address, b # a PROVE Spaced(b)'
      BY <2>1, <2>2, <2>3, <3>1, <3>2, OthersSpaced
    <3>3. Spaced(a)'
      <4>1. a \notin Reached(btime)
        BY <2>3 DEF Reached, Stakers
      <4>2. RecordOf(a) = NoReward /\ RecordOf(a)' = NoReward
        BY <2>2, <3>1, <4>1, FirstSettlement
      <4> QED
        BY <2>3, <3>1, <4>2 DEF SpaceInv, Spaced
    <3> QED
      BY <3>2, <3>3
  <2> QED
    BY <1>0, <1>1, <2>1, <2>3, <2>4 DEF SpaceInv
<1>4. ASSUME NEW a \in Address, NEW end \in 0..now, Unstake(a, end) PROVE OnceInv' /\ SpaceInv' /\ Apart
  <2>1. StakeOf(a)' = -1 /\ OnceInv' /\ \A b \in Address : b # a => StakeOf(b)' = StakeOf(b)
    BY <1>4, StakesAfter
  <2>2. Settles(a, end)
    BY <1>4, UnstakeEffect
  <2>3. Noted(a, end) \subseteq irregular' /\ claimed' = claimed /\ now' = now
    BY <1>4 DEF Unstake, Rest
  <2>4. ASSUME irregular' \cap {"twice", "skipped", "again"} = {} PROVE \A b \in Address : Spaced(b)'
    <3>1. irregular \cap {"twice", "skipped", "again"} = {} /\ settled = 0
      <4>1. "twice" \notin Noted(a, end)
        BY <2>3, <2>4
      <4>2. irregular \subseteq Noted(a, end) /\ settled = 0
        BY <1>0, <4>1, NotedSays
      <4> QED
        BY <2>3, <2>4, <4>2
    <3>2. ASSUME NEW b \in Address PROVE Spaced(b)'
      BY <2>1, <2>2, <2>3, <3>1, OthersSpaced
    <3> QED
      BY <3>2
  <2> QED
    BY <1>0, <1>1, <2>1, <2>3, <2>4 DEF SpaceInv
<1>5. ASSUME NEW a \in Address, NEW end \in 0..now, Claim(a, end) PROVE OnceInv' /\ SpaceInv' /\ Apart
  <2> DEFINE R == StakerReword(a, end)
  <2>1. OnceInv' /\ \A b \in Address : StakeOf(b)' = StakeOf(b)
    BY <1>5, StakesAfter
  <2>2. Settles(a, end) /\ a \in Stakers /\ cur.stakers[a] <= end
    BY <1>5, ClaimEffect
  <2>3. /\ Noted(a, end) \subseteq irregular' /\ now' = now /\ WeekPassed(a)
        /\ claimed' = IF R = 0 THEN claimed ELSE [claimed EXCEPT ![a] = [num |-> @.num + 1, at |-> now]]
    BY <1>5 DEF Claim, Rest
  <2> HIDE DEF R
  <2>4. CASE irregular' \cap {"twice", "skipped", "again"} # {}
    <3>1. /\ claimed' \in [Address -> [num : Nat, at : Nat]]
          /\ \A b \in Address : claimed'[b].at <= now'
      BY <1>0, <2>3
    <3> QED
      BY <2>1, <2>4, <3>1 DEF SpaceInv, Apart
  <2>5. CASE irregular' \cap {"twice", "skipped", "again"} = {}
    <3>1. irregular \cap {"twice", "skipped", "again"} = {} /\ settled = 0 /\ cur.global # end
      <4>1. "twice" \notin Noted(a, end) /\ "skipped" \notin Noted(a, end)
        BY <2>3, <2>5
      <4>2. irregular \subseteq Noted(a, end) /\ settled = 0
        BY <1>0, <4>1, NotedSays
      <4>3. cur.global # end
        BY <1>0, <2>2, <4>1, NotedSays
      <4> QED
        BY <2>3, <2>5, <4>2, <4>3
    <3>2. Spaced(a) /\ \A b \in Address : claimed'[b] = claimed[b] => Spaced(b)'
      BY <2>1, <2>2, <3>1, OthersSpaced DEF SpaceInv
    <3>3. CASE claimed' = claimed
      <4>1. SpaceInv'
        BY <1>0, <2>3, <3>2, <3>3 DEF SpaceInv
      <4> QED
        BY <1>1, <2>1, <3>3, <4>1
    <3>4. CASE R # 0
      <4>1. claimed' = [claimed EXCEPT ![a] = [num |-> @.num + 1, at |-> now]]
        BY <2>3, <3>4
      <4>2. /\ claimed' \in [Address -> [num : Nat, at : Nat]] /\ \A b \in Address : claimed'[b].at <= now'
            /\ claimed'[a].at = now /\ \A b \in Address : b # a => claimed'[b] = claimed[b]
        BY <1>0, <2>3, <4>1
      <4>3. /\ RecordOf(a) = cur.rewards[a] /\ StakeOf(a) = cur.stakers[a]
            /\ a \in Reached(end) => RecordOf(a)' = NewRecord(a, a, end) /\ NewRecord(a, a, end) # NoReward
            /\ a \notin Reached(end) => RecordOf(a)' = cur.rewards[a]
        <5>1. ~Skipped(end)
          BY <2>2, <3>1 DEF Skipped
        <5> QED
          BY <2>2, <3>1, <5>1, FirstSettlement
      <4>4. /\ now - end <= Day /\ end \in Int /\ cur.stakers[a] \in Int /\ end \in Nat
            /\ cur.rewards[a].last \in Int /\ cur.rewards[a].acc \in Int /\ Day \in Nat /\ Week \in Nat
            /\ TypeOK /\ RecordsGood
        BY <1>0, <2>2, Constants DEF Settles, Database, Reward, BaseInv
      <4>5. Spaced(a)'
        <5>1. CASE a \in Reached(end)
          <6>1. NewRecord(a, a, end).claim = end /\ NewRecord(a, a, end).last = end
            BY DEF NewRecord
          <6>2. RecordOf(a)' # NoReward /\ RecordOf(a)'.claim = end /\ RecordOf(a)'.last = end
            BY <4>3, <5>1, <6>1
          <6>3. StakeOf(a)' < end
            BY <2>1, <4>3, <5>1 DEF Reached
          <6>4. end >= now - Day
            BY <1>0, <4>4
          <6> QED
            BY <4>2, <6>2, <6>3, <6>4 DEF Spaced
        <5>2. CASE a \notin Reached(end)
          <6>1. cur.stakers[a] = end
            BY <2>2, <4>4, <5>2 DEF Reached
          <6>2. cur.rewards[a] # NoReward
            <7> SUFFICES ASSUME cur.rewards[a] = NoReward PROVE FALSE
              OBVIOUS
            <7>1. StartOf(a) = end /\ cur.rewards[a].acc = 0
              BY <6>1 DEF StartOf, NoReward
            <7>2. R = 0 + (end - end)
              BY <2>2, <4>4, <7>1, RewordIs DEF R
            <7> QED
              BY <3>4, <4>4, <7>2
          <6>3. /\ cur.stakers[a] < cur.rewards[a].last
                /\ cur.rewards[a].claim = cur.rewards[a].last
            BY <3>2, <4>3, <6>2 DEF Spaced
          <6>4. cur.rewards[a].claim >= now - Day
            BY <1>0, <4>4, <6>1, <6>3
          <6> QED
            BY <2>1, <4>2, <4>3, <5>2, <6>2, <6>3, <6>4 DEF Spaced
        <5> QED
          BY <5>1, <5>2
      <4>6. SpaceInv'
        BY <3>2, <4>2, <4>5 DEF SpaceInv
      <4>7. Apart
        <5>1. ASSUME claimed[a].num > 0 PROVE claimed'[a].at - claimed[a].at >= Week - Day
          <6>1. /\ cur.rewards[a] # NoReward /\ cur.rewards[a].claim >= claimed[a].at - Day
                /\ cur.rewards[a].claim = cur.rewards[a].last
            BY <3>2, <4>3, <5>1 DEF Spaced
          <6>2. now - cur.rewards[a].claim >= Week
            BY <2>3, <6>1 DEF WeekPassed
          <6> QED
            BY <1>0, <4>2, <4>4, <6>1, <6>2
        <5>2. \A b \in Address : b # a => ~(claimed'[b].num > claimed[b].num)
          BY <1>0, <4>2
        <5> QED
          BY <5>1, <5>2 DEF Apart
      <4> QED
        BY <2>1, <4>6, <4>7
    <3> QED
      BY <2>3, <3>3, <3>4
  <2> QED
    BY <2>4, <2>5
<1> QED
  BY <1>2, <1>3, <1>4, <1>5 DEF Next, Apart

\* Two claims of one staker that pay are a week apart, up to the rounding to days, for
\* any number of blocks, stakers and restarts between them (claim_tx.go:36).
THEOREM ClaimsAreSpaced == Spec => ClaimsSpaced
<1> DEFINE Inv == BaseInv /\ OnceInv /\ SpaceInv
<1>1. Init => Inv
  <2> SUFFICES ASSUME Init PROVE SpaceInv
    BY BaseInitially, OnceInitially
  <2>1. cur = Empty /\ pending = NoPending /\ now = 0 /\ claimed = [a \in Address |-> [num |-> 0, at |-> 0]]
    BY DEF Init
  <2>2. \A a \in Address : RecordOf(a) = NoReward
    BY <2>1, BlankTypes DEF RecordOf, RewardsOf, Empty
  <2>3. \A a \in Address : claimed[a].num = 0 /\ claimed[a].at = 0
    BY <2>1
  <2>4. claimed \in [Address -> [num : Nat, at : Nat]]
    BY <2>1
  <2> QED
    BY <2>1, <2>2, <2>3, <2>4 DEF SpaceInv, Spaced
<1>2. Inv /\ [Next]_vars => Inv'
  BY BaseStep, SpaceStep
<1>3. Inv /\ [Next]_vars =>
        [\A a \in Address :
           /\ claimed[a].num > 0 /\ claimed'[a].num > claimed[a].num
           /\ irregular' \cap {"twice", "skipped", "again"} = {}
           => claimed'[a].at - claimed[a].at >= Week - Day]_vars
  BY SpaceStep
<1> QED
  BY <1>1, <1>2, <1>3, PTL DEF Spec, ClaimsSpaced
=============================================================================
