----------------------------- MODULE Data_proofs -----------------------------
(***************************************************************************)
(* What the other proofs use of numbers, sums, orders and recursion along  *)
(* a sequence. A fold is a function defined by recursion on the subsets of *)
(* a set: each lemma takes the function it sums by as a TLA+ function, and *)
(* induction is by a smallest counterexample.                              *)
(***************************************************************************)
EXTENDS Ordering, Decay, FiniteSetTheorems, WellFoundedInduction, TLAPS

-----------------------------------------------------------------------------
(* The smallest of several sets *)

(* A set of numbers has a least one.                                       *)
LEMMA LeastOf ==
  ASSUME NEW T \in SUBSET Nat, T # {}
  PROVE  \E m \in T : \A x \in T : m <= x
<1>1. PICK m \in T : \A x \in T : ~(<<x, m>> \in OpToRel(<, Nat))
  BY NatLessThanWellFounded, WFMin
<1>2. \A x \in T : ~(x < m)
  BY <1>1 DEF OpToRel
<1> QED BY <1>2

(* A bounded set of numbers has a greatest.                                *)
LEMMA GreatestNumber ==
  ASSUME NEW n0 \in Nat, NEW S \in SUBSET (0..n0), S # {}
  PROVE  \E m \in S : \A x \in S : x <= m
<1> DEFINE T == {n0 - x : x \in S}
<1>1. T \subseteq Nat /\ T # {}
  <2>1. \A x \in S : n0 - x \in Nat
    OBVIOUS
  <2>2. PICK x \in S : TRUE
    OBVIOUS
  <2>3. n0 - x \in T
    OBVIOUS
  <2> QED BY <2>1, <2>3
<1>2. PICK t \in T : \A y \in T : t <= y
  BY <1>1, LeastOf
<1>3. PICK m \in S : t = n0 - m
  OBVIOUS
<1>4. \A x \in S : n0 - m <= n0 - x
  BY <1>2, <1>3
<1> QED BY <1>4

(* Of finite sets some one has no smaller one beside it.                   *)
LEMMA SmallestOf ==
  ASSUME NEW Bad, Bad # {}, \A s \in Bad : IsFiniteSet(s)
  PROVE  \E s \in Bad : \A x \in s : s \ {x} \notin Bad
<1> DEFINE T == {Cardinality(s) : s \in Bad}
<1>1. T \subseteq Nat /\ T # {}
  BY FS_CardinalityType
<1>2. PICK s \in Bad : \A t \in Bad : Cardinality(s) <= Cardinality(t)
  <2>1. PICK m \in T : \A y \in T : m <= y
    <3> HIDE DEF T
    <3> QED BY <1>1, LeastOf
  <2> QED BY <2>1
<1>3. ASSUME NEW x \in s PROVE s \ {x} \notin Bad
  <2>1. Cardinality(s \ {x}) = Cardinality(s) - 1 /\ Cardinality(s) \in Nat
    BY FS_RemoveElement, FS_CardinalityType
  <2> QED BY <1>2, <2>1
<1> QED BY <1>3

-----------------------------------------------------------------------------
(* Sums: what MapThenSumSet unfolds to, of a function *)

Pick(s) == CHOOSE x \in s : TRUE
Sums(f, S, g) == g = [s \in SUBSET S |-> IF s = {} THEN 0 ELSE f[Pick(s)] + g[s \ {Pick(s)}]]
Total(f, S) == (CHOOSE g : Sums(f, S, g))[S]

LEMMA PickIn == ASSUME NEW s, s # {} PROVE Pick(s) \in s
BY DEF Pick

LEMMA SumsAt ==
  ASSUME NEW f, NEW S, NEW g, Sums(f, S, g), NEW s \in SUBSET S
  PROVE  g[s] = IF s = {} THEN 0 ELSE f[Pick(s)] + g[s \ {Pick(s)}]
BY DEF Sums

LEMMA SumsUnique ==
  ASSUME NEW S, IsFiniteSet(S), NEW f, NEW g, NEW h, Sums(f, S, g), Sums(f, S, h)
  PROVE  g = h
<1> DEFINE Bad == {s \in SUBSET S : g[s] # h[s]}
<1>1. ASSUME Bad # {} PROVE FALSE
  <2>1. PICK s \in Bad : \A x \in s : s \ {x} \notin Bad
    BY <1>1, FS_Subset, SmallestOf
  <2>2. s # {}
    BY SumsAt
  <2>3. s \ {Pick(s)} \in SUBSET S /\ g[s \ {Pick(s)}] = h[s \ {Pick(s)}]
    BY <2>1, <2>2, PickIn
  <2> QED BY <2>2, <2>3, SumsAt
<1>2. \A s \in SUBSET S : g[s] = h[s]
  BY <1>1
<1>3. g = [s \in SUBSET S |-> g[s]] /\ h = [s \in SUBSET S |-> h[s]]
  BY DEF Sums
<1> QED BY <1>2, <1>3

(* Summing over a set sums over its subsets.                               *)
LEMMA SumsBelow ==
  ASSUME NEW S, NEW f, NEW g, Sums(f, S, g), NEW T \in SUBSET S
  PROVE  Sums(f, T, [s \in SUBSET T |-> g[s]])
<1> DEFINE h == [s \in SUBSET T |-> g[s]]
<1>1. ASSUME NEW s \in SUBSET T
      PROVE  h[s] = IF s = {} THEN 0 ELSE f[Pick(s)] + h[s \ {Pick(s)}]
  <2>1. s \in SUBSET S /\ s \ {Pick(s)} \in SUBSET T
    OBVIOUS
  <2> QED BY <2>1, SumsAt
<1>2. h = [s \in SUBSET T |-> h[s]]
  OBVIOUS
<1>3. h = [s \in SUBSET T |-> IF s = {} THEN 0 ELSE f[Pick(s)] + h[s \ {Pick(s)}]]
  <2> HIDE DEF h
  <2> QED BY <1>1, <1>2
<1> QED BY <1>3 DEF Sums

LEMMA TotalOf ==
  ASSUME NEW S, IsFiniteSet(S), NEW f, NEW g, Sums(f, S, g)
  PROVE  Total(f, S) = g[S]
<1>1. Sums(f, S, CHOOSE x : Sums(f, S, x))
  OBVIOUS
<1> QED BY <1>1, SumsUnique DEF Total

LEMMA TotalWithin ==
  ASSUME NEW S, IsFiniteSet(S), NEW f, NEW g, Sums(f, S, g), NEW T \in SUBSET S
  PROVE  Total(f, T) = g[T]
<1> DEFINE h == [s \in SUBSET T |-> g[s]]
<1>1. IsFiniteSet(T)
  BY FS_Subset
<1>2. Sums(f, T, h) /\ h[T] = g[T]
  BY SumsBelow
<1> HIDE DEF h
<1> QED BY <1>1, <1>2, TotalOf

(* There is a sum over every finite set.                                   *)
LEMMA SumsExist ==
  ASSUME NEW S, IsFiniteSet(S), NEW f
  PROVE  \E g : Sums(f, S, g)
<1> DEFINE Bad == {s \in SUBSET S : ~ \E g : Sums(f, s, g)}
<1>1. ASSUME Bad # {} PROVE FALSE
  <2>1. PICK s \in Bad : \A x \in s : s \ {x} \notin Bad
    BY <1>1, FS_Subset, SmallestOf
  <2>2. IsFiniteSet(s)
    BY FS_Subset
  <2>3. ASSUME NEW t \in SUBSET s, t # s PROVE \E g : Sums(f, t, g)
    <3>1. PICK x \in s : x \notin t
      BY <2>3
    <3>2. PICK g : Sums(f, s \ {x}, g)
      BY <2>1
    <3>3. t \in SUBSET (s \ {x})
      BY <3>1
    <3> QED BY <3>2, <3>3, SumsBelow
  <2> DEFINE g == [t \in SUBSET s |-> IF t = {} THEN 0 ELSE f[Pick(t)] + Total(f, t \ {Pick(t)})]
  <2>4. ASSUME NEW t \in SUBSET s, t # s PROVE g[t] = Total(f, t)
    <3>1. PICK h : Sums(f, t, h)
      BY <2>3, <2>4
    <3>2. IsFiniteSet(t)
      BY <2>2, FS_Subset
    <3>3. Total(f, t) = h[t] /\ Total(f, t \ {Pick(t)}) = h[t \ {Pick(t)}]
      BY <3>1, <3>2, TotalWithin
    <3>4. h[t] = IF t = {} THEN 0 ELSE f[Pick(t)] + h[t \ {Pick(t)}]
      BY <3>1, SumsAt
    <3> QED BY <3>3, <3>4
  <2>5. ASSUME NEW t \in SUBSET s
        PROVE  g[t] = IF t = {} THEN 0 ELSE f[Pick(t)] + g[t \ {Pick(t)}]
    <3>1. CASE t = {}
      BY <3>1
    <3>2. CASE t # {}
      <4>1. t \ {Pick(t)} \in SUBSET s /\ t \ {Pick(t)} # s
        BY <3>2, PickIn
      <4>2. g[t \ {Pick(t)}] = Total(f, t \ {Pick(t)})
        <5> HIDE DEF g
        <5> QED BY <4>1, <2>4
      <4> QED BY <3>2, <4>2
    <3> QED BY <3>1, <3>2
  <2>6. g = [t \in SUBSET s |-> g[t]]
    OBVIOUS
  <2>7. g = [t \in SUBSET s |-> IF t = {} THEN 0 ELSE f[Pick(t)] + g[t \ {Pick(t)}]]
    <3> HIDE DEF g
    <3> QED BY <2>5, <2>6
  <2>8. Sums(f, s, g)
    <3> HIDE DEF g
    <3> QED BY <2>7 DEF Sums
  <2> QED BY <2>8
<1> QED BY <1>1

LEMMA TotalEmpty == ASSUME NEW f PROVE Total(f, {}) = 0
<1>1. IsFiniteSet({})
  BY FS_EmptySet
<1>2. PICK g : Sums(f, {}, g)
  BY <1>1, SumsExist
<1>3. Total(f, {}) = g[{}]
  BY <1>1, <1>2, TotalOf
<1> QED BY <1>2, <1>3, SumsAt

LEMMA TotalStep ==
  ASSUME NEW f, NEW S, IsFiniteSet(S), S # {}
  PROVE  Total(f, S) = f[Pick(S)] + Total(f, S \ {Pick(S)})
<1>1. PICK g : Sums(f, S, g)
  BY SumsExist
<1>2. Total(f, S) = g[S] /\ Total(f, S \ {Pick(S)}) = g[S \ {Pick(S)}]
  BY <1>1, TotalWithin
<1> QED BY <1>1, <1>2, SumsAt

LEMMA TotalInt ==
  ASSUME NEW f, NEW S, IsFiniteSet(S), \A x \in S : f[x] \in Int
  PROVE  Total(f, S) \in Int
<1> DEFINE Bad == {s \in SUBSET S : Total(f, s) \notin Int}
<1>1. ASSUME Bad # {} PROVE FALSE
  <2>1. PICK s \in Bad : \A x \in s : s \ {x} \notin Bad
    BY <1>1, FS_Subset, SmallestOf
  <2>2. s # {}
    BY TotalEmpty
  <2>3. Pick(s) \in s /\ IsFiniteSet(s)
    BY <2>2, PickIn, FS_Subset
  <2>4. Total(f, s \ {Pick(s)}) \in Int /\ f[Pick(s)] \in Int
    BY <2>1, <2>3
  <2>5. Total(f, s) = f[Pick(s)] + Total(f, s \ {Pick(s)})
    BY <2>2, <2>3, TotalStep
  <2> QED BY <2>4, <2>5
<1> QED BY <1>1

(* Any element may be counted first.                                       *)
LEMMA TotalTake ==
  ASSUME NEW f, NEW S, IsFiniteSet(S), \A x \in S : f[x] \in Int, NEW y \in S
  PROVE  Total(f, S) = f[y] + Total(f, S \ {y})
<1> DEFINE Bad == {s \in SUBSET S : \E x \in s : Total(f, s) # f[x] + Total(f, s \ {x})}
<1>1. ASSUME Bad # {} PROVE FALSE
  <2>1. PICK s \in Bad : \A x \in s : s \ {x} \notin Bad
    BY <1>1, FS_Subset, SmallestOf
  <2>2. PICK x \in s : Total(f, s) # f[x] + Total(f, s \ {x})
    OBVIOUS
  <2> DEFINE p == Pick(s)
             t == s \ {p}
             v == s \ {x}
             w == s \ {p, x}
  <2>3. p \in s /\ IsFiniteSet(s) /\ Total(f, s) = f[p] + Total(f, t)
    BY FS_Subset, PickIn, TotalStep
  <2>4. p # x
    BY <2>2, <2>3
  <2>5. t \notin Bad /\ v \notin Bad /\ x \in t /\ p \in v /\ t \in SUBSET S /\ v \in SUBSET S
    BY <2>1, <2>3, <2>4
  <2>6. t \ {x} = w /\ v \ {p} = w
    OBVIOUS
  <2>7. Total(f, t) = f[x] + Total(f, w) /\ Total(f, v) = f[p] + Total(f, w)
    BY <2>5, <2>6
  <2>8. Total(f, w) \in Int /\ f[x] \in Int /\ f[p] \in Int
    BY <2>3, FS_Subset, TotalInt
  <2> HIDE DEF p, t, v, w
  <2> QED BY <2>2, <2>3, <2>7, <2>8 DEF v
<1> QED BY <1>1

LEMMA TotalSame ==
  ASSUME NEW f, NEW h, NEW S, IsFiniteSet(S), \A x \in S : f[x] = h[x]
  PROVE  Total(f, S) = Total(h, S)
<1> DEFINE Bad == {s \in SUBSET S : Total(f, s) # Total(h, s)}
<1>1. ASSUME Bad # {} PROVE FALSE
  <2>1. PICK s \in Bad : \A x \in s : s \ {x} \notin Bad
    BY <1>1, FS_Subset, SmallestOf
  <2>2. s # {} /\ IsFiniteSet(s)
    BY TotalEmpty, FS_Subset
  <2>3. Pick(s) \in s
    BY <2>2, PickIn
  <2>4. Total(f, s \ {Pick(s)}) = Total(h, s \ {Pick(s)}) /\ f[Pick(s)] = h[Pick(s)]
    BY <2>1, <2>3
  <2>5. Total(f, s) = f[Pick(s)] + Total(f, s \ {Pick(s)}) /\ Total(h, s) = h[Pick(s)] + Total(h, s \ {Pick(s)})
    BY <2>2, TotalStep
  <2> QED BY <2>4, <2>5
<1> QED BY <1>1

LEMMA TotalOne ==
  ASSUME NEW f, NEW x, f[x] \in Int
  PROVE  Total(f, {x}) = f[x]
<1>1. IsFiniteSet({x}) /\ {x} \ {x} = {}
  BY FS_Singleton
<1> QED BY <1>1, TotalTake, TotalEmpty

LEMMA TotalNought ==
  ASSUME NEW f, NEW S, IsFiniteSet(S), \A x \in S : f[x] = 0
  PROVE  Total(f, S) = 0
<1> DEFINE Bad == {s \in SUBSET S : Total(f, s) # 0}
<1>1. ASSUME Bad # {} PROVE FALSE
  <2>1. PICK s \in Bad : \A x \in s : s \ {x} \notin Bad
    BY <1>1, FS_Subset, SmallestOf
  <2>2. s # {} /\ IsFiniteSet(s)
    BY TotalEmpty, FS_Subset
  <2>3. Pick(s) \in s
    BY <2>2, PickIn
  <2>4. Total(f, s \ {Pick(s)}) = 0 /\ f[Pick(s)] = 0
    BY <2>1, <2>3
  <2> QED BY <2>2, <2>4, TotalStep
<1> QED BY <1>1

LEMMA TotalSplit ==
  ASSUME NEW f, NEW S, NEW T, IsFiniteSet(S), IsFiniteSet(T), S \cap T = {},
         \A x \in S \cup T : f[x] \in Int
  PROVE  Total(f, S \cup T) = Total(f, S) + Total(f, T)
<1> DEFINE Bad == {s \in SUBSET S : Total(f, s \cup T) # Total(f, s) + Total(f, T)}
<1>1. ASSUME Bad # {} PROVE FALSE
  <2>1. PICK s \in Bad : \A x \in s : s \ {x} \notin Bad
    BY <1>1, FS_Subset, SmallestOf
  <2>2. Total(f, T) \in Int
    BY TotalInt
  <2>3. CASE s = {}
    <3>1. Total(f, s \cup T) = Total(f, T) /\ Total(f, s) = 0
      <4>1. s \cup T = T
        BY <2>3
      <4> QED BY <4>1, <2>3, TotalEmpty
    <3>2. Total(f, s \cup T) # Total(f, s) + Total(f, T)
      OBVIOUS
    <3> HIDE DEF Bad
    <3> QED BY <3>1, <3>2, <2>2
  <2>4. CASE s # {}
    <3>1. PICK x \in s : TRUE
      BY <2>4
    <3> DEFINE u == s \ {x}
               w == s \cup T
    <3>2. u \in SUBSET S /\ u \notin Bad
      BY <2>1
    <3>3. IsFiniteSet(s) /\ IsFiniteSet(u) /\ IsFiniteSet(w) /\ w \subseteq S \cup T /\ x \in w
      BY FS_Subset, FS_Union
    <3>4. w \ {x} = u \cup T
      OBVIOUS
    <3>5. Total(f, w) = f[x] + Total(f, u \cup T)
      BY <3>3, <3>4, TotalTake
    <3>6. Total(f, s) = f[x] + Total(f, u)
      BY <3>3, TotalTake
    <3>7. Total(f, u \cup T) = Total(f, u) + Total(f, T)
      BY <3>2
    <3>8. Total(f, u) \in Int /\ f[x] \in Int
      BY <3>3, TotalInt
    <3>9. Total(f, w) # Total(f, s) + Total(f, T)
      OBVIOUS
    <3> HIDE DEF u, w
    <3> QED BY <2>2, <3>5, <3>6, <3>7, <3>8, <3>9
  <2> QED BY <2>3, <2>4
<1>2. S \notin Bad
  BY <1>1
<1> QED BY <1>2

(* What is zero does not count.                                            *)
LEMMA TotalWhere ==
  ASSUME NEW f, NEW S, IsFiniteSet(S), NEW T \in SUBSET S,
         \A x \in S : f[x] \in Int, \A x \in S \ T : f[x] = 0
  PROVE  Total(f, S) = Total(f, T)
<1> DEFINE U == S \ T
<1>1. IsFiniteSet(T) /\ IsFiniteSet(U) /\ T \cap U = {} /\ T \cup U = S
  BY FS_Subset
<1>2. \A x \in U : f[x] = 0
  OBVIOUS
<1> HIDE DEF U
<1>3. Total(f, S) = Total(f, T) + Total(f, U)
  <2>1. Total(f, T \cup U) = Total(f, T) + Total(f, U)
    BY <1>1, TotalSplit
  <2> QED BY <1>1, <2>1
<1>4. Total(f, U) = 0 /\ Total(f, T) \in Int
  BY <1>1, <1>2, TotalNought, TotalInt
<1> QED BY <1>3, <1>4

(* Of two that differ in one place.                                        *)
LEMMA TotalMore ==
  ASSUME NEW f, NEW h, NEW S, IsFiniteSet(S), NEW y \in S, NEW d \in Int,
         \A x \in S : f[x] \in Int /\ h[x] \in Int,
         h[y] = f[y] + d, \A x \in S \ {y} : h[x] = f[x]
  PROVE  Total(h, S) = Total(f, S) + d
<1>1. Total(f, S) = f[y] + Total(f, S \ {y}) /\ Total(h, S) = h[y] + Total(h, S \ {y})
  BY TotalTake
<1>2. IsFiniteSet(S \ {y})
  BY FS_Subset
<1>3. Total(f, S \ {y}) = Total(h, S \ {y}) /\ Total(f, S \ {y}) \in Int
  BY <1>2, TotalSame, TotalInt
<1> QED BY <1>1, <1>3

(* A sum is that of the sums over the fibres of a map.                     *)
LEMMA TotalFibres ==
  ASSUME NEW f, NEW S, NEW T, IsFiniteSet(S), IsFiniteSet(T), NEW to \in [S -> T],
         \A x \in S : f[x] \in Int
  PROVE  Total(f, S) = Total([t \in T |-> Total(f, {x \in S : to[x] = t})], T)
<1> DEFINE Over(s) == [t \in T |-> Total(f, {x \in s : to[x] = t})]
           Bad == {s \in SUBSET S : Total(f, s) # Total(Over(s), T)}
<1>1. ASSUME Bad # {} PROVE FALSE
  <2>1. PICK s \in Bad : \A x \in s : s \ {x} \notin Bad
    BY <1>1, FS_Subset, SmallestOf
  <2>2. IsFiniteSet(s) /\ s \in SUBSET S
    BY FS_Subset
  <2>3. CASE s = {}
    <3>1. ASSUME NEW t \in T PROVE Over(s)[t] = 0
      <4>1. {x \in s : to[x] = t} = {}
        BY <2>3
      <4> QED BY <4>1, TotalEmpty
    <3> HIDE DEF Over
    <3>2. Total(Over(s), T) = 0
      BY <3>1, TotalNought
    <3> QED BY <2>3, <3>2, TotalEmpty
  <2>4. CASE s # {}
    <3>1. PICK y \in s : TRUE
      BY <2>4
    <3> DEFINE u == s \ {y}
               b == to[y]
    <3>2. ASSUME NEW r \in SUBSET S, NEW t \in T
          PROVE  Over(r)[t] = Total(f, {x \in r : to[x] = t}) /\ Over(r)[t] \in Int
      <4>1. IsFiniteSet({x \in r : to[x] = t}) /\ {x \in r : to[x] = t} \in SUBSET S
        BY FS_Subset
      <4> QED BY <4>1, TotalInt
    <3>3. b \in T /\ f[y] \in Int /\ u \in SUBSET S
      OBVIOUS
    <3>4. Over(s)[b] = Over(u)[b] + f[y]
      <4> DEFINE m == {x \in s : to[x] = b}
      <4>1. IsFiniteSet(m) /\ y \in m /\ m \in SUBSET S
        BY <2>2, FS_Subset
      <4>2. m \ {y} = {x \in u : to[x] = b}
        OBVIOUS
      <4>3. Total(f, m) = f[y] + Total(f, m \ {y})
        BY <4>1, TotalTake
      <4>4. Over(u)[b] = Total(f, m \ {y}) /\ Over(s)[b] = Total(f, m) /\ Over(u)[b] \in Int
        BY <4>2, <3>2, <3>3, <2>2
      <4> HIDE DEF Over, m
      <4> QED BY <4>3, <4>4, <3>3
    <3>5. ASSUME NEW t \in T \ {b} PROVE Over(s)[t] = Over(u)[t]
      <4>1. {x \in s : to[x] = t} = {x \in u : to[x] = t}
        OBVIOUS
      <4> QED BY <4>1, <3>2, <3>3, <2>2
    <3>6. \A t \in T : Over(s)[t] \in Int /\ Over(u)[t] \in Int
      BY <3>2, <3>3, <2>2
    <3>7. u \notin Bad /\ s \in Bad
      BY <2>1
    <3>8. Total(f, s) = f[y] + Total(f, u)
      BY <2>2, TotalTake
    <3> HIDE DEF Over
    <3>9. Total(Over(s), T) = Total(Over(u), T) + f[y]
      <4> HIDE DEF b, u
      <4> QED BY <3>3, <3>4, <3>5, <3>6, TotalMore
    <3>10. Total(f, u) = Total(Over(u), T) /\ Total(f, s) # Total(Over(s), T)
      BY <3>7, <3>3, <2>2
    <3>11. Total(f, u) \in Int
      <4>1. IsFiniteSet(u)
        BY <3>3, FS_Subset
      <4> QED BY <4>1, <3>3, TotalInt
    <3> HIDE DEF u
    <3> QED BY <3>3, <3>8, <3>9, <3>10, <3>11
  <2> QED BY <2>3, <2>4
<1>2. S \notin Bad
  BY <1>1
<1> QED BY <1>2

(* And of what is renamed, one for one.                                    *)
LEMMA TotalOnto ==
  ASSUME NEW f, NEW g, NEW S, NEW T, IsFiniteSet(S), IsFiniteSet(T), NEW to \in [S -> T],
         \A t \in T : \E x \in S : to[x] = t,
         \A x, y \in S : to[x] = to[y] => x = y,
         \A x \in S : f[x] \in Int /\ f[x] = g[to[x]]
  PROVE  Total(f, S) = Total(g, T)
<1> DEFINE h == [t \in T |-> Total(f, {x \in S : to[x] = t})]
<1>1. ASSUME NEW t \in T PROVE h[t] = g[t]
  <2>1. PICK x \in S : to[x] = t
    OBVIOUS
  <2>2. {z \in S : to[z] = t} = {x}
    BY <2>1
  <2>3. Total(f, {x}) = f[x]
    BY TotalOne
  <2> QED BY <2>1, <2>2, <2>3
<1>2. Total(f, S) = Total(h, T)
  BY TotalFibres
<1> HIDE DEF h
<1> QED BY <1>1, <1>2, TotalSame

-----------------------------------------------------------------------------
(* Orders: what InOrder chooses, of a relation given as a set of pairs *)

StrictTotal(R, S) ==
  /\ \A x \in S : <<x, x>> \notin R
  /\ \A x, y, z \in S : <<x, y>> \in R /\ <<y, z>> \in R => <<x, z>> \in R
  /\ \A x, y \in S : x = y \/ <<x, y>> \in R \/ <<y, x>> \in R

Lists(s, R, S) ==
  /\ s \in [1..Cardinality(S) -> S]
  /\ \A i, j \in 1..Cardinality(S) : i < j => <<s[i], s[j]>> \in R

LEMMA StrictBelow ==
  ASSUME NEW S, NEW R, StrictTotal(R, S), NEW T \in SUBSET S
  PROVE  StrictTotal(R, T)
<1>1. \A x \in T : x \in S
  OBVIOUS
<1> QED BY <1>1 DEF StrictTotal

(* A finite set has a last member.                                         *)
LEMMA LastUnder ==
  ASSUME NEW S, IsFiniteSet(S), S # {}, NEW R, StrictTotal(R, S)
  PROVE  \E m \in S : \A x \in S \ {m} : <<x, m>> \in R
<1> DEFINE Bad == {s \in SUBSET S : s # {} /\ ~ \E m \in s : \A x \in s \ {m} : <<x, m>> \in R}
<1>1. ASSUME Bad # {} PROVE FALSE
  <2>1. PICK s \in Bad : \A x \in s : s \ {x} \notin Bad
    BY <1>1, FS_Subset, SmallestOf
  <2>2. PICK y \in s : TRUE
    OBVIOUS
  <2>3. CASE s \ {y} = {}
    BY <2>2, <2>3
  <2>4. CASE s \ {y} # {}
    <3>1. PICK m \in s \ {y} : \A x \in (s \ {y}) \ {m} : <<x, m>> \in R
      BY <2>1, <2>2, <2>4
    <3>2. CASE <<y, m>> \in R
      <4>1. \A x \in s \ {m} : <<x, m>> \in R
        BY <3>1, <3>2
      <4> QED BY <3>1, <4>1
    <3>3. CASE <<m, y>> \in R
      <4>1. ASSUME NEW x \in s \ {y} PROVE <<x, y>> \in R
        <5>1. x = m \/ <<x, m>> \in R
          BY <3>1
        <5>2. x \in S /\ y \in S /\ m \in S
          OBVIOUS
        <5> QED BY <5>1, <5>2, <3>3 DEF StrictTotal
      <4> QED BY <4>1, <2>2
    <3> QED BY <3>2, <3>3 DEF StrictTotal
  <2> QED BY <2>3, <2>4
<1> QED BY <1>1

LEMMA ListsAll ==
  ASSUME NEW S, IsFiniteSet(S), NEW R, StrictTotal(R, S), NEW s, Lists(s, R, S)
  PROVE  /\ \A i, j \in 1..Cardinality(S) : s[i] = s[j] => i = j
         /\ \A x \in S : \E i \in 1..Cardinality(S) : s[i] = x
<1> DEFINE n == Cardinality(S)
<1>1. n \in Nat /\ IsFiniteSet(1..n) /\ Cardinality(1..n) = n
  BY FS_CardinalityType, FS_Interval
<1>2. ASSUME NEW i \in 1..n, NEW j \in 1..n, s[i] = s[j] PROVE i = j
  <2>1. s[i] \in S /\ <<s[i], s[i]>> \notin R
    BY DEF Lists, StrictTotal
  <2>2. ~(i < j) /\ ~(j < i)
    BY <2>1, <1>2 DEF Lists
  <2> QED BY <1>1, <2>2
<1>3. s \in Injection(1..n, S)
  <2>1. s \in [1..n -> S]
    BY DEF Lists
  <2> QED BY <2>1, <1>2 DEF Injection, IsInjective
<1>4. s \in Surjection(1..n, S)
  BY <1>1, <1>3, FS_Injection
<1>5. \A x \in S : \E i \in 1..n : s[i] = x
  BY <1>4 DEF Surjection
<1> QED BY <1>2, <1>5

(* Every finite set can be put in order.                                   *)
LEMMA ListExists ==
  ASSUME NEW S, IsFiniteSet(S), NEW R, StrictTotal(R, S)
  PROVE  \E s : Lists(s, R, S)
<1> DEFINE Bad == {t \in SUBSET S : ~ \E s : Lists(s, R, t)}
<1>1. ASSUME Bad # {} PROVE FALSE
  <2>1. PICK t \in Bad : \A x \in t : t \ {x} \notin Bad
    BY <1>1, FS_Subset, SmallestOf
  <2>2. IsFiniteSet(t) /\ StrictTotal(R, t)
    BY FS_Subset, StrictBelow
  <2>3. CASE t = {}
    <3>1. Cardinality(t) = 0
      BY <2>3, FS_EmptySet
    <3>2. 1..0 = {}
      OBVIOUS
    <3>3. Lists([i \in 1..0 |-> 0], R, t)
      BY <3>1, <3>2 DEF Lists
    <3> QED BY <3>3
  <2>4. CASE t # {}
    <3>1. PICK m \in t : \A x \in t \ {m} : <<x, m>> \in R
      BY <2>2, <2>4, LastUnder
    <3> DEFINE u == t \ {m}
               n == Cardinality(u)
    <3>2. u \notin Bad /\ u \in SUBSET S
      BY <2>1
    <3>3. PICK s : Lists(s, R, u)
      BY <3>2
    <3>4. IsFiniteSet(u) /\ n \in Nat
      BY <2>2, FS_Subset, FS_CardinalityType
    <3>5. Cardinality(t) = n + 1
      <4>1. Cardinality(u) = Cardinality(t) - 1 /\ Cardinality(t) \in Nat
        BY <2>2, FS_RemoveElement, FS_CardinalityType
      <4> QED BY <4>1
    <3> DEFINE v == [i \in 1..(n + 1) |-> IF i = n + 1 THEN m ELSE s[i]]
    <3>6. ASSUME NEW i \in 1..(n + 1), i # n + 1 PROVE i \in 1..n /\ v[i] = s[i] /\ s[i] \in u
      <4>1. i \in 1..n
        BY <3>4, <3>6
      <4> QED BY <4>1, <3>6, <3>3 DEF Lists
    <3>7. v[n + 1] = m
      BY <3>4
    <3>8. v \in [1..(n + 1) -> t]
      BY <3>6
    <3>9. ASSUME NEW i \in 1..(n + 1), NEW j \in 1..(n + 1), i < j PROVE <<v[i], v[j]>> \in R
      <4>1. i # n + 1
        BY <3>4, <3>9
      <4>2. CASE j = n + 1
        BY <4>1, <4>2, <3>6, <3>7, <3>1
      <4>3. CASE j # n + 1
        <5>1. i \in 1..n /\ j \in 1..n /\ v[i] = s[i] /\ v[j] = s[j]
          BY <4>1, <4>3, <3>6
        <5> QED BY <5>1, <3>9, <3>3 DEF Lists
      <4> QED BY <4>2, <4>3
    <3> HIDE DEF v
    <3>10. Lists(v, R, t)
      BY <3>5, <3>8, <3>9 DEF Lists
    <3> QED BY <3>10
  <2> QED BY <2>3, <2>4
<1>2. S \notin Bad
  BY <1>1
<1> QED BY <1>2

(* What stands last comes after all the others.                            *)
LEMMA ListsLast ==
  ASSUME NEW S, IsFiniteSet(S), S # {}, NEW R, StrictTotal(R, S), NEW s, Lists(s, R, S)
  PROVE  /\ Cardinality(S) \in Nat \ {0} /\ s[Cardinality(S)] \in S
         /\ \A x \in S : x = s[Cardinality(S)] \/ <<x, s[Cardinality(S)]>> \in R
<1> DEFINE n == Cardinality(S)
<1>1. n \in Nat \ {0}
  BY FS_CardinalityType, FS_EmptySet
<1>2. n \in 1..n
  BY <1>1
<1>3. s[n] \in S
  BY <1>2 DEF Lists
<1>4. ASSUME NEW x \in S PROVE x = s[n] \/ <<x, s[n]>> \in R
  <2>1. PICK i \in 1..n : s[i] = x
    BY ListsAll
  <2>2. i = n \/ i < n
    BY <1>1
  <2> QED BY <2>1, <2>2, <1>2 DEF Lists
<1> QED BY <1>1, <1>3, <1>4

LEMMA TotalPlus ==
  ASSUME NEW f, NEW g, NEW S, IsFiniteSet(S), \A x \in S : f[x] \in Int /\ g[x] \in Int
  PROVE  Total([x \in S |-> f[x] + g[x]], S) = Total(f, S) + Total(g, S)
<1> DEFINE h == [x \in S |-> f[x] + g[x]]
           Bad == {s \in SUBSET S : Total(h, s) # Total(f, s) + Total(g, s)}
<1>1. ASSUME Bad # {} PROVE FALSE
  <2>1. PICK s \in Bad : \A x \in s : s \ {x} \notin Bad
    BY <1>1, FS_Subset, SmallestOf
  <2>2. CASE s = {}
    <3>1. Total(h, s) = 0 /\ Total(f, s) = 0 /\ Total(g, s) = 0
      BY <2>2, TotalEmpty
    <3>2. Total(h, s) # Total(f, s) + Total(g, s)
      OBVIOUS
    <3> HIDE DEF h
    <3> QED BY <3>1, <3>2
  <2>3. CASE s # {}
    <3> DEFINE x == Pick(s)
               t == s \ {x}
    <3>1. x \in s /\ x \in S /\ IsFiniteSet(s) /\ IsFiniteSet(t) /\ t \in SUBSET S
      BY <2>3, PickIn, FS_Subset
    <3>2. t \notin Bad
      BY <2>1, <3>1
    <3>3. h[x] = f[x] + g[x] /\ f[x] \in Int /\ g[x] \in Int
      BY <3>1
    <3>4. Total(h, s) # Total(f, s) + Total(g, s) /\ Total(h, t) = Total(f, t) + Total(g, t)
      BY <3>1, <3>2
    <3> HIDE DEF h
    <3>5. Total(h, s) = h[x] + Total(h, t) /\ Total(f, s) = f[x] + Total(f, t) /\ Total(g, s) = g[x] + Total(g, t)
      BY <2>3, <3>1, TotalStep
    <3>6. Total(f, t) \in Int /\ Total(g, t) \in Int
      BY <3>1, TotalInt
    <3> HIDE DEF x, t
    <3> QED BY <3>3, <3>4, <3>5, <3>6
  <2> QED BY <2>2, <2>3
<1>2. S \notin Bad
  BY <1>1
<1> QED BY <1>2

(* The image of a finite set is finite.                                    *)
LEMMA ImageFinite ==
  ASSUME NEW S, IsFiniteSet(S), NEW f
  PROVE  IsFiniteSet({f[x] : x \in S})
<1> DEFINE T == {f[x] : x \in S}
           g == [x \in S |-> f[x]]
<1>1. g \in Surjection(S, T)
  <2>1. g \in [S -> T]
    OBVIOUS
  <2>2. \A t \in T : \E x \in S : g[x] = t
    OBVIOUS
  <2> QED BY <2>1, <2>2 DEF Surjection
<1> HIDE DEF T, g
<1>2. IsFiniteSet(T)
  BY <1>1, FS_Surjection
<1> QED BY <1>2 DEF T

-----------------------------------------------------------------------------
(* Prices: what the decay curve guarantees for every admissible curve and   *)
(* count.                                                                  *)

(* Division as the recalculation uses it: exact on a multiple, and monotone. *)
LEMMA DivOfProduct ==
  ASSUME NEW a \in Int, NEW b \in Int, b > 0
  PROVE  (a * b) \div b = a
  BY Z3

LEMMA DivBounds ==
  ASSUME NEW a \in Int, NEW b \in Int, b > 0
  PROVE  /\ a \div b \in Int
         /\ (a \div b) * b <= a
         /\ a < (a \div b) * b + b
  BY Z3

LEMMA SquarePositive ==
  ASSUME NEW d \in Int, d >= 1
  PROVE  d * d \in Int /\ d * d >= 1
  BY Z3

(* The recalculated price is a natural number, never below the floor: the  *)
(* int column can hold it and no challenge pays a negative price.          *)
THEOREM RecalcIsNatural ==
  ASSUME NEW c \in Curves, Decays(c.function), NEW n \in Nat
  PROVE  RecalcValue(c, n) \in Nat /\ RecalcValue(c, n) >= c.minimum
<1> DEFINE m == AtMost(c.decay, BeyondFirst(n))
<1>1. /\ c.initial \in Int /\ c.minimum \in Int /\ c.decay \in Int
      /\ c.minimum >= 0 /\ c.decay >= 1
  BY DEF Curves, Validate
<1>2. BeyondFirst(n) \in Nat /\ m \in Nat
  BY <1>1 DEF BeyondFirst, AtLeast, AtMost
<1>3. c.decay * c.decay \in Int /\ c.decay * c.decay >= 1
  BY <1>1, SquarePositive
<1> DEFINE drop == ((c.initial - c.minimum) * m * m) \div (c.decay * c.decay)
<1>4. (c.initial - c.minimum) * m * m \in Int
  BY <1>1, <1>2
<1>5. drop \in Int
  <2> HIDE DEF m
  <2> QED BY <1>3, <1>4, DivBounds
<1>6. c.decay * BeyondFirst(n) \in Int
  BY <1>1, <1>2
<1> DEFINE v == IF c.function = "linear" THEN c.initial - c.decay * BeyondFirst(n)
                ELSE c.initial - drop
<1>7. v \in Int
  <2> HIDE DEF drop
  <2> QED BY <1>1, <1>5, <1>6
<1>8. RecalcValue(c, n) = AtLeast(c.minimum, v)
  BY DEF RecalcValue
<1> HIDE DEF v
<1> QED BY <1>1, <1>7, <1>8 DEF AtLeast

(* ValueAt and RecalcChallengeValue agree on every admissible curve and    *)
(* every solve count: the early return past the knee and the clamp at it   *)
(* give the same floor, and the two divisions are the same division.       *)
THEOREM EnginesAlwaysAgree ==
  ASSUME NEW c \in Curves, NEW n \in Nat
  PROVE  EnginesAgree(c, n)
<1> SUFFICES ASSUME Decays(c.function)
             PROVE  ValueAt(c, n) = RecalcValue(c, n)
  BY DEF EnginesAgree
<1>1. /\ c.initial \in Int /\ c.minimum \in Int /\ c.decay \in Int
      /\ c.minimum >= 0 /\ c.minimum <= c.initial /\ c.decay >= 1
      /\ c.function = "linear" \/ c.function = "logarithmic"
  BY DEF Curves, Validate, Decays, DecayFunctions
<1>2. BeyondFirst(n) \in Nat
  BY DEF BeyondFirst, AtLeast
<1>3. CASE c.function = "linear"
  BY <1>3 DEF ValueAt, RecalcValue
<1>4. CASE c.function = "logarithmic" /\ BeyondFirst(n) < c.decay
  <2>1. AtMost(c.decay, BeyondFirst(n)) = BeyondFirst(n)
    BY <1>1, <1>2, <1>4 DEF AtMost
  <2>2. ~(c.decay <= 0 \/ BeyondFirst(n) >= c.decay)
    BY <1>1, <1>2, <1>4
  <2> QED BY <1>4, <2>1, <2>2 DEF ValueAt, RecalcValue
<1>5. CASE c.function = "logarithmic" /\ BeyondFirst(n) >= c.decay
  <2>1. AtMost(c.decay, BeyondFirst(n)) = c.decay
    BY <1>1, <1>2, <1>5 DEF AtMost
  <2> DEFINE span == c.initial - c.minimum
             square == c.decay * c.decay
  <2>2. span \in Int /\ square \in Int /\ square > 0
    BY <1>1, SquarePositive
  <2>3. span * c.decay * c.decay = span * square
    BY <1>1
  <2>4. (span * square) \div square = span
    <3> HIDE DEF span, square
    <3> QED BY <2>2, DivOfProduct
  <2>5. RecalcValue(c, n) = AtLeast(c.minimum, c.initial - span)
    BY <1>5, <2>1, <2>3, <2>4 DEF RecalcValue
  <2>6. AtLeast(c.minimum, c.initial - span) = c.minimum
    BY <1>1 DEF AtLeast
  <2>7. ValueAt(c, n) = c.minimum
    BY <1>5 DEF ValueAt
  <2> QED BY <2>5, <2>6, <2>7
<1> QED BY <1>1, <1>2, <1>3, <1>4, <1>5

LEMMA DivMonotone ==
  ASSUME NEW a \in Int, NEW a2 \in Int, NEW b \in Int, b > 0, a <= a2
  PROVE  a \div b <= a2 \div b
  BY Z3

LEMMA ProductMonotone ==
  ASSUME NEW k \in Int, k >= 0, NEW x \in Nat, NEW y \in Nat, x <= y
  PROVE  /\ k * x \in Int /\ k * y \in Int
         /\ k * x <= k * y
         /\ k * x * x \in Int /\ k * y * y \in Int
         /\ k * x * x <= k * y * y
  BY Z3

(* One more solve never raises the price (the SET of RecalcChallengeValue): *)
(* an earlier solver is never paid less than a later one.                  *)
THEOREM PriceNeverRises ==
  ASSUME NEW c \in Curves, Decays(c.function), NEW n \in Nat, NEW k \in Nat, n <= k
  PROVE  RecalcValue(c, k) <= RecalcValue(c, n)
<1> DEFINE x == AtMost(c.decay, BeyondFirst(n))
           y == AtMost(c.decay, BeyondFirst(k))
           span == c.initial - c.minimum
           square == c.decay * c.decay
<1>1. /\ c.initial \in Int /\ c.minimum \in Int /\ c.decay \in Int
      /\ c.minimum >= 0 /\ c.minimum <= c.initial /\ c.decay >= 1
  BY DEF Curves, Validate
<1>2. /\ BeyondFirst(n) \in Nat /\ BeyondFirst(k) \in Nat
      /\ BeyondFirst(n) <= BeyondFirst(k)
      /\ x \in Nat /\ y \in Nat /\ x <= y
  BY <1>1 DEF BeyondFirst, AtLeast, AtMost
<1>3. span \in Int /\ span >= 0 /\ square \in Int /\ square > 0
  BY <1>1, SquarePositive
<1>4. /\ c.decay * BeyondFirst(n) \in Int /\ c.decay * BeyondFirst(k) \in Int
      /\ c.decay * BeyondFirst(n) <= c.decay * BeyondFirst(k)
  BY <1>1, <1>2, ProductMonotone
<1>5. CASE c.function = "linear"
  <2>1. /\ RecalcValue(c, n) = AtLeast(c.minimum, c.initial - c.decay * BeyondFirst(n))
        /\ RecalcValue(c, k) = AtLeast(c.minimum, c.initial - c.decay * BeyondFirst(k))
    BY <1>5 DEF RecalcValue
  <2> QED BY <1>1, <1>4, <2>1 DEF AtLeast
<1>6. CASE c.function # "linear"
  <2> DEFINE dx == (span * x * x) \div square
             dy == (span * y * y) \div square
  <2>1. /\ dx \in Int /\ dy \in Int /\ dx <= dy
    <3> HIDE DEF x, y, span, square
    <3>1. /\ span * x * x \in Int /\ span * y * y \in Int
          /\ span * x * x <= span * y * y
      BY <1>2, <1>3, ProductMonotone
    <3> QED BY <1>3, <3>1, DivMonotone, DivBounds
  <2>2. /\ RecalcValue(c, n) = AtLeast(c.minimum, c.initial - dx)
        /\ RecalcValue(c, k) = AtLeast(c.minimum, c.initial - dy)
    BY <1>6 DEF RecalcValue
  <2> HIDE DEF dx, dy
  <2> QED BY <1>1, <2>1, <2>2 DEF AtLeast
<1> QED BY <1>5, <1>6
=============================================================================
