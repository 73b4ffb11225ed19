---------------------------- MODULE FixturesProofs ----------------------------
(***************************************************************************)
(* Lemmas about the operators of Fixtures.                                 *)
(***************************************************************************)
EXTENDS Fixtures, FiniteSetTheorems, SequenceTheorems, WellFoundedInduction, TLAPS

-----------------------------------------------------------------------------
(* Numbers *)

\* Every set of natural numbers has a least one.
LEMMA Least ==
    ASSUME NEW S \in SUBSET Nat, S # {}
    PROVE  \E m \in S : \A k \in S : m <= k
<1>1. PICK m \in S : \A k \in S : << k, m >> \notin OpToRel(<, Nat)
  BY WFMin, NatLessThanWellFounded
<1>2. ASSUME NEW k \in S
      PROVE  m <= k
  <2>1. ~ (k < m)
    BY <1>1 DEF OpToRel
  <2> QED
    BY <2>1
<1> QED
  BY <1>1, <1>2

\* A least number of a set is in it and below the others.
LEMMA MinIsLeast ==
    ASSUME NEW S \in SUBSET Nat, S # {}
    PROVE  Min(S) \in S /\ \A k \in S : Min(S) <= k
BY Least DEF Min

\* A set with a bound has a greatest number.
LEMMA MaxIsGreatest ==
    ASSUME NEW S \in SUBSET Nat, NEW b \in Nat, S # {}, \A k \in S : k <= b
    PROVE  Max(S) \in S /\ \A k \in S : k <= Max(S)
<1> DEFINE room == {b - k : k \in S}
<1>0. \A k \in S : k \in Nat /\ b - k \in Nat
  OBVIOUS
<1>1. room \in SUBSET Nat /\ room # {}
  BY <1>0
<1>2. PICK m \in room : \A r \in room : m <= r
  BY <1>1, Least
<1>3. PICK x \in S : m = b - x
  BY <1>2
<1>4. \A k \in S : k <= x
  BY <1>2, <1>3
<1> QED
  BY <1>3, <1>4 DEF Max

-----------------------------------------------------------------------------
(* Ranks *)

\* Pairs of ranks and values, for every member of a set.
RankedBy(ranked, K, rank, value) ==
    \A x : x \in ranked <=> \E u \in K : x = << rank[u], value[u] >>

\* A bijection of ranks puts a set in order.
LEMMA OrderedRanks ==
    ASSUME NEW K, IsFiniteSet(K), NEW rank \in Bijection(K, 1 .. Cardinality(K)),
           NEW V, NEW value \in Injection(K, V),
           NEW ranked, RankedBy(ranked, K, rank, value)
    PROVE  /\ Ordered(ranked) \in [1 .. Cardinality(K) -> V]
           /\ \A u \in K : Ordered(ranked)[rank[u]] = value[u]
<1> DEFINE pair == [u \in K |-> << rank[u], value[u] >>]
           n == Cardinality(K)
<1>0. \A x : x \in ranked <=> \E u \in K : x = << rank[u], value[u] >>
  BY DEF RankedBy
<1>1. /\ rank \in [K -> 1 .. n]
      /\ \A u, v \in K : rank[u] = rank[v] => u = v
      /\ \A i \in 1 .. n : \E u \in K : rank[u] = i
  BY DEF Bijection, Injection, Surjection, IsInjective
<1>v. value \in [K -> V]
  BY DEF Injection
<1>2. Cardinality(ranked) = n
  <2>1. pair \in [K -> ranked]
    BY <1>0
  <2>2. \A u, v \in K : pair[u] = pair[v] => u = v
    BY <1>1
  <2>3. \A x \in ranked : \E u \in K : pair[u] = x
    BY <1>0
  <2> HIDE DEF pair
  <2>4. pair \in Bijection(K, ranked)
    BY <2>1, <2>2, <2>3 DEF Bijection, Injection, Surjection, IsInjective
  <2> QED
    BY <2>4, FS_Bijection DEF ExistsBijection
<1> DEFINE c(u) == CHOOSE x \in ranked : x[1] = rank[u]
<1>3. ASSUME NEW u \in K
      PROVE  c(u) = << rank[u], value[u] >>
  <2>1. << rank[u], value[u] >> \in ranked
    BY <1>0
  <2>2. \A x \in ranked : x[1] = rank[u] => x = << rank[u], value[u] >>
    BY <1>0, <1>1
  <2> QED
    BY <2>1, <2>2
<1>4. ASSUME NEW u \in K
      PROVE  Ordered(ranked)[rank[u]] = value[u]
  <2>1. rank[u] \in 1 .. Cardinality(ranked)
    BY <1>1, <1>2
  <2>2. Ordered(ranked)[rank[u]] = c(u)[2]
    BY <2>1 DEF Ordered
  <2>3. c(u) = << rank[u], value[u] >>
    BY <1>3
  <2> HIDE DEF c
  <2> QED
    BY <2>2, <2>3
<1>5. Ordered(ranked) = [i \in 1 .. n |-> Ordered(ranked)[i]]
  BY <1>2 DEF Ordered
<1>6. ASSUME NEW i \in 1 .. n
      PROVE  Ordered(ranked)[i] \in V
  <2>1. PICK u \in K : rank[u] = i
    BY <1>1
  <2> QED
    BY <1>v, <1>4, <2>1
<1> HIDE DEF n
<1>7. Ordered(ranked) \in [1 .. n -> V]
  BY <1>5, <1>6
<1> QED
  BY <1>4, <1>7 DEF n

\* In a linear order the number of elements up to one of them is its rank.
LEMMA RankIsBijection ==
    ASSUME NEW K, IsFiniteSet(K), NEW upTo \in [K -> SUBSET K],
           \A u \in K : u \in upTo[u],
           \A u, v \in K : u \in upTo[v] \/ v \in upTo[u],
           \A u, v \in K : (u \in upTo[v] /\ v \in upTo[u]) => u = v,
           \A u, v \in K : u \in upTo[v] => upTo[u] \subseteq upTo[v]
    PROVE  LET rank == [u \in K |-> Cardinality(upTo[u])]
           IN  /\ rank \in Bijection(K, 1 .. Cardinality(K))
               /\ \A u, v \in K : u \in upTo[v] <=> rank[u] <= rank[v]
<1> DEFINE rank == [u \in K |-> Cardinality(upTo[u])]
           n == Cardinality(K)
<1>1. n \in Nat
  BY FS_CardinalityType
<1>2. ASSUME NEW u \in K
      PROVE  /\ IsFiniteSet(upTo[u])
             /\ Cardinality(upTo[u]) \in 1 .. n
  <2>1. upTo[u] \in SUBSET K
    OBVIOUS
  <2>2. IsFiniteSet(upTo[u]) /\ Cardinality(upTo[u]) <= n
    BY <2>1, FS_Subset
  <2>3. Cardinality(upTo[u]) \in Nat /\ Cardinality(upTo[u]) # 0
    BY <2>2, FS_CardinalityType, FS_EmptySet
  <2> QED
    BY <1>1, <2>2, <2>3
<1>3. ASSUME NEW u \in K, NEW v \in K, u \in upTo[v], u # v
      PROVE  Cardinality(upTo[u]) < Cardinality(upTo[v])
  <2>1. upTo[u] \in SUBSET upTo[v] /\ upTo[u] # upTo[v]
    BY <1>3
  <2>2. /\ Cardinality(upTo[u]) <= Cardinality(upTo[v])
        /\ Cardinality(upTo[u]) # Cardinality(upTo[v])
    BY <1>2, <2>1, FS_Subset
  <2> QED
    BY <1>1, <1>2, <2>2
<1>4. rank \in Injection(K, 1 .. n)
  <2>1. rank \in [K -> 1 .. n]
    BY <1>2
  <2>2. ASSUME NEW u \in K, NEW v \in K, rank[u] = rank[v], u # v
        PROVE  FALSE
    <3>1. Cardinality(upTo[u]) < Cardinality(upTo[v]) \/ Cardinality(upTo[v]) < Cardinality(upTo[u])
      BY <1>3, <2>2
    <3> QED
      BY <1>1, <1>2, <2>2, <3>1
  <2> QED
    BY <2>1, <2>2 DEF Injection, IsInjective
<1>5. IsFiniteSet(1 .. n) /\ Cardinality(1 .. n) = n
  BY <1>1, FS_Interval
<1>6. rank \in Bijection(K, 1 .. n)
  BY <1>4, <1>5, FS_Injection DEF Bijection
<1>7. ASSUME NEW u \in K, NEW v \in K
      PROVE  u \in upTo[v] <=> rank[u] <= rank[v]
  <2>1. rank[u] = Cardinality(upTo[u]) /\ rank[v] = Cardinality(upTo[v])
    OBVIOUS
  <2>2. u \in upTo[v] /\ u # v => rank[u] < rank[v]
    BY <1>3, <2>1
  <2>3. v \in upTo[u] /\ u # v => rank[v] < rank[u]
    BY <1>3, <2>1
  <2>4. rank[u] \in Nat /\ rank[v] \in Nat
    BY <1>1, <1>2, <2>1
  <2> HIDE DEF rank
  <2>5. CASE u = v
    BY <2>4, <2>5
  <2>6. CASE u # v
    BY <2>2, <2>3, <2>4, <2>6
  <2> QED
    BY <2>5, <2>6
<1> QED
  BY <1>6, <1>7

\* The order of primary keys: increasing, and each key once.
LEMMA InOrderIncreases ==
    ASSUME NEW keys \in SUBSET Nat, IsFiniteSet(keys)
    PROVE  /\ Cardinality(keys) \in Nat
           /\ InOrder(keys) \in [1 .. Cardinality(keys) -> keys]
           /\ \A k \in keys : \E i \in 1 .. Cardinality(keys) : InOrder(keys)[i] = k
           /\ \A i, j \in 1 .. Cardinality(keys) :
                 i < j => InOrder(keys)[i] < InOrder(keys)[j]
           /\ \A k \in keys : InOrder(keys)[Cardinality({j \in keys : j <= k})] = k
<1> DEFINE upTo == [k \in keys |-> {j \in keys : j <= k}]
           rank == [k \in keys |-> Cardinality(upTo[k])]
           id == [k \in keys |-> k]
           n == Cardinality(keys)
           ranked == {<< Cardinality({j \in keys : j <= k}), k >> : k \in keys}
           s == Ordered(ranked)
<1>1. upTo \in [keys -> SUBSET keys]
  OBVIOUS
<1>2. keys \subseteq Nat
  OBVIOUS
<1>3. \A k \in keys : upTo[k] = {j \in keys : j <= k}
  OBVIOUS
<1>4. \A k \in keys : rank[k] = Cardinality({j \in keys : j <= k})
  OBVIOUS
<1>5. RankedBy(ranked, keys, rank, id)
  BY <1>4 DEF RankedBy
<1>6. InOrder(keys) = s
  BY DEF InOrder
<1> HIDE DEF upTo
<1>7. \A u, v \in keys : u \in upTo[v] <=> u <= v
  BY <1>3
<1>8. /\ \A u \in keys : u \in upTo[u]
      /\ \A u, v \in keys : u \in upTo[v] \/ v \in upTo[u]
      /\ \A u, v \in keys : (u \in upTo[v] /\ v \in upTo[u]) => u = v
  BY <1>2, <1>7
<1>9. \A u, v \in keys : u \in upTo[v] => upTo[u] \subseteq upTo[v]
  <2> SUFFICES ASSUME NEW u \in keys, NEW v \in keys, u \in upTo[v], NEW j \in upTo[u]
               PROVE  j \in upTo[v]
    OBVIOUS
  <2>1. j \in keys /\ j <= u /\ u <= v
    BY <1>3
  <2> QED
    BY <1>2, <1>3, <2>1
<1>10. /\ rank \in Bijection(keys, 1 .. n)
       /\ \A u, v \in keys : u \in upTo[v] <=> rank[u] <= rank[v]
  BY <1>1, <1>8, <1>9, RankIsBijection
<1>11. id \in Injection(keys, keys) /\ \A k \in keys : id[k] = k
  BY DEF Injection, IsInjective
<1> HIDE DEF rank, id, ranked
<1>12. /\ s \in [1 .. n -> keys]
       /\ \A k \in keys : s[rank[k]] = k
  <2>1. /\ s \in [1 .. Cardinality(keys) -> keys]
        /\ \A k \in keys : s[rank[k]] = id[k]
    BY <1>5, <1>10, <1>11, OrderedRanks DEF n, s
  <2> QED
    BY <1>11, <2>1
<1>13. /\ rank \in [keys -> 1 .. n]
       /\ \A i \in 1 .. n : \E k \in keys : rank[k] = i
  BY <1>10 DEF Bijection, Injection, Surjection
<1>14. n \in Nat
  BY FS_CardinalityType
<1> HIDE DEF n, s
<1>15. ASSUME NEW i \in 1 .. n, NEW j \in 1 .. n, i < j
       PROVE  s[i] < s[j]
  <2>1. PICK k \in keys, l \in keys : rank[k] = i /\ rank[l] = j
    BY <1>13
  <2>2. ~ (l <= k)
    BY <1>7, <1>10, <1>14, <1>15, <2>1
  <2>3. s[i] = k /\ s[j] = l
    BY <1>12, <2>1
  <2> QED
    BY <1>2, <2>2, <2>3
<1>16. \A k \in keys : s[Cardinality({j \in keys : j <= k})] = k
  BY <1>4, <1>12
<1> QED
  BY <1>6, <1>12, <1>13, <1>14, <1>15, <1>16 DEF n

\* Consecutive keys come in order.
LEMMA InOrderInterval ==
    ASSUME NEW a \in Nat, NEW m \in Nat
    PROVE  InOrder(a + 1 .. a + m) = [i \in 1 .. m |-> a + i]
<1> DEFINE keys == a + 1 .. a + m
<1>1. /\ keys \in SUBSET Nat
      /\ IsFiniteSet(keys) /\ Cardinality(keys) = m
  BY FS_Interval
<1>2. ASSUME NEW i \in 1 .. m
      PROVE  InOrder(keys)[i] = a + i
  <2>1. a + i \in keys /\ {j \in keys : j <= a + i} = a + 1 .. a + i
    OBVIOUS
  <2>2. Cardinality(a + 1 .. a + i) = i
    BY FS_Interval
  <2> HIDE DEF keys
  <2> QED
    BY <1>1, <2>1, <2>2, InOrderIncreases
<1>3. InOrder(keys) = [i \in 1 .. m |-> InOrder(keys)[i]]
  <2> HIDE DEF keys
  <2> QED
    BY <1>1, InOrderIncreases
<1> QED
  BY <1>2, <1>3

-----------------------------------------------------------------------------
(* Recursive functions *)

\* The first n values of an iteration.
Begins(g, n, S, f0, step) ==
    /\ g \in [0 .. n -> S]
    /\ g[0] = f0
    /\ \A i \in 0 .. n - 1 : g[i + 1] = step[g[i]]

\* All of them.
Iterated(f, S, f0, step) ==
    f \in [Nat -> S] /\ f[0] = f0 /\ \A n \in Nat : f[n + 1] = step[f[n]]

\* A function can be iterated.
LEMMA Iterates ==
    ASSUME NEW S, NEW f0 \in S, NEW step \in [S -> S]
    PROVE  \E f : Iterated(f, S, f0, step)
<1> DEFINE Stuck == {n \in Nat : ~ \E g : Begins(g, n, S, f0, step)}
<1>1. Stuck = {}
  <2> SUFFICES ASSUME Stuck # {}
               PROVE  FALSE
    OBVIOUS
  <2>1. PICK m \in Stuck : \A k \in Stuck : m <= k
    BY Least
  <2>2. CASE m = 0
    <3>1. Begins([i \in 0 .. 0 |-> f0], 0, S, f0, step)
      BY DEF Begins
    <3> QED
      BY <2>1, <2>2, <3>1
  <2>3. CASE m # 0
    <3>1. m \in Nat /\ m - 1 \in Nat /\ m - 1 \notin Stuck
      BY <2>1, <2>3
    <3>2. PICK g : Begins(g, m - 1, S, f0, step)
      BY <3>1
    <3> DEFINE h == [i \in 0 .. m |-> IF i = m THEN step[g[m - 1]] ELSE g[i]]
    <3>3. /\ g \in [0 .. m - 1 -> S] /\ g[0] = f0
          /\ \A i \in 0 .. m - 2 : g[i + 1] = step[g[i]]
      <4>1. (m - 1) - 1 = m - 2
        BY <3>1
      <4> QED
        BY <3>2, <4>1 DEF Begins
    <3>4. h \in [0 .. m -> S] /\ h[0] = f0
      BY <2>3, <3>1, <3>3
    <3>5. ASSUME NEW i \in 0 .. m - 1
          PROVE  h[i + 1] = step[h[i]]
      <4>1. CASE i = m - 1
        BY <3>1, <3>3, <4>1
      <4>2. CASE i # m - 1
        BY <3>1, <3>3, <4>2
      <4> QED
        BY <4>1, <4>2
    <3> HIDE DEF h
    <3>6. Begins(h, m, S, f0, step)
      BY <3>4, <3>5 DEF Begins
    <3> QED
      BY <2>1, <3>6
  <2> QED
    BY <2>2, <2>3
<1> DEFINE start(n) == CHOOSE g : Begins(g, n, S, f0, step)
           f == [n \in Nat |-> start(n)[n]]
<1>2. ASSUME NEW n \in Nat
      PROVE  Begins(start(n), n, S, f0, step)
  BY <1>1
<1>3. ASSUME NEW n \in Nat, NEW g, NEW h, Begins(g, n, S, f0, step),
             Begins(h, n + 1, S, f0, step)
      PROVE  g[n] = h[n]
  <2> DEFINE Differ == {i \in 0 .. n : g[i] # h[i]}
  <2>1. SUFFICES ASSUME Differ # {}
                 PROVE  FALSE
    BY <2>1
  <2>2. Differ \in SUBSET Nat
    OBVIOUS
  <2>3. PICK m \in Differ : \A k \in Differ : m <= k
    BY <2>1, <2>2, Least
  <2>4. CASE m = 0
    BY <1>3, <2>3, <2>4 DEF Begins
  <2>5. CASE m # 0
    <3>1. m - 1 \in 0 .. n - 1 /\ m - 1 \in 0 .. (n + 1) - 1 /\ m - 1 \notin Differ
      BY <2>3, <2>5
    <3>2. g[(m - 1) + 1] = step[g[m - 1]] /\ h[(m - 1) + 1] = step[h[m - 1]]
      BY <1>3, <3>1 DEF Begins
    <3>3. (m - 1) + 1 = m /\ g[m - 1] = h[m - 1]
      BY <2>3, <3>1
    <3> QED
      BY <2>3, <3>2, <3>3
  <2> QED
    BY <2>4, <2>5
<1> HIDE DEF start
<1>4. f \in [Nat -> S]
  BY <1>2 DEF Begins
<1>5. f[0] = f0
  BY <1>2 DEF Begins
<1>6. ASSUME NEW n \in Nat
      PROVE  f[n + 1] = step[f[n]]
  <2>1. Begins(start(n), n, S, f0, step) /\ Begins(start(n + 1), n + 1, S, f0, step)
    BY <1>2
  <2>2. start(n)[n] = start(n + 1)[n]
    BY <1>3, <2>1
  <2>3. start(n + 1)[n + 1] = step[start(n + 1)[n]]
    BY <2>1 DEF Begins
  <2> QED
    BY <2>2, <2>3
<1> HIDE DEF f
<1>7. Iterated(f, S, f0, step)
  BY <1>4, <1>5, <1>6 DEF Iterated
<1> QED
  BY <1>7

\* The equation of the recursive function 1 << bits.
LEMMA ShiftedIsDefined ==
    Shifted = [b \in Nat |-> IF b = 0 THEN 1 ELSE 2 * Shifted[b - 1]]
<1> DEFINE step == [x \in Nat |-> 2 * x]
           Meant(f) == f = [b \in Nat |-> IF b = 0 THEN 1 ELSE 2 * f[b - 1]]
<1>1. step \in [Nat -> Nat]
  OBVIOUS
<1>2. PICK f : Iterated(f, Nat, 1, step)
  <2>1. 1 \in Nat
    OBVIOUS
  <2> HIDE DEF step
  <2> QED
    BY <1>1, <2>1, Iterates
<1>3. ASSUME NEW b \in Nat
      PROVE  f[b] = IF b = 0 THEN 1 ELSE 2 * f[b - 1]
  <2>1. CASE b = 0
    BY <1>2, <2>1 DEF Iterated
  <2>2. CASE b # 0
    <3>1. b - 1 \in Nat /\ (b - 1) + 1 = b
      BY <2>2
    <3> QED
      BY <1>2, <2>2, <3>1 DEF Iterated
  <2> QED
    BY <2>1, <2>2
<1>4. Meant(f)
  BY <1>2, <1>3 DEF Iterated
<1>5. Shifted = CHOOSE g : Meant(g)
  BY DEF Shifted
<1> HIDE DEF Meant
<1>6. Meant(Shifted)
  BY <1>4, <1>5
<1> QED
  BY <1>6 DEF Meant

-----------------------------------------------------------------------------
(* The bracket *)

PowersOf2 == {Shifted[b] : b \in Nat}

\* 1 << bits doubles with each bit and exceeds the number of bits.
LEMMA ShiftedGrows ==
    ASSUME NEW b \in Nat
    PROVE  /\ Shifted[0] = 1
           /\ Shifted[b + 1] = 2 * Shifted[b]
           /\ Shifted[b] \in Nat /\ Shifted[b] > b
<1>1. /\ Shifted[0] = 1
      /\ \A n \in Nat : Shifted[n + 1] = 2 * Shifted[n]
  <2>1. Shifted[0] = 1
    BY ShiftedIsDefined
  <2>2. ASSUME NEW n \in Nat
        PROVE  Shifted[n + 1] = 2 * Shifted[n]
    <3>1. n + 1 \in Nat /\ n + 1 # 0 /\ (n + 1) - 1 = n
      OBVIOUS
    <3> QED
      BY <3>1, ShiftedIsDefined
  <2> QED
    BY <2>1, <2>2
<1> DEFINE Small == {n \in Nat : ~ (Shifted[n] \in Nat /\ Shifted[n] > n)}
<1>2. Small = {}
  <2>1. SUFFICES ASSUME Small # {}
                 PROVE  FALSE
    BY <2>1
  <2>2. PICK m \in Small : \A k \in Small : m <= k
    BY <2>1, Least
  <2>3. m # 0
    BY <1>1, <2>2
  <2>4. m - 1 \in Nat /\ (m - 1) + 1 = m /\ m - 1 \notin Small
    BY <2>2, <2>3
  <2>5. Shifted[m - 1] \in Nat /\ Shifted[m - 1] > m - 1
    BY <2>4
  <2>6. Shifted[m] = 2 * Shifted[m - 1]
    BY <1>1, <2>4
  <2>7. ASSUME NEW x \in Nat, NEW y, y = 2 * x, x > m - 1
        PROVE  y \in Nat /\ y > m
    BY <2>2, <2>3, <2>7
  <2>8. Shifted[m] \in Nat /\ Shifted[m] > m
    BY <2>5, <2>6, <2>7
  <2> QED
    BY <2>2, <2>8
<1> QED
  BY <1>1, <1>2

\* A power of two other than 1 is twice another.
LEMMA PowersDouble ==
    /\ PowersOf2 \subseteq Nat \ {0}
    /\ 1 \in PowersOf2
    /\ \A p \in PowersOf2 : p # 1 => \E q \in PowersOf2 : p = 2 * q
<1>1. \A b \in Nat : Shifted[b] \in Nat /\ Shifted[b] > b
  BY ShiftedGrows
<1>2. PowersOf2 \subseteq Nat \ {0}
  <2>1. ASSUME NEW b \in Nat
        PROVE  Shifted[b] \in Nat \ {0}
    BY <1>1
  <2> QED
    BY <2>1 DEF PowersOf2
<1>3. 1 \in PowersOf2
  <2>1. Shifted[0] = 1 /\ 0 \in Nat
    BY ShiftedGrows
  <2> QED
    BY <2>1 DEF PowersOf2
<1>4. ASSUME NEW b \in Nat, Shifted[b] # 1
      PROVE  \E q \in PowersOf2 : Shifted[b] = 2 * q
  <2>1. b # 0
    BY <1>4, ShiftedGrows
  <2>2. b - 1 \in Nat /\ (b - 1) + 1 = b
    BY <2>1
  <2>3. Shifted[b] = 2 * Shifted[b - 1]
    BY <2>2, ShiftedGrows
  <2> QED
    BY <2>2, <2>3 DEF PowersOf2
<1> QED
  BY <1>2, <1>3, <1>4 DEF PowersOf2

\* The size of the bracket is less than twice the number of teams.
LEMMA BracketSize ==
    ASSUME NEW n \in Nat, n >= 2
    PROVE  /\ NextPowerOf2(n) \in PowersOf2
           /\ NextPowerOf2(n) \in n .. 2 * n - 1
           /\ \E q \in PowersOf2 : NextPowerOf2(n) = 2 * q
<1> DEFINE big == {p \in {Shifted[b] : b \in 0 .. n} : p >= n}
           p == Min(big)
<1>1. \A b \in Nat : Shifted[b] \in Nat /\ Shifted[b] > b
  BY ShiftedGrows
<1>2. Shifted[n] \in big
  BY <1>1
<1>3. big \in SUBSET Nat
  BY <1>1
<1>4. p \in big /\ \A k \in big : p <= k
  <2> HIDE DEF big
  <2> QED
    BY <1>2, <1>3, MinIsLeast
<1>5. NextPowerOf2(n) = p
  BY DEF NextPowerOf2
<1> HIDE DEF p
<1>6. PICK b \in 0 .. n : p = Shifted[b]
  BY <1>4
<1>7. p \in Nat /\ p >= n
  BY <1>1, <1>4, <1>6
<1>8. b # 0
  BY <1>6, <1>7, ShiftedGrows
<1>9. b - 1 \in 0 .. n /\ b - 1 \in Nat /\ (b - 1) + 1 = b
  BY <1>8
<1>10. p = 2 * Shifted[b - 1]
  BY <1>6, <1>9, ShiftedGrows
<1>11. Shifted[b - 1] \in Nat /\ (Shifted[b - 1] >= n => Shifted[b - 1] \in big)
  BY <1>1, <1>9
<1>12. p < 2 * n
  <2> HIDE DEF big
  <2>1. Shifted[b - 1] >= n => p <= Shifted[b - 1]
    BY <1>4, <1>11
  <2> QED
    BY <1>7, <1>10, <1>11, <2>1
<1>13. Shifted[b - 1] \in PowersOf2 /\ p \in PowersOf2
  BY <1>6, <1>9 DEF PowersOf2
<1>14. p \in n .. 2 * n - 1
  BY <1>7, <1>12
<1> QED
  BY <1>5, <1>10, <1>13, <1>14

\* The first round: so many byes that the number of fixtures is a power of
\* two, and at least one fixture to play.
LEMMA FirstRound ==
    ASSUME NEW n \in Nat, n >= 2
    PROVE  \E b \in Nat, m \in PowersOf2 :
              /\ b + 2 * (m - b) = n /\ b < m
              /\ KnockoutRound1(n) =
                    [k \in 1 .. m |-> IF k <= b THEN Bye(k) ELSE Fixture(1, 0, k, (n + b + 1) - k)]
<1>1. PICK m \in PowersOf2 : NextPowerOf2(n) = 2 * m
  BY BracketSize
<1> DEFINE b == NumByes(n)
           h == n - b
           playing == [k \in 1 .. h |-> b + k]
           real == Matches(1, Inward(playing))
           byes == [t \in 1 .. b |-> Bye(t)]
<1>2. m \in Nat /\ m # 0
  BY PowersDouble
<1>3. /\ b = 2 * m - n /\ b \in Nat
      /\ b + 2 * (m - b) = n /\ b < m
      /\ h = 2 * (m - b) /\ h \in Nat /\ m - b \in Nat
  BY <1>1, <1>2, BracketSize DEF NumByes
<1> HIDE DEF b, h
<1>4. Len(playing) = h /\ h \div 2 = m - b
  BY <1>3
<1>5. Inward(playing) = [k \in 1 .. m - b |-> << b + k, b + (h + 1 - k) >>]
  <2>1. ASSUME NEW k \in 1 .. m - b
        PROVE  playing[k] = b + k /\ playing[h + 1 - k] = b + (h + 1 - k)
    BY <1>3
  <2> HIDE DEF playing
  <2> QED
    BY <1>4, <2>1 DEF Inward
<1>6. real = [k \in 1 .. m - b |-> Fixture(1, 0, b + k, b + (h + 1 - k))]
  <2> HIDE DEF playing
  <2> QED
    BY <1>5 DEF Matches
<1>7. KnockoutRound1(n) = byes \o real
  BY DEF KnockoutRound1, b, h
<1>8. byes \o real = [k \in 1 .. m |-> IF k <= b THEN Bye(k) ELSE Fixture(1, 0, k, (n + b + 1) - k)]
  <2> DEFINE S == {Bye(t) : t \in 1 .. b} \cup {Fixture(1, 0, b + k, b + (h + 1 - k)) : k \in 1 .. m - b}
  <2>1. byes \in Seq(S) /\ Len(byes) = b
    BY <1>3
  <2>2. real \in [1 .. m - b -> S]
    BY <1>6
  <2>3. real \in Seq(S) /\ Len(real) = m - b
    <3> HIDE DEF real, S
    <3> QED
      BY <1>3, <2>2
  <2>4. \A k \in 1 .. b : byes[k] = Bye(k)
    OBVIOUS
  <2>5. \A k \in 1 .. m - b : real[k] = Fixture(1, 0, b + k, b + (h + 1 - k))
    BY <1>6
  <2> HIDE DEF byes, real, S
  <2>6. /\ byes \o real \in Seq(S)
        /\ Len(byes \o real) = b + (m - b)
        /\ \A k \in 1 .. b + (m - b) :
              (byes \o real)[k] = IF k <= b THEN byes[k] ELSE real[k - b]
    BY <2>1, <2>3, ConcatProperties
  <2>7. b + (m - b) = m
    BY <1>2, <1>3
  <2>8. ASSUME NEW k \in 1 .. m
        PROVE  (byes \o real)[k] = IF k <= b THEN Bye(k) ELSE Fixture(1, 0, k, (n + b + 1) - k)
    <3>1. CASE k <= b
      <4>1. k \in 1 .. b
        BY <1>2, <1>3, <3>1
      <4> QED
        BY <2>4, <2>6, <2>7, <3>1, <4>1
    <3>2. CASE ~ (k <= b)
      <4>1. k - b \in 1 .. m - b /\ b + (k - b) = k
        BY <1>2, <1>3, <3>2
      <4>2. b + (h + 1 - (k - b)) = (n + b + 1) - k
        BY <1>2, <1>3
      <4>3. (byes \o real)[k] = real[k - b]
        BY <2>6, <2>7, <3>2
      <4>4. real[k - b] = Fixture(1, 0, k, (n + b + 1) - k)
        BY <2>5, <4>1, <4>2
      <4> QED
        BY <3>2, <4>3, <4>4
    <3> QED
      BY <3>1, <3>2
  <2>9. byes \o real = [k \in 1 .. m |-> (byes \o real)[k]]
    <3>1. byes \o real = [k \in 1 .. Len(byes \o real) |-> (byes \o real)[k]]
      BY <2>6, LenProperties
    <3> QED
      BY <2>6, <2>7, <3>1
  <2> QED
    BY <2>8, <2>9
<1> QED
  BY <1>3, <1>7, <1>8

-----------------------------------------------------------------------------
(* The circle *)

\* Who is at position s of the circle before round r; m is the last position.
At(m, r, s) == IF s = 0 THEN 0 ELSE IF s > r THEN s - r ELSE (s - r) + m

\* The circle has an even number of positions: the teams, and BYE if they are odd.
LEMMA CircleSizes ==
    ASSUME NEW n \in Nat, n >= 2
    PROVE  /\ Half(n) \in Nat /\ Half(n) >= 1
           /\ CircleSize(n) = 2 * Half(n)
           /\ n = 2 * Half(n) \/ n = 2 * Half(n) - 1
<1>1. n % 2 \in {0, 1} /\ n = (2 * (n \div 2)) + (n % 2) /\ n \div 2 \in Nat
  OBVIOUS
<1>2. CASE n % 2 = 0
  BY <1>1, <1>2 DEF CircleSize, Half
<1>3. CASE n % 2 = 1
  <2>1. CircleSize(n) = 2 * ((n \div 2) + 1)
    BY <1>1, <1>3 DEF CircleSize
  <2> QED
    BY <1>1, <1>3, <2>1 DEF Half
<1> QED
  BY <1>1, <1>2, <1>3

\* One rotation takes the circle of a round to the circle of the next.
LEMMA RotatedMoves ==
    ASSUME NEW m \in Nat \ {0}, NEW r \in 0 .. m - 1
    PROVE  Rotated([s \in 0 .. m |-> At(m, r, s)]) = [s \in 0 .. m |-> At(m, r + 1, s)]
<1> DEFINE arr == [s \in 0 .. m |-> At(m, r, s)]
<1>1. Cardinality(DOMAIN arr) - 1 = m /\ DOMAIN arr = 0 .. m
  <2>1. Cardinality(0 .. m) = m + 1
    BY FS_Interval
  <2> QED
    BY <2>1
<1>2. ASSUME NEW s \in 0 .. m
      PROVE  (IF s = 0 THEN arr[0] ELSE IF s = 1 THEN arr[m] ELSE arr[s - 1]) = At(m, r + 1, s)
  <2>1. CASE s = 0
    BY <2>1 DEF At
  <2>2. CASE s = 1
    BY <2>2 DEF At
  <2>3. CASE s > 1
    BY <2>3 DEF At
  <2> QED
    BY <2>1, <2>2, <2>3
<1>3. Rotated(arr) = [s \in 0 .. m |-> IF s = 0 THEN arr[0] ELSE IF s = 1 THEN arr[m] ELSE arr[s - 1]]
  <2> HIDE DEF arr
  <2> QED
    BY <1>1 DEF Rotated
<1> HIDE DEF arr
<1>4. Rotated(arr) = [s \in 0 .. m |-> At(m, r + 1, s)]
  BY <1>2, <1>3
<1> QED
  BY <1>4 DEF arr

\* The rotation in closed form.
LEMMA CircleTurns ==
    ASSUME NEW n \in Nat, n >= 2, NEW m, m = CircleSize(n) - 1, NEW r \in 0 .. m
    PROVE  Circle(n)[r] = [s \in 0 .. m |-> At(m, r, s)]
<1> DEFINE turned == [q \in 0 .. m |-> [s \in 0 .. m |-> At(m, q, s)]]
           Meant(f) == f = [q \in 0 .. m |-> IF q = 0 THEN Start(n) ELSE Rotated(f[q - 1])]
           circle == CHOOSE f : Meant(f)
<1>1. m \in Nat \ {0}
  BY CircleSizes
<1>2. Circle(n) = circle
  BY DEF Circle
<1>3. Start(n) = turned[0]
  <2>1. \A s \in 0 .. m : At(m, 0, s) = s
    BY DEF At
  <2> QED
    BY <1>1, <2>1 DEF Start
<1>4. ASSUME NEW q \in 0 .. m, q # 0
      PROVE  turned[q] = Rotated(turned[q - 1])
  <2>1. q - 1 \in 0 .. m - 1 /\ q - 1 \in 0 .. m /\ (q - 1) + 1 = q
    BY <1>1, <1>4
  <2>2. turned[q - 1] = [s \in 0 .. m |-> At(m, q - 1, s)]
    BY <2>1
  <2>3. Rotated(turned[q - 1]) = [s \in 0 .. m |-> At(m, (q - 1) + 1, s)]
    BY <1>1, <2>1, <2>2, RotatedMoves
  <2> QED
    BY <2>1, <2>3
<1>5. turned = [q \in 0 .. m |-> turned[q]]
  OBVIOUS
<1> HIDE DEF turned
<1>6. Meant(turned)
  BY <1>3, <1>4, <1>5
<1> HIDE DEF Meant
<1>7. Meant(circle)
  BY <1>6
<1> HIDE DEF circle
<1>8. \A q \in 0 .. m : circle[q] = IF q = 0 THEN Start(n) ELSE Rotated(circle[q - 1])
  BY <1>7 DEF Meant
<1> DEFINE Differ == {q \in 0 .. m : circle[q] # turned[q]}
<1>9. Differ = {}
  <2>1. SUFFICES ASSUME Differ # {}
                 PROVE  FALSE
    BY <2>1
  <2>2. Differ \in SUBSET Nat
    BY <1>1
  <2>3. PICK q \in Differ : \A k \in Differ : q <= k
    BY <2>1, <2>2, Least
  <2>4. q # 0
    BY <1>3, <1>8, <2>3
  <2>5. q - 1 \in 0 .. m /\ q - 1 \notin Differ
    BY <1>1, <2>3, <2>4
  <2>6. circle[q - 1] = turned[q - 1]
    BY <2>5
  <2>7. circle[q] = turned[q]
    BY <1>4, <1>8, <2>3, <2>4, <2>6
  <2> QED
    BY <2>3, <2>7
<1>10. circle[r] = turned[r]
  BY <1>9
<1> QED
  BY <1>2, <1>10 DEF turned

\* Quotient and remainder, and that nothing else is.
LEMMA Divided ==
    ASSUME NEW a \in Nat, NEW b \in Nat \ {0}
    PROVE  /\ a \div b \in Nat /\ a % b \in 0 .. b - 1
           /\ a = (b * (a \div b)) + (a % b)
           /\ \A q \in Nat, r \in 0 .. b - 1 :
                 a = (b * q) + r => a \div b = q /\ a % b = r
OBVIOUS

\* The quotient and the remainder of a sum in that form.
LEMMA DividesInto ==
    ASSUME NEW b \in Nat \ {0}, NEW q \in Nat, NEW r \in 0 .. b - 1, NEW a, a = (b * q) + r
    PROVE  a \div b = q /\ a % b = r
<1>1. (b * q) \in Nat /\ r \in Nat /\ a \in Nat
  OBVIOUS
<1> QED
  BY <1>1, Divided

\* A quotient of natural numbers is one.
LEMMA Quotient == \A a \in Nat, b \in Nat \ {0} : a \div b \in Nat
OBVIOUS

\* So is a product.
LEMMA Multiplied == \A a, b \in Nat : a * b \in Nat
OBVIOUS

\* A product grows with a factor,
LEMMA ProductsGrow ==
    ASSUME NEW b \in Nat, NEW q \in Nat, NEW c \in Nat, q <= c
    PROVE  b * q \in Nat /\ b * c \in Nat /\ b * q <= b * c
OBVIOUS

\* by at least the other factor if it grows at all.
LEMMA NextProduct ==
    ASSUME NEW b \in Nat, NEW q \in Nat, NEW c \in Nat, q < c
    PROVE  b * q \in Nat /\ b * c \in Nat /\ (b * q) + b <= b * c
<1>1. q + 1 \in Nat /\ q + 1 <= c
  OBVIOUS
<1>2. b * (q + 1) <= b * c
  BY <1>1, ProductsGrow
<1>3. b * (q + 1) = (b * q) + b
  OBVIOUS
<1> QED
  BY <1>2, <1>3

\* Who meets in the p-th meeting: the two at mirrored positions of its round.
LEMMA MeetingsMirror ==
    ASSUME NEW n \in Nat, n >= 2, NEW m, m = CircleSize(n) - 1, NEW h, h = Half(n),
           NEW p \in 0 .. (h * m) - 1,
           NEW r, r = p \div h, NEW i, i = p % h
    PROVE  /\ r \in 0 .. m - 1 /\ i \in 0 .. h - 1 /\ p = (h * r) + i
           /\ At(m, r, i) \in 0 .. m /\ At(m, r, m - i) \in 0 .. m
           /\ At(m, r, i) # At(m, r, m - i)
           /\ \/ Meeting(n, p) = << At(m, r, i), At(m, r, m - i) >>
              \/ Meeting(n, p) = << At(m, r, m - i), At(m, r, i) >>
<1>1. h \in Nat \ {0} /\ m = (2 * h) - 1 /\ m \in Nat
  BY CircleSizes
<1>2. p \in Nat /\ p < h * m
  <2>1. h * m \in Nat
    BY <1>1
  <2> QED
    BY <2>1
<1>3. r \in Nat /\ i \in 0 .. h - 1 /\ p = (h * r) + i
  BY <1>1, <1>2, Divided
<1>4. r < m
  <2>1. SUFFICES ASSUME m <= r
                 PROVE  FALSE
    BY <1>1, <1>3, <2>1
  <2>2. h * m <= h * r /\ h * m \in Nat /\ h * r \in Nat
    BY <1>1, <1>3, <2>1, ProductsGrow
  <2> QED
    BY <1>2, <1>3, <2>2
<1>5. r \in 0 .. m - 1 /\ r \in 0 .. m /\ i \in 0 .. m /\ m - i \in 0 .. m /\ i < m - i
  <2>1. r \in Nat /\ r < m /\ m \in Nat
    BY <1>1, <1>3, <1>4
  <2>2. i \in 0 .. h - 1
    BY <1>3
  <2> QED
    BY <1>1, <2>1, <2>2
<1>6. /\ At(m, r, i) \in 0 .. m /\ At(m, r, m - i) \in 0 .. m
      /\ At(m, r, i) # At(m, r, m - i)
  BY <1>1, <1>5 DEF At
<1>7. Circle(n)[r] = [s \in 0 .. m |-> At(m, r, s)]
  BY <1>5, CircleTurns
<1> DEFINE arr == [s \in 0 .. m |-> At(m, r, s)]
<1>8. Cardinality(DOMAIN arr) - 1 = m
  <2>1. Cardinality(0 .. m) = m + 1
    BY <1>1, FS_Interval
  <2> QED
    BY <1>1, <2>1
<1>9. arr[i] = At(m, r, i) /\ arr[m - i] = At(m, r, m - i)
  BY <1>5
<1> HIDE DEF arr
<1>10. Meeting(n, p) = Opponents(arr, r, i)
  BY <1>7 DEF Meeting, arr
<1>11. \/ Opponents(arr, r, i) = << arr[i], arr[m - i] >>
       \/ Opponents(arr, r, i) = << arr[m - i], arr[i] >>
  BY <1>8 DEF Opponents
<1> QED
  BY <1>3, <1>5, <1>6, <1>9, <1>10, <1>11

\* The meetings of round r and position i, and when one of the two rests.
LEMMA MeetingNumbers ==
    ASSUME NEW n \in Nat, n >= 2, NEW m, m = CircleSize(n) - 1, NEW h, h = Half(n),
           NEW r \in 0 .. m - 1, NEW i \in 0 .. h - 1, NEW p, p = (h * r) + i
    PROVE  /\ p \in 0 .. (h * m) - 1
           /\ p \div h = r /\ p % h = i
           /\ p \in Meetings(n) <=> At(m, r, i) # n /\ At(m, r, m - i) # n
<1>1. h \in Nat \ {0} /\ m = (2 * h) - 1 /\ m \in Nat
  BY CircleSizes
<1>2. h * r \in Nat /\ h * (r + 1) \in Nat /\ h * m \in Nat /\ h * (r + 1) <= h * m
  <2>1. r + 1 \in Nat /\ r + 1 <= m
    BY <1>1
  <2> QED
    BY <1>1, <2>1, ProductsGrow
<1>3. h * (r + 1) = (h * r) + h
  BY <1>1
<1>4. p \in Nat /\ p < h * m
  BY <1>1, <1>2, <1>3
<1>5. p \in 0 .. (h * m) - 1
  BY <1>2, <1>4
<1>6. p \div h = r /\ p % h = i
  <2>1. h \in Nat \ {0} /\ r \in Nat
    BY <1>1
  <2> QED
    BY <2>1, DividesInto
<1>7. \/ Meeting(n, p) = << At(m, r, i), At(m, r, m - i) >>
      \/ Meeting(n, p) = << At(m, r, m - i), At(m, r, i) >>
  BY <1>5, <1>6, MeetingsMirror
<1>8. p \in Meetings(n) <=> ~ Rests(n, Meeting(n, p))
  BY <1>5 DEF Meetings
<1>9. Rests(n, Meeting(n, p)) <=> At(m, r, i) = n \/ At(m, r, m - i) = n
  BY <1>7 DEF Rests
<1> QED
  BY <1>5, <1>6, <1>8, <1>9

\* An increasing enumeration of some keys is their order.
LEMMA InOrderUnique ==
    ASSUME NEW keys \in SUBSET Nat, NEW N \in Nat, NEW g \in [1 .. N -> keys],
           \A k \in keys : \E i \in 1 .. N : g[i] = k,
           \A i, j \in 1 .. N : i < j => g[i] < g[j]
    PROVE  InOrder(keys) = g /\ IsFiniteSet(keys) /\ Cardinality(keys) = N
<1>0. keys \subseteq Nat
  OBVIOUS
<1>1. \A i, j \in 1 .. N : g[i] = g[j] => i = j
  <2> SUFFICES ASSUME NEW i \in 1 .. N, NEW j \in 1 .. N, g[i] = g[j], i # j
               PROVE  FALSE
    OBVIOUS
  <2>1. i < j \/ j < i
    OBVIOUS
  <2>2. g[i] < g[j] \/ g[j] < g[i]
    BY <2>1
  <2>3. g[i] \in Nat
    BY <1>0
  <2> QED
    BY <2>2, <2>3
<1>2. g \in Bijection(1 .. N, keys)
  BY <1>1 DEF Bijection, Injection, Surjection, IsInjective
<1>3. IsFiniteSet(1 .. N) /\ Cardinality(1 .. N) = N
  BY FS_Interval
<1>4. IsFiniteSet(keys) /\ Cardinality(keys) = N
  BY <1>2, <1>3, FS_Bijection DEF ExistsBijection
<1>5. ASSUME NEW i \in 1 .. N
      PROVE  InOrder(keys)[i] = g[i]
  <2> DEFINE below == {j \in keys : j <= g[i]}
             part == [j \in 1 .. i |-> g[j]]
  <2>1. \A j \in 1 .. i : j \in 1 .. N /\ g[j] <= g[i]
    <3> SUFFICES ASSUME NEW j \in 1 .. i
                 PROVE  j \in 1 .. N /\ g[j] <= g[i]
      OBVIOUS
    <3>1. j \in 1 .. N /\ (j < i \/ j = i)
      OBVIOUS
    <3>2. g[j] \in Nat /\ g[i] \in Nat
      BY <1>0, <3>1
    <3> QED
      BY <3>1, <3>2
  <2>2. part \in [1 .. i -> below]
    BY <2>1
  <2>3. \A k \in below : \E j \in 1 .. i : part[j] = k
    <3> SUFFICES ASSUME NEW k \in below
                 PROVE  \E j \in 1 .. i : part[j] = k
      OBVIOUS
    <3>1. PICK j \in 1 .. N : g[j] = k
      OBVIOUS
    <3>2. ~ (i < j)
      <4>1. g[j] \in Nat /\ g[i] \in Nat /\ g[j] <= g[i]
        BY <1>0, <3>1
      <4> QED
        BY <4>1
    <3> QED
      BY <3>1, <3>2
  <2>4. \A j, k \in 1 .. i : part[j] = part[k] => j = k
    BY <1>1, <2>1
  <2> HIDE DEF part
  <2>5. part \in Bijection(1 .. i, below)
    BY <2>2, <2>3, <2>4 DEF Bijection, Injection, Surjection, IsInjective
  <2>6. IsFiniteSet(1 .. i) /\ Cardinality(1 .. i) = i
    BY FS_Interval
  <2>7. Cardinality(below) = i
    BY <2>5, <2>6, FS_Bijection DEF ExistsBijection
  <2>8. InOrder(keys)[Cardinality(below)] = g[i]
    BY <1>4, InOrderIncreases
  <2> QED
    BY <2>7, <2>8
<1>6. InOrder(keys) \in [1 .. N -> keys]
  BY <1>4, InOrderIncreases
<1>7. InOrder(keys) = [i \in 1 .. N |-> InOrder(keys)[i]] /\ g = [i \in 1 .. N |-> g[i]]
  BY <1>6
<1>8. InOrder(keys) = g
  BY <1>5, <1>7
<1> QED
  BY <1>4, <1>8

\* In one round nobody is at two positions.
LEMMA AtOnce ==
    ASSUME NEW m \in Nat, NEW r \in 0 .. m, NEW s \in 0 .. m, NEW t \in 0 .. m,
           At(m, r, s) = At(m, r, t)
    PROVE  s = t
BY DEF At

\* The circle of 2 * h has positions 0 to m.
Circled(h, m) == h \in Nat \ {0} /\ m = (2 * h) - 1

\* Position i of round r and the one that mirrors it hold x and y.
MeetAt(m, r, i, x, y) == {At(m, r, i), At(m, r, m - i)} = {x, y}

\* Two who meet have met in no other round and at no other position.
LEMMA MeetOnce ==
    ASSUME NEW h, NEW m, Circled(h, m),
           NEW r \in 0 .. m - 1, NEW i \in 0 .. h - 1,
           NEW q \in 0 .. m - 1, NEW j \in 0 .. h - 1,
           NEW x, NEW y, MeetAt(m, r, i, x, y), MeetAt(m, q, j, x, y)
    PROVE  r = q /\ i = j
<1> USE DEF Circled
<1>1. m \in Nat /\ r \in 0 .. m /\ q \in 0 .. m
      /\ i \in 0 .. m /\ j \in 0 .. m /\ m - i \in 0 .. m /\ m - j \in 0 .. m
  OBVIOUS
<1> DEFINE a == At(m, r, i)
           b == At(m, r, m - i)
           c == At(m, q, j)
           d == At(m, q, m - j)
<1>2. (a = c /\ b = d) \/ (a = d /\ b = c)
  BY DEF MeetAt
<1>3. a \in Int /\ b \in Int /\ c \in Int /\ d \in Int
  BY <1>1 DEF At
<1>4. /\ i = 0 => a = 0 /\ b = m - r
      /\ i # 0 => /\ a # 0 /\ b # 0
                  /\ (a + b) + (2 * r) \in {m, 2 * m, 3 * m}
  BY DEF At
<1>5. /\ j = 0 => c = 0 /\ d = m - q
      /\ j # 0 => /\ c # 0 /\ d # 0
                  /\ (c + d) + (2 * q) \in {m, 2 * m, 3 * m}
  BY DEF At
<1>6. r = q
  <2> HIDE DEF a, b, c, d
  <2>1. CASE i = 0 \/ j = 0
    BY <1>1, <1>2, <1>3, <1>4, <1>5, <2>1
  <2>2. CASE i # 0 /\ j # 0
    <3>1. a + b = c + d
      BY <1>2, <1>3
    <3>2. /\ (a + b) + (2 * r) \in {m, 2 * m, 3 * m}
          /\ (a + b) + (2 * q) \in {m, 2 * m, 3 * m}
      BY <1>4, <1>5, <2>2, <3>1
    <3> QED
      BY <1>1, <1>3, <3>2
  <2> QED
    BY <2>1, <2>2
<1>7. i = j \/ i = m - j
  BY <1>1, <1>2, <1>6, AtOnce
<1> QED
  BY <1>6, <1>7

\* Round r is the one in which a and b can meet.
Fits(m, a, b, r) == (a + b) + (2 * r) \in {m, 2 * m, 3 * m}

\* In a round whose number fits, two are at mirrored positions.
LEMMA MeetThen ==
    ASSUME NEW h, NEW m, Circled(h, m),
           NEW a \in 1 .. m, NEW b \in 1 .. m, NEW r \in 0 .. m - 1,
           Fits(m, a, b, r), a # b
    PROVE  \E i \in 0 .. h - 1 : MeetAt(m, r, i, a, b)
<1> USE DEF Circled
<1> DEFINE pos(z) == IF z + r <= m THEN z + r ELSE (z + r) - m
<1>1. \A z \in 1 .. m : pos(z) \in 1 .. m /\ At(m, r, pos(z)) = z
  BY DEF At
<1>2. pos(a) + pos(b) = m /\ pos(a) \in 1 .. m - 1 /\ pos(b) \in 1 .. m - 1
  BY DEF Fits
<1>3. At(m, r, pos(a)) = a /\ At(m, r, pos(b)) = b
  BY <1>1
<1>4. CASE pos(a) < h
  <2>1. pos(a) \in 0 .. h - 1 /\ m - pos(a) = pos(b)
    BY <1>2, <1>4
  <2> HIDE DEF pos
  <2> QED
    BY <1>3, <2>1 DEF MeetAt
<1>5. CASE ~ (pos(a) < h)
  <2>1. pos(b) \in 0 .. h - 1 /\ m - pos(b) = pos(a)
    BY <1>2, <1>5
  <2> HIDE DEF pos
  <2> QED
    BY <1>3, <2>1 DEF MeetAt
<1> QED
  BY <1>4, <1>5

\* Any two meet.
LEMMA AllMeet ==
    ASSUME NEW h, NEW m, Circled(h, m),
           NEW x \in 0 .. m, NEW y \in 0 .. m, x # y
    PROVE  \E r \in 0 .. m - 1, i \in 0 .. h - 1 :
              MeetAt(m, r, i, x, y)
<1> USE DEF Circled
<1>1. ASSUME NEW z \in 1 .. m
      PROVE  MeetAt(m, m - z, 0, 0, z)
  <2>1. m - 0 = m
    OBVIOUS
  <2> QED
    BY <1>1, <2>1 DEF At, MeetAt
<1>3. CASE x = 0 \/ y = 0
  <2>1. PICK z \in 1 .. m : {x, y} = {0, z}
    BY <1>3
  <2>2. m - z \in 0 .. m - 1 /\ 0 \in 0 .. h - 1
    OBVIOUS
  <2>3. MeetAt(m, m - z, 0, x, y)
    BY <1>1, <2>1 DEF MeetAt
  <2> QED
    BY <2>2, <2>3
<1>4. CASE x # 0 /\ y # 0
  <2>1. x \in 1 .. m /\ y \in 1 .. m
    BY <1>4
  <2>2. PICK r \in 0 .. m - 1 : Fits(m, x, y, r)
    <3>1. PICK k \in Nat : (x + y) = 2 * k \/ (x + y) = (2 * k) + 1
      <4>1. (x + y) \in Nat /\ (x + y) \div 2 \in Nat
            /\ (x + y) = (2 * ((x + y) \div 2)) + ((x + y) % 2)
            /\ (x + y) % 2 \in {0, 1}
        BY <2>1
      <4> QED
        BY <4>1
    <3>2. CASE (x + y) = 2 * k
      <4>1. m - k \in 0 .. m - 1 /\ (x + y) + (2 * (m - k)) = 2 * m
        BY <2>1, <3>2
      <4> QED
        BY <4>1 DEF Fits
    <3>3. CASE (x + y) = (2 * k) + 1 /\ k <= h - 1
      <4>1. (h - 1) - k \in 0 .. m - 1 /\ (x + y) + (2 * ((h - 1) - k)) = m
        BY <2>1, <3>3
      <4> QED
        BY <4>1 DEF Fits
    <3>4. CASE (x + y) = (2 * k) + 1 /\ k > h - 1
      <4>1. ((m + h) - 1) - k \in 0 .. m - 1 /\ (x + y) + (2 * (((m + h) - 1) - k)) = 3 * m
        BY <2>1, <3>4
      <4> QED
        BY <4>1 DEF Fits
    <3> QED
      BY <3>1, <3>2, <3>3, <3>4
  <2>3. \E i \in 0 .. h - 1 : MeetAt(m, r, i, x, y)
    <3> HIDE DEF Circled
    <3> QED
      BY <2>1, <2>2, MeetThen
  <2> QED
    BY <2>2, <2>3
<1> QED
  BY <1>3, <1>4

-----------------------------------------------------------------------------
(* The fixtures of a round robin *)

\* The position that rests in round r: none of an even number of teams.
Resting(n, r) ==
    IF n % 2 = 0 THEN Half(n)
    ELSE IF r = 0 THEN 0
    ELSE IF r < Half(n) THEN r
    ELSE (CircleSize(n) - 1) - r

\* The number of fixtures in a round, and the position of the j-th of them.
Width(n) == IF n % 2 = 0 THEN Half(n) ELSE Half(n) - 1

Position(n, r, j) == IF j < Resting(n, r) THEN j ELSE j + 1

\* The number of the k-th fixture among all meetings.
Number(n, k) ==
    (Half(n) * ((k - 1) \div Width(n))) + Position(n, (k - 1) \div Width(n), (k - 1) % Width(n))

\* Even and odd numbers of teams: rounds, pairs of a round, and meetings of it.
LEMMA Sizes ==
    ASSUME NEW n \in Nat, n >= 2
    PROVE  /\ Circled(Half(n), CircleSize(n) - 1)
           /\ CircleSize(n) - 1 \in Nat
           /\ Half(n) \in Nat \ {0}
           /\ Width(n) \in Nat \ {0}
           /\ CircleSize(n) - 1 = (2 * Half(n)) - 1
           /\ \/ n % 2 = 0 /\ n = (CircleSize(n) - 1) + 1 /\ Width(n) = Half(n)
              \/ n % 2 # 0 /\ n = CircleSize(n) - 1 /\ Width(n) = Half(n) - 1
<1> DEFINE h == Half(n)
<1>1. h \in Nat /\ h >= 1 /\ CircleSize(n) = 2 * h
  BY CircleSizes
<1>2. (n % 2 = 0 /\ CircleSize(n) = n) \/ (n % 2 # 0 /\ CircleSize(n) = n + 1)
  BY DEF CircleSize
<1> QED
  BY <1>1, <1>2 DEF Circled, Width

\* In a round of an odd number of teams exactly one position has a rest.
LEMMA RestsOnce ==
    ASSUME NEW n \in Nat, n >= 2, NEW m, m = CircleSize(n) - 1, NEW h, h = Half(n),
           NEW r \in 0 .. m - 1
    PROVE  /\ Resting(n, r) \in 0 .. h
           /\ n % 2 # 0 => Resting(n, r) \in 0 .. h - 1
           /\ \A i \in 0 .. h - 1 :
                 (At(m, r, i) # n /\ At(m, r, m - i) # n) <=> i # Resting(n, r)
<1>1. /\ m \in Nat /\ h \in Nat \ {0} /\ m = (2 * h) - 1
      /\ (n % 2 = 0 /\ n = m + 1) \/ (n % 2 # 0 /\ n = m)
  BY Sizes
<1>2. CASE n % 2 = 0 /\ n = m + 1
  <2>1. Resting(n, r) = h
    BY <1>2 DEF Resting
  <2>2. ASSUME NEW i \in 0 .. h - 1
        PROVE  At(m, r, i) # n /\ At(m, r, m - i) # n
    BY <1>1, <1>2 DEF At
  <2> QED
    BY <1>1, <1>2, <2>1, <2>2
<1>3. CASE n % 2 # 0 /\ n = m
  <2> DEFINE rest == IF r = 0 THEN 0 ELSE IF r < h THEN r ELSE m - r
  <2>1. Resting(n, r) = rest
    BY <1>3 DEF Resting
  <2>2. rest \in 0 .. h - 1
    BY <1>1
  <2>3. ASSUME NEW i \in 0 .. h - 1
        PROVE  (At(m, r, i) # m /\ At(m, r, m - i) # m) <=> i # rest
    <3>1. CASE r = 0
      BY <1>1, <3>1 DEF At
    <3>2. CASE r # 0 /\ r < h
      BY <1>1, <3>2 DEF At
    <3>3. CASE r # 0 /\ ~ (r < h)
      <4>1. At(m, r, i) # m
        BY <1>1, <3>3 DEF At
      <4>2. At(m, r, m - i) = m <=> i = m - r
        <5>1. m - i \in 1 .. m /\ r \in Nat \ {0} /\ m \in Nat
          BY <1>1, <3>3
        <5>2. ASSUME NEW s \in 1 .. m
              PROVE  At(m, r, s) = m <=> s = r
          BY <5>1, <5>2 DEF At
        <5>3. m - i = r <=> i = m - r
          BY <1>1, <5>1
        <5> QED
          BY <5>1, <5>2, <5>3
      <4> QED
        BY <3>3, <4>1, <4>2
    <3> QED
      BY <3>1, <3>2, <3>3
  <2> HIDE DEF rest
  <2> QED
    BY <1>1, <1>3, <2>1, <2>2, <2>3
<1> QED
  BY <1>1, <1>2, <1>3

\* The meetings of a round are the positions without the resting pair, in order.
LEMMA Positions ==
    ASSUME NEW n \in Nat, n >= 2, NEW m, m = CircleSize(n) - 1, NEW h, h = Half(n),
           NEW w, w = Width(n), NEW r \in 0 .. m - 1
    PROVE  /\ \A j \in 0 .. w - 1 :
                 Position(n, r, j) \in 0 .. h - 1 /\ Position(n, r, j) # Resting(n, r)
           /\ \A i \in 0 .. h - 1 :
                 i # Resting(n, r) => \E j \in 0 .. w - 1 : Position(n, r, j) = i
           /\ \A j, l \in 0 .. w - 1 : j < l => Position(n, r, j) < Position(n, r, l)
<1> DEFINE rest == Resting(n, r)
<1>1. /\ m \in Nat /\ h \in Nat \ {0} /\ w \in Nat \ {0} /\ m = (2 * h) - 1
      /\ (n % 2 = 0 /\ n = m + 1 /\ w = h) \/ (n % 2 # 0 /\ n = m /\ w = h - 1)
  BY Sizes
<1>2. (w = h /\ rest = h) \/ (w = h - 1 /\ rest \in 0 .. h - 1)
  <2>1. n % 2 = 0 => rest = h
    BY DEF Resting
  <2> QED
    BY <1>1, <2>1, RestsOnce
<1>3. \A j : Position(n, r, j) = IF j < rest THEN j ELSE j + 1
  BY DEF Position
<1> HIDE DEF rest
<1>4. ASSUME NEW j \in 0 .. w - 1
      PROVE  Position(n, r, j) \in 0 .. h - 1 /\ Position(n, r, j) # rest
  BY <1>1, <1>2, <1>3
<1>5. ASSUME NEW i \in 0 .. h - 1, i # rest
      PROVE  \E j \in 0 .. w - 1 : Position(n, r, j) = i
  <2>1. CASE i < rest
    <3>1. i \in 0 .. w - 1
      BY <1>1, <1>2, <2>1
    <3> QED
      BY <1>3, <2>1, <3>1
  <2>2. CASE ~ (i < rest)
    <3>1. i - 1 \in 0 .. w - 1 /\ ~ (i - 1 < rest) /\ (i - 1) + 1 = i
      BY <1>1, <1>2, <1>5, <2>2
    <3> QED
      BY <1>3, <3>1
  <2> QED
    BY <2>1, <2>2
<1>6. ASSUME NEW j \in 0 .. w - 1, NEW l \in 0 .. w - 1, j < l
      PROVE  Position(n, r, j) < Position(n, r, l)
  BY <1>1, <1>2, <1>3, <1>6
<1> QED
  BY <1>4, <1>5, <1>6 DEF rest

\* The place of the k-th fixture.
LEMMA NumbersDivide ==
    ASSUME NEW n \in Nat, n >= 2, NEW m, m = CircleSize(n) - 1, NEW h, h = Half(n),
           NEW w, w = Width(n), NEW k \in 1 .. w * m,
           NEW r, r = (k - 1) \div w, NEW j, j = (k - 1) % w
    PROVE  /\ r \in 0 .. m - 1 /\ j \in 0 .. w - 1 /\ k = ((w * r) + j) + 1
           /\ Position(n, r, j) \in 0 .. h - 1
           /\ Number(n, k) = (h * r) + Position(n, r, j)
           /\ Number(n, k) \in Meetings(n)
<1>1. m \in Nat /\ h \in Nat \ {0} /\ w \in Nat \ {0} /\ m = (2 * h) - 1
  BY Sizes
<1>2. k \in Nat /\ k - 1 \in Nat /\ k <= w * m /\ w * m \in Nat
  BY <1>1
<1>3. r \in Nat /\ j \in 0 .. w - 1 /\ k - 1 = (w * r) + j
  <2> HIDE DEF Width
  <2> QED
    BY <1>1, <1>2, Divided
<1>4. r < m
  <2>1. SUFFICES ASSUME m <= r
                 PROVE  FALSE
    BY <1>1, <1>3, <2>1
  <2>2. w * m <= w * r /\ w * m \in Nat /\ w * r \in Nat
    BY <1>1, <1>3, <2>1, ProductsGrow
  <2> QED
    BY <1>2, <1>3, <2>2
<1>5. r \in 0 .. m - 1 /\ k = ((w * r) + j) + 1
  <2>1. w * r \in Nat
    BY <1>1, <1>3, Multiplied, Zenon
  <2>2. ASSUME NEW x \in Nat, k - 1 = x + j
        PROVE  k = (x + j) + 1
    BY <1>2, <1>3, <2>2
  <2>3. r \in 0 .. m - 1
    BY <1>1, <1>3, <1>4
  <2> QED
    BY <1>3, <2>1, <2>2, <2>3
<1>6. Position(n, r, j) \in 0 .. h - 1 /\ Position(n, r, j) # Resting(n, r)
  BY <1>3, <1>5, Positions
<1>7. Number(n, k) = (h * r) + Position(n, r, j)
  BY DEF Number
<1>8. At(m, r, Position(n, r, j)) # n /\ At(m, r, m - Position(n, r, j)) # n
  BY <1>5, <1>6, RestsOnce
<1>9. Number(n, k) \in Meetings(n)
  BY <1>5, <1>6, <1>7, <1>8, MeetingNumbers
<1> QED
  BY <1>3, <1>5, <1>6, <1>7, <1>9

\* The order of the fixtures in closed form.
LEMMA NumbersInOrder ==
    ASSUME NEW n \in Nat, n >= 2, NEW m, m = CircleSize(n) - 1,
           NEW w, w = Width(n)
    PROVE  InOrder(Meetings(n)) = [k \in 1 .. w * m |-> Number(n, k)]
<1> DEFINE h == Half(n)
           N == w * m
           g == [k \in 1 .. N |-> Number(n, k)]
           round(k) == (k - 1) \div w
           place(k) == (k - 1) % w
<1>1. m \in Nat /\ h \in Nat \ {0} /\ w \in Nat \ {0} /\ m = (2 * h) - 1
  BY Sizes
<1>2. N \in Nat
  BY <1>1, Multiplied, Zenon
<1>3. Meetings(n) \in SUBSET Nat
  BY DEF Meetings
<1>4. ASSUME NEW k \in 1 .. N
      PROVE  /\ round(k) \in 0 .. m - 1 /\ place(k) \in 0 .. w - 1
             /\ k = ((w * round(k)) + place(k)) + 1
             /\ Position(n, round(k), place(k)) \in 0 .. h - 1
             /\ Number(n, k) = (h * round(k)) + Position(n, round(k), place(k))
             /\ Number(n, k) \in Meetings(n)
  BY NumbersDivide
<1>5. g \in [1 .. N -> Meetings(n)]
  BY <1>4
<1>6. ASSUME NEW p \in Meetings(n)
      PROVE  \E k \in 1 .. N : g[k] = p
  <2>1. p \in 0 .. (h * m) - 1
    BY <1>1 DEF Meetings
  <2>2. PICK r \in 0 .. m - 1, i \in 0 .. h - 1 : p = (h * r) + i
    BY <2>1, MeetingsMirror
  <2>3. At(m, r, i) # n /\ At(m, r, m - i) # n
    BY <1>6, <2>2, MeetingNumbers
  <2>4. i # Resting(n, r)
    BY <2>3, RestsOnce
  <2>5. PICK j \in 0 .. w - 1 : Position(n, r, j) = i
    BY <2>4, Positions
  <2>6. w * r \in Nat /\ w * (r + 1) \in Nat /\ w * (r + 1) <= N /\ w * (r + 1) = (w * r) + w
    <3>1. r + 1 \in Nat /\ r + 1 <= m /\ r \in Nat /\ w \in Nat /\ m \in Nat
      BY <1>1
    <3> HIDE DEF h
    <3>2. w * r \in Nat /\ w * (r + 1) \in Nat
      BY <3>1, Multiplied, Zenon
    <3>3. w * (r + 1) <= N
      BY <3>1, ProductsGrow, Zenon
    <3>4. w * (r + 1) = (w * r) + w
      BY <3>1
    <3> QED
      BY <3>2, <3>3, <3>4
  <2> DEFINE k == ((w * r) + j) + 1
  <2>7. k \in 1 .. N /\ k - 1 = (w * r) + j
    <3>1. ASSUME NEW x \in Nat, x + w <= N
          PROVE  (x + j) + 1 \in 1 .. N /\ ((x + j) + 1) - 1 = x + j
      BY <1>1, <1>2, <3>1
    <3> HIDE DEF N
    <3> QED
      BY <2>6, <3>1
  <2>8. round(k) = r /\ place(k) = j
    <3>1. r \in Nat /\ w \in Nat \ {0}
      BY <1>1
    <3> HIDE DEF k, N, h
    <3> QED
      BY <2>7, <3>1, DividesInto
  <2> HIDE DEF k, N
  <2>9. Number(n, k) = (h * r) + Position(n, r, j)
    BY <1>4, <2>7, <2>8
  <2>10. g[k] = p
    BY <2>2, <2>5, <2>7, <2>9
  <2> QED
    BY <2>7, <2>10
<1>7. ASSUME NEW k \in 1 .. N, NEW l \in 1 .. N, k < l
      PROVE  g[k] < g[l]
  <2> DEFINE r == round(k)
             q == round(l)
             i == Position(n, r, place(k))
             j == Position(n, q, place(l))
  <2>1. /\ r \in 0 .. m - 1 /\ place(k) \in 0 .. w - 1 /\ k = ((w * r) + place(k)) + 1
        /\ i \in 0 .. h - 1 /\ g[k] = (h * r) + i
    BY <1>4
  <2>2. /\ q \in 0 .. m - 1 /\ place(l) \in 0 .. w - 1 /\ l = ((w * q) + place(l)) + 1
        /\ j \in 0 .. h - 1 /\ g[l] = (h * q) + j
    BY <1>4
  <2>i. r = q /\ place(k) < place(l) => i < j
    BY <2>1, <2>2, Positions
  <2> DEFINE a == place(k)
             b == place(l)
  <2> HIDE DEF N, g, r, q, i, j, a, b
  <2>3. r \in Nat /\ q \in Nat /\ a \in 0 .. w - 1 /\ b \in 0 .. w - 1
        /\ k = ((w * r) + a) + 1 /\ l = ((w * q) + b) + 1
    BY <1>1, <2>1, <2>2 DEF a, b
  <2>4. i \in 0 .. h - 1 /\ j \in 0 .. h - 1 /\ g[k] = (h * r) + i /\ g[l] = (h * q) + j
    BY <2>1, <2>2
  <2>5. CASE r < q
    <3>1. (h * r) + h <= h * q /\ h * r \in Nat /\ h * q \in Nat
      BY <1>1, <2>3, <2>5, NextProduct
    <3> QED
      BY <1>1, <2>4, <3>1
  <2>6. CASE r = q
    <3>1. w * r \in Nat /\ h * r \in Nat
      BY <1>1, <2>3, Multiplied, Zenon
    <3>2. a < b
      BY <1>7, <2>3, <2>6, <3>1
    <3>3. i < j
      BY <2>i, <2>6, <3>2 DEF a, b
    <3> QED
      BY <1>1, <2>4, <2>6, <3>1, <3>3
  <2>7. CASE r > q
    <3>1. (w * q) + w <= w * r /\ w * r \in Nat /\ w * q \in Nat
      BY <1>1, <2>3, <2>7, NextProduct
    <3> QED
      BY <1>1, <1>7, <2>3, <3>1
  <2> QED
    BY <2>3, <2>5, <2>6, <2>7
<1> HIDE DEF N, g
<1>8. InOrder(Meetings(n)) = g
  BY <1>2, <1>3, <1>5, <1>6, <1>7, InOrderUnique
<1> QED
  BY <1>8 DEF g, N

\* Every meeting that is played has one number.
LEMMA NumberedOnce ==
    ASSUME NEW n \in Nat, n >= 2, NEW N, N = Width(n) * (CircleSize(n) - 1)
    PROVE  /\ \A k, l \in 1 .. N : Number(n, k) = Number(n, l) => k = l
           /\ \A p \in Meetings(n) : \E k \in 1 .. N : Number(n, k) = p
<1> DEFINE keys == Meetings(n)
<1>1. keys \in SUBSET Nat /\ keys \subseteq Nat
  BY DEF Meetings
<1>2. N \in Nat
  <2>1. Width(n) \in Nat /\ CircleSize(n) - 1 \in Nat
    BY Sizes
  <2> QED
    BY <2>1, Multiplied, Zenon
<1>3. IsFiniteSet(keys)
  <2>1. (Half(n) * (CircleSize(n) - 1)) \in Nat
    <3>1. Half(n) \in Nat /\ CircleSize(n) - 1 \in Nat
      BY Sizes
    <3> QED
      BY <3>1, Multiplied, Zenon
  <2> DEFINE b == Half(n) * (CircleSize(n) - 1)
  <2>2. b \in Nat /\ \A k \in keys : k <= b
    <3>1. keys \subseteq 0 .. b - 1
      BY DEF Meetings
    <3> HIDE DEF b, keys
    <3>2. b \in Nat
      BY <2>1 DEF b
    <3> QED
      BY <3>1, <3>2
  <2> HIDE DEF b
  <2> HIDE DEF keys
  <2> QED
    BY <1>1, <2>2, FS_BoundedSetOfNaturals
<1> DEFINE c == Cardinality(keys)
<1>4. InOrder(keys) = [k \in 1 .. N |-> Number(n, k)]
  BY NumbersInOrder
<1> HIDE DEF keys
<1>5. /\ c \in Nat /\ InOrder(keys) \in [1 .. c -> keys]
      /\ \A k \in keys : \E i \in 1 .. c : InOrder(keys)[i] = k
      /\ \A i, j \in 1 .. c : i < j => InOrder(keys)[i] < InOrder(keys)[j]
  BY <1>1, <1>3, InOrderIncreases
<1>6. 1 .. c = 1 .. N
  BY <1>4, <1>5
<1>7. \A k \in 1 .. N : InOrder(keys)[k] = Number(n, k) /\ Number(n, k) \in Nat
  BY <1>1, <1>4, <1>5, <1>6
<1>8. ASSUME NEW k \in 1 .. N, NEW l \in 1 .. N, Number(n, k) = Number(n, l)
      PROVE  k = l
  <2>1. k < l => Number(n, k) < Number(n, l)
    BY <1>5, <1>6, <1>7
  <2>2. l < k => Number(n, l) < Number(n, k)
    BY <1>5, <1>6, <1>7
  <2>3. Number(n, k) \in Nat
    BY <1>7
  <2> QED
    BY <1>2, <1>8, <2>1, <2>2, <2>3
<1>9. \A p \in keys : \E k \in 1 .. N : Number(n, k) = p
  BY <1>5, <1>6, <1>7
<1> QED
  BY <1>8, <1>9 DEF keys

\* Round and position of the k-th fixture, and who plays.
LEMMA PairIs ==
    ASSUME NEW n \in Nat, n >= 2, NEW m, m = CircleSize(n) - 1, NEW h, h = Half(n),
           NEW w, w = Width(n), NEW k \in 1 .. w * m,
           NEW r, r = (k - 1) \div w, NEW i, i = Position(n, r, (k - 1) % w)
    PROVE  /\ r \in 0 .. m - 1 /\ i \in 0 .. h - 1 /\ Number(n, k) = (h * r) + i
           /\ CirclePairs(n)[k] = Meeting(n, Number(n, k))
           /\ CirclePairs(n)[k][1] \in 0 .. n - 1
           /\ CirclePairs(n)[k][2] \in 0 .. n - 1
           /\ CirclePairs(n)[k][1] # CirclePairs(n)[k][2]
           /\ MeetAt(m, r, i, CirclePairs(n)[k][1], CirclePairs(n)[k][2])
<1>0. /\ Circled(h, m) /\ m \in Nat /\ h \in Nat \ {0} /\ w \in Nat \ {0} /\ m = (2 * h) - 1
      /\ n = m + 1 \/ n = m
  BY Sizes
<1>1. /\ r \in 0 .. m - 1 /\ i \in 0 .. h - 1
      /\ Number(n, k) = (h * r) + i /\ Number(n, k) \in Meetings(n)
  BY NumbersDivide
<1> DEFINE p == Number(n, k)
           N == w * m
<1>2. CirclePairs(n)[k] = Meeting(n, p)
  <2>1. InOrder(Meetings(n)) = [l \in 1 .. N |-> Number(n, l)]
    BY NumbersInOrder
  <2> HIDE DEF N
  <2>2. k \in 1 .. N
    BY DEF N
  <2> QED
    BY <2>1, <2>2 DEF CirclePairs
<1>3. \/ Meeting(n, p) = << At(m, r, i), At(m, r, m - i) >>
      \/ Meeting(n, p) = << At(m, r, m - i), At(m, r, i) >>
  <2>1. p \in 0 .. (h * m) - 1 /\ p \div h = r /\ p % h = i
    BY <1>1, MeetingNumbers
  <2> HIDE DEF p
  <2> QED
    BY <2>1, MeetingsMirror
<1>4. At(m, r, i) # n /\ At(m, r, m - i) # n
  BY <1>1, MeetingNumbers
<1>5. /\ At(m, r, i) \in 0 .. m /\ At(m, r, m - i) \in 0 .. m
      /\ At(m, r, i) # At(m, r, m - i)
  BY <1>0, <1>1 DEF At
<1>6. At(m, r, i) \in 0 .. n - 1 /\ At(m, r, m - i) \in 0 .. n - 1
  BY <1>0, <1>4, <1>5
<1> HIDE DEF p
<1>7. MeetAt(m, r, i, CirclePairs(n)[k][1], CirclePairs(n)[k][2])
  BY <1>2, <1>3 DEF MeetAt
<1> QED
  BY <1>1, <1>2, <1>3, <1>5, <1>6, <1>7 DEF p

\* The two of the k-th fixture.
Met(n, k) == {CirclePairs(n)[k][1], CirclePairs(n)[k][2]}

EveryTwo(n, N) ==
    /\ N \in Nat \ {0} /\ 2 * N = n * (n - 1)
    /\ DOMAIN CirclePairs(n) = 1 .. N
    /\ \A k, l \in 1 .. N : Met(n, k) = Met(n, l) => k = l
    /\ \A x, y \in 0 .. n - 1 : x # y => \E k \in 1 .. N : Met(n, k) = {x, y}

\* Every two of the circle meet exactly once.
LEMMA EveryTwoMeet ==
    ASSUME NEW n \in Nat, n >= 2, NEW N, N = Width(n) * (CircleSize(n) - 1)
    PROVE  EveryTwo(n, N)
<1> DEFINE h == Half(n)
           w == Width(n)
           m == CircleSize(n) - 1
           round(k) == (k - 1) \div w
           place(k) == Position(n, round(k), (k - 1) % w)
           one(k) == CirclePairs(n)[k][1]
           two(k) == CirclePairs(n)[k][2]
<1>1. /\ Circled(h, m) /\ m \in Nat /\ h \in Nat \ {0} /\ w \in Nat \ {0} /\ m = (2 * h) - 1
      /\ (n = m + 1 /\ w = h) \/ (n = m /\ w = h - 1)
  BY Sizes
<1>2. N \in Nat \ {0} /\ 2 * N = n * (n - 1)
  <2>0. N = w * m
    OBVIOUS
  <2> HIDE DEF h, w, m
  <2>1. CASE n = m + 1 /\ w = h
    <3>1. 2 * (h * ((2 * h) - 1)) = (2 * h) * ((2 * h) - 1)
      BY <1>1
    <3>2. h * ((2 * h) - 1) \in Nat \ {0}
      BY <1>1
    <3>3. n = 2 * h /\ n - 1 = (2 * h) - 1
      BY <1>1, <2>1
    <3> QED
      BY <1>1, <2>0, <2>1, <3>1, <3>2, <3>3
  <2>2. CASE n = m /\ w = h - 1
    <3>1. 2 * ((h - 1) * ((2 * h) - 1)) = ((2 * h) - 1) * ((2 * h) - 2)
      BY <1>1
    <3>2. (h - 1) * ((2 * h) - 1) \in Nat \ {0}
      BY <1>1, <2>2
    <3>3. n = (2 * h) - 1 /\ n - 1 = (2 * h) - 2
      BY <1>1, <2>2
    <3> QED
      BY <1>1, <2>0, <2>2, <3>1, <3>2, <3>3
  <2> QED
    BY <1>1, <2>1, <2>2
<1>3. DOMAIN CirclePairs(n) = 1 .. N
  <2>1. InOrder(Meetings(n)) = [l \in 1 .. N |-> Number(n, l)]
    BY NumbersInOrder
  <2> QED
    BY <2>1 DEF CirclePairs
<1>4. ASSUME NEW k \in 1 .. N
      PROVE  /\ round(k) \in 0 .. m - 1 /\ place(k) \in 0 .. h - 1
             /\ Number(n, k) = (h * round(k)) + place(k)
             /\ MeetAt(m, round(k), place(k), one(k), two(k))
  BY PairIs
<1>5. ASSUME NEW k \in 1 .. N, NEW l \in 1 .. N, {one(k), two(k)} = {one(l), two(l)}
      PROVE  k = l
  <2>1. MeetAt(m, round(l), place(l), one(k), two(k))
    BY <1>4, <1>5 DEF MeetAt
  <2>2. round(k) = round(l) /\ place(k) = place(l)
    <3> HIDE DEF h, m, round, place, one, two
    <3>1. /\ Circled(h, m)
          /\ round(k) \in 0 .. m - 1 /\ place(k) \in 0 .. h - 1
          /\ round(l) \in 0 .. m - 1 /\ place(l) \in 0 .. h - 1
          /\ MeetAt(m, round(k), place(k), one(k), two(k))
          /\ MeetAt(m, round(l), place(l), one(k), two(k))
      BY <1>1, <1>4, <2>1
    <3> QED
      BY <3>1, MeetOnce
  <2>3. Number(n, k) = Number(n, l)
    BY <1>4, <2>2
  <2> QED
    BY <2>3, NumberedOnce
<1>6. ASSUME NEW x \in 0 .. n - 1, NEW y \in 0 .. n - 1, x # y
      PROVE  \E k \in 1 .. N : {one(k), two(k)} = {x, y}
  <2>1. x \in 0 .. m /\ y \in 0 .. m
    BY <1>1
  <2>2. PICK r \in 0 .. m - 1, i \in 0 .. h - 1 : MeetAt(m, r, i, x, y)
    <3> HIDE DEF h, m
    <3> QED
      BY <1>1, <1>6, <2>1, AllMeet
  <2>3. At(m, r, i) # n /\ At(m, r, m - i) # n
    <3>1. x # n /\ y # n
      OBVIOUS
    <3>2. At(m, r, i) \in {x, y} /\ At(m, r, m - i) \in {x, y}
      BY <2>2 DEF MeetAt
    <3> QED
      BY <3>1, <3>2
  <2> DEFINE p == (h * r) + i
  <2>4. p \in Meetings(n)
    BY <2>2, <2>3, MeetingNumbers
  <2>5. PICK k \in 1 .. N : Number(n, k) = p
    BY <2>4, NumberedOnce
  <2>6. round(k) = r /\ place(k) = i
    <3>1. p \div h = r /\ p % h = i
      BY <2>2, MeetingNumbers
    <3>2. (h * round(k)) + place(k) = p /\ round(k) \in Nat /\ place(k) \in 0 .. h - 1
      BY <1>4, <2>5
    <3>3. p \div h = round(k) /\ p % h = place(k)
      <4> HIDE DEF h, m, round, place, p
      <4> QED
        BY <1>1, <3>2, DividesInto
    <3> QED
      BY <3>1, <3>3
  <2>7. {one(k), two(k)} = {x, y}
    BY <1>4, <2>2, <2>6 DEF MeetAt
  <2> QED
    BY <2>7
<1>7. \A k : Met(n, k) = {one(k), two(k)}
  BY DEF Met
<1> HIDE DEF one, two
<1>8. ASSUME NEW k \in 1 .. N, NEW l \in 1 .. N, Met(n, k) = Met(n, l)
      PROVE  k = l
  BY <1>5, <1>7, <1>8
<1>9. ASSUME NEW x \in 0 .. n - 1, NEW y \in 0 .. n - 1, x # y
      PROVE  \E k \in 1 .. N : Met(n, k) = {x, y}
  <2>1. PICK k \in 1 .. N : {one(k), two(k)} = {x, y}
    BY <1>6, <1>9
  <2> QED
    BY <1>7, <2>1
<1> QED
  BY <1>2, <1>3, <1>8, <1>9 DEF EveryTwo

\* Neighbours in the circle stay neighbours, so who meets late in a round does
\* not meet much earlier in the next one.
LEMMA RoundsApart ==
    ASSUME NEW h, NEW m, Circled(h, m), NEW r \in 0 .. m - 2,
           NEW i \in 0 .. h - 1, NEW j \in 0 .. h - 1, j <= i - 2,
           NEW a, NEW b, MeetAt(m, r, i, a, b),
           NEW c, NEW d, MeetAt(m, r + 1, j, c, d)
    PROVE  {a, b} \cap {c, d} = {}
<1> USE DEF Circled
<1>1. At(m, r, i) # At(m, r + 1, j) /\ At(m, r, i) # At(m, r + 1, m - j)
  BY DEF At
<1>2. At(m, r, m - i) # At(m, r + 1, j) /\ At(m, r, m - i) # At(m, r + 1, m - j)
  BY DEF At
<1> QED
  BY <1>1, <1>2 DEF MeetAt

\* Different fixtures of one round.
LEMMA PlacesApart ==
    ASSUME NEW h, NEW m, Circled(h, m), NEW r \in 0 .. m - 1,
           NEW i \in 0 .. h - 1, NEW j \in 0 .. h - 1, i # j,
           NEW a, NEW b, MeetAt(m, r, i, a, b),
           NEW c, NEW d, MeetAt(m, r, j, c, d)
    PROVE  {a, b} \cap {c, d} = {}
<1> USE DEF Circled
<1>1. At(m, r, i) # At(m, r, j) /\ At(m, r, i) # At(m, r, m - j)
  BY DEF At
<1>2. At(m, r, m - i) # At(m, r, j) /\ At(m, r, m - i) # At(m, r, m - j)
  BY DEF At
<1> QED
  BY <1>1, <1>2 DEF MeetAt

\* No team plays twice on one day.
LEMMA DaysApart ==
    ASSUME NEW n \in Nat, n >= 2, NEW N, N = Width(n) * (CircleSize(n) - 1),
           NEW k \in 1 .. N, NEW l \in 1 .. N, k # l, Day(n, k) = Day(n, l)
    PROVE  Met(n, k) \cap Met(n, l) = {}
<1> DEFINE h == Half(n)
           w == Width(n)
           m == CircleSize(n) - 1
           u == Max({Half(n) - 1, 1})
           round(x) == (x - 1) \div w
           place(x) == Position(n, round(x), (x - 1) % w)
           one(x) == CirclePairs(n)[x][1]
           two(x) == CirclePairs(n)[x][2]
<1>1. /\ Circled(h, m) /\ m \in Nat /\ h \in Nat \ {0} /\ w \in Nat \ {0} /\ m = (2 * h) - 1
      /\ \/ n % 2 = 0 /\ n = m + 1 /\ w = h
         \/ n % 2 # 0 /\ n = m /\ w = h - 1
  BY Sizes
<1>2. ASSUME NEW x \in 1 .. N
      PROVE  /\ round(x) \in 0 .. m - 1 /\ place(x) \in 0 .. h - 1
             /\ Number(n, x) = (h * round(x)) + place(x)
             /\ MeetAt(m, round(x), place(x), one(x), two(x))
  BY PairIs
<1>3. u = IF h = 1 THEN 1 ELSE h - 1
  <2>1. {Half(n) - 1, 1} \in SUBSET Nat /\ {Half(n) - 1, 1} # {} /\ \A x \in {Half(n) - 1, 1} : x <= h
    BY <1>1
  <2>2. u \in {h - 1, 1} /\ h - 1 <= u /\ 1 <= u
    BY <1>1, <2>1, MaxIsGreatest
  <2> QED
    BY <1>1, <2>2
<1>4. CASE round(k) = round(l)
  <2>1. place(k) # place(l)
    <3>1. Number(n, k) # Number(n, l)
      BY NumberedOnce
    <3> QED
      BY <1>2, <1>4, <3>1
  <2> HIDE DEF h, m, round, place, one, two
  <2>2. /\ Circled(h, m) /\ round(k) \in 0 .. m - 1
        /\ place(k) \in 0 .. h - 1 /\ place(l) \in 0 .. h - 1
        /\ MeetAt(m, round(k), place(k), one(k), two(k))
        /\ MeetAt(m, round(k), place(l), one(l), two(l))
    BY <1>1, <1>2, <1>4
  <2>3. {one(k), two(k)} \cap {one(l), two(l)} = {}
    BY <2>1, <2>2, PlacesApart
  <2> QED
    BY <2>3 DEF one, two, Met
<1>5. CASE n % 2 # 0
  <2>1. w = u /\ Day(n, k) = round(k) /\ Day(n, l) = round(l)
    BY <1>1, <1>3, <1>5 DEF Day
  <2> QED
    BY <1>4, <2>1
<1>6. CASE n % 2 = 0 /\ round(k) # round(l)
  <2>1. ASSUME NEW x \in 1 .. N
        PROVE  /\ round(x) \in 0 .. m - 1 /\ place(x) \in 0 .. h - 1
               /\ x - 1 = (h * round(x)) + place(x)
               /\ x - 1 = (u * Day(n, x)) + ((x - 1) % u) /\ (x - 1) % u \in 0 .. u - 1
    <3>1. place(x) = (x - 1) % w
      <4>1. round(x) \in 0 .. m - 1 /\ (x - 1) % w \in 0 .. w - 1
        BY NumbersDivide
      <4>2. Resting(n, round(x)) = h
        BY <1>6 DEF Resting
      <4> QED
        BY <1>1, <1>6, <4>1, <4>2 DEF Position
    <3>2. x = ((w * round(x)) + ((x - 1) % w)) + 1
      BY NumbersDivide
    <3>3. w = h
      BY <1>1, <1>6
    <3>4. x - 1 \in Nat /\ u \in Nat \ {0}
      BY <1>1, <1>3
    <3>5. Day(n, x) = (x - 1) \div u
      BY DEF Day
    <3> HIDE DEF h, w, m, u, round, place
    <3>6. x - 1 = (u * Day(n, x)) + ((x - 1) % u) /\ (x - 1) % u \in 0 .. u - 1
      BY <3>4, <3>5, Divided
    <3>7. x - 1 = (h * round(x)) + place(x)
      <4>1. round(x) \in Nat /\ h \in Nat /\ place(x) \in Nat
        BY <1>1, <1>2
      <4>2. h * round(x) \in Nat
        BY <4>1, Multiplied, Zenon
      <4> QED
        BY <3>1, <3>2, <3>3, <4>1, <4>2
    <3> QED
      BY <1>2, <3>6, <3>7
  <2>2. ASSUME NEW x \in 1 .. N, NEW y \in 1 .. N, x < y, round(x) # round(y), Day(n, x) = Day(n, y)
        PROVE  round(y) = round(x) + 1 /\ round(x) \in 0 .. m - 2 /\ place(y) <= place(x) - 2
    <3>1. h >= 2 /\ u = h - 1
      <4>1. h = 1 => 1 .. N = {1}
        BY <1>1, <1>6
      <4>2. h = 1 => FALSE
        BY <2>2, <4>1
      <4> QED
        BY <1>1, <1>3, <4>2
    <3>2. y - x <= h - 2
      <4> DEFINE a == u * Day(n, x)
                 i == (x - 1) % u
                 j == (y - 1) % u
      <4>1. x - 1 = a + i /\ y - 1 = a + j /\ i \in 0 .. u - 1 /\ j \in 0 .. u - 1
        BY <2>1, <2>2
      <4>2. a = (x - 1) - i /\ x \in Nat /\ y \in Nat
        <5>1. u * Day(n, x) \in Int
          <6>1. u \in Nat /\ x - 1 \in Nat /\ u \in Nat \ {0}
            BY <1>1, <1>3
          <6>2. Day(n, x) \in Nat
            <7>1. Day(n, x) = (x - 1) \div u
              BY DEF Day
            <7> HIDE DEF u
            <7> QED
              BY <6>1, <7>1, Quotient
          <6> HIDE DEF u
          <6>3. u * Day(n, x) \in Nat
            BY <6>1, <6>2, Multiplied, Zenon
          <6> QED
            BY <6>3
        <5> HIDE DEF a, i, j, u
        <5>2. a \in Int /\ i \in Int /\ x \in Int
          BY <4>1, <5>1 DEF a
        <5> QED
          BY <4>1, <5>2
      <4> HIDE DEF a, i, j, u
      <4> QED
        BY <1>1, <3>1, <4>1, <4>2
    <3>3. /\ x - 1 = (h * round(x)) + place(x) /\ y - 1 = (h * round(y)) + place(y)
          /\ round(x) \in 0 .. m - 1 /\ round(y) \in 0 .. m - 1
          /\ place(x) \in 0 .. h - 1 /\ place(y) \in 0 .. h - 1
      BY <2>1
    <3> HIDE DEF h, m, round, place
    <3>4. round(x) \in Nat /\ round(y) \in Nat /\ h \in Nat /\ x \in Int /\ y \in Int
      BY <1>1, <3>3
    <3>5. h * round(x) \in Nat /\ h * round(y) \in Nat
      BY <3>4, Multiplied, Zenon
    <3>6. round(x) < round(y)
      <4>1. CASE round(y) < round(x)
        <5>1. (h * round(y)) + h <= h * round(x)
          BY <3>4, <4>1, NextProduct
        <5> QED
          BY <2>2, <3>3, <3>4, <3>5, <5>1
      <4> QED
        BY <2>2, <3>4, <4>1
    <3>7. round(y) = round(x) + 1
      <4>1. CASE round(x) + 1 < round(y)
        <5>1. (h * (round(x) + 1)) + h <= h * round(y)
          <6>1. round(x) + 1 \in Nat
            BY <3>4
          <6> QED
            BY <3>4, <4>1, <6>1, NextProduct
        <5>2. (h * round(x)) + h <= h * (round(x) + 1) /\ h * (round(x) + 1) \in Nat
          <6>1. round(x) + 1 \in Nat /\ round(x) < round(x) + 1
            BY <3>4
          <6> QED
            BY <3>4, <6>1, NextProduct
        <5> QED
          BY <3>2, <3>3, <3>4, <3>5, <5>1, <5>2
      <4> QED
        BY <3>4, <3>6, <4>1
    <3>8. h * round(y) = (h * round(x)) + h
      BY <3>4, <3>7
    <3>9. round(x) \in 0 .. m - 2
      BY <1>1, <3>3, <3>7
    <3>10. place(y) <= place(x) - 2
      BY <3>2, <3>3, <3>4, <3>5, <3>8
    <3> QED
      BY <3>7, <3>9, <3>10
  <2>3. ASSUME NEW x \in 1 .. N, NEW y \in 1 .. N, x < y, round(x) # round(y), Day(n, x) = Day(n, y)
        PROVE  {one(x), two(x)} \cap {one(y), two(y)} = {}
    <3>1. round(y) = round(x) + 1 /\ round(x) \in 0 .. m - 2 /\ place(y) <= place(x) - 2
      BY <2>2, <2>3
    <3> HIDE DEF h, m, round, place, one, two
    <3>2. /\ Circled(h, m)
          /\ place(x) \in 0 .. h - 1 /\ place(y) \in 0 .. h - 1
          /\ MeetAt(m, round(x), place(x), one(x), two(x))
          /\ MeetAt(m, round(x) + 1, place(y), one(y), two(y))
      BY <1>1, <1>2, <3>1
    <3> QED
      BY <3>1, <3>2, RoundsApart
  <2>4. {one(k), two(k)} \cap {one(l), two(l)} = {}
    <3>1. k < l \/ l < k
      OBVIOUS
    <3>2. CASE k < l
      BY <1>6, <2>3, <3>2
    <3>3. CASE l < k
      BY <1>6, <2>3, <3>3
    <3> QED
      BY <3>1, <3>2, <3>3
  <2> QED
    BY <2>4 DEF Met
<1> QED
  BY <1>4, <1>5, <1>6

\* All fixtures of c teams: table is the round robin of these teams.
League(table, N, teams, c, group) ==
    /\ N \in Nat \ {0} /\ 2 * N = c * (c - 1)
    /\ DOMAIN table = 1 .. N /\ table = [k \in 1 .. N |-> table[k]]
    /\ \A k \in 1 .. N :
          /\ table[k] = Fixture(k, group, table[k].home, table[k].away)
          /\ table[k].home \in teams /\ table[k].away \in teams
          /\ table[k].home # table[k].away
    /\ \A k, l \in 1 .. N :
          {table[k].home, table[k].away} = {table[l].home, table[l].away} => k = l
    /\ \A x, y \in teams :
          x # y => \E k \in 1 .. N : {table[k].home, table[k].away} = {x, y}
    /\ \A k, l \in 1 .. N :
          (k # l /\ Day(c, k) = Day(c, l)) =>
              {table[k].home, table[k].away} \cap {table[l].home, table[l].away} = {}

\* _generate_round_robin draws a league, for any list of distinct teams.
LEMMA RoundRobinIsLeague ==
    ASSUME NEW c \in Nat, c >= 2, NEW T, NEW teams \in Bijection(1 .. c, T), Len(teams) = c,
           NEW group, NEW N, N = Width(c) * (CircleSize(c) - 1)
    PROVE  League(RoundRobin(teams, group), N, T, c, group)
<1> DEFINE table == RoundRobin(teams, group)
           one(k) == CirclePairs(c)[k][1]
           two(k) == CirclePairs(c)[k][2]
           who == [x \in 0 .. c - 1 |-> teams[x + 1]]
<1>1. /\ teams \in [1 .. c -> T]
      /\ \A i, j \in 1 .. c : teams[i] = teams[j] => i = j
      /\ \A x \in T : \E i \in 1 .. c : teams[i] = x
  BY DEF Bijection, Injection, Surjection, IsInjective
<1>2. EveryTwo(c, N) /\ \A k : Met(c, k) = {one(k), two(k)}
  BY EveryTwoMeet DEF Met
<1>3. ASSUME NEW k \in 1 .. N
      PROVE  one(k) \in 0 .. c - 1 /\ two(k) \in 0 .. c - 1 /\ one(k) # two(k)
  BY PairIs
<1>4. ASSUME NEW k \in 1 .. N, NEW l \in 1 .. N, k # l, Day(c, k) = Day(c, l)
      PROVE  Met(c, k) \cap Met(c, l) = {}
  BY <1>4, DaysApart
<1> HIDE DEF one, two
<1>5. table = [k \in 1 .. N |-> Fixture(k, group, teams[one(k) + 1], teams[two(k) + 1])]
  BY <1>2 DEF RoundRobin, EveryTwo, one, two
<1> HIDE DEF table
<1>6. ASSUME NEW k \in 1 .. N
      PROVE  /\ table[k] = Fixture(k, group, table[k].home, table[k].away)
             /\ table[k].home = teams[one(k) + 1] /\ table[k].away = teams[two(k) + 1]
  BY <1>5 DEF Fixture
<1>7. /\ who \in [0 .. c - 1 -> T]
      /\ \A x, y \in 0 .. c - 1 : who[x] = who[y] => x = y
      /\ \A u \in T : \E x \in 0 .. c - 1 : who[x] = u
  <2>1. \A x \in 0 .. c - 1 : x + 1 \in 1 .. c
    OBVIOUS
  <2>2. \A i \in 1 .. c : i - 1 \in 0 .. c - 1 /\ (i - 1) + 1 = i
    OBVIOUS
  <2>3. who \in [0 .. c - 1 -> T]
    BY <1>1, <2>1
  <2>4. ASSUME NEW x \in 0 .. c - 1, NEW y \in 0 .. c - 1, who[x] = who[y]
        PROVE  x = y
    <3>1. x + 1 = y + 1
      BY <1>1, <2>1, <2>4
    <3> QED
      BY <3>1
  <2>5. ASSUME NEW u \in T
        PROVE  \E x \in 0 .. c - 1 : who[x] = u
    <3>1. PICK i \in 1 .. c : teams[i] = u
      BY <1>1
    <3> QED
      BY <2>2, <3>1
  <2> QED
    BY <2>3, <2>4, <2>5
<1>8. \A k \in 1 .. N : table[k].home = who[one(k)] /\ table[k].away = who[two(k)]
  BY <1>3, <1>6
<1> HIDE DEF who
<1>9. ASSUME NEW k \in 1 .. N
      PROVE  /\ table[k].home \in T /\ table[k].away \in T
             /\ table[k].home # table[k].away
  BY <1>3, <1>7, <1>8
<1>10. ASSUME NEW k \in 1 .. N, NEW l \in 1 .. N,
              {table[k].home, table[k].away} = {table[l].home, table[l].away}
       PROVE  k = l
  <2>1. one(k) \in {one(l), two(l)} /\ two(k) \in {one(l), two(l)}
    <3>1. \/ table[k].home = table[l].home /\ table[k].away = table[l].away
          \/ table[k].home = table[l].away /\ table[k].away = table[l].home
      BY <1>10
    <3> QED
      BY <1>3, <1>7, <1>8, <3>1
  <2>2. {one(k), two(k)} = {one(l), two(l)}
    BY <1>3, <2>1
  <2>3. Met(c, k) = Met(c, l)
    BY <1>2, <2>2
  <2> QED
    BY <1>2, <2>3 DEF EveryTwo
<1>11. ASSUME NEW x \in T, NEW y \in T, x # y
       PROVE  \E k \in 1 .. N : {table[k].home, table[k].away} = {x, y}
  <2>1. PICK i \in 0 .. c - 1, j \in 0 .. c - 1 : who[i] = x /\ who[j] = y
    BY <1>7
  <2>2. i # j
    BY <1>11, <2>1
  <2>3. PICK k \in 1 .. N : Met(c, k) = {i, j}
    BY <1>2, <2>2 DEF EveryTwo
  <2>4. \/ one(k) = i /\ two(k) = j
        \/ one(k) = j /\ two(k) = i
    BY <1>2, <2>3
  <2>5. {table[k].home, table[k].away} = {x, y}
    BY <1>8, <2>1, <2>4
  <2> QED
    BY <2>5
<1>12. ASSUME NEW k \in 1 .. N, NEW l \in 1 .. N, k # l, Day(c, k) = Day(c, l)
       PROVE  {table[k].home, table[k].away} \cap {table[l].home, table[l].away} = {}
  <2>1. {one(k), two(k)} \cap {one(l), two(l)} = {}
    BY <1>2, <1>4, <1>12
  <2>2. one(k) # one(l) /\ one(k) # two(l) /\ two(k) # one(l) /\ two(k) # two(l)
    BY <2>1
  <2>3. /\ table[k].home # table[l].home /\ table[k].home # table[l].away
        /\ table[k].away # table[l].home /\ table[k].away # table[l].away
    BY <1>3, <1>7, <1>8, <2>2
  <2> QED
    BY <2>3
<1>13. DOMAIN table = 1 .. N /\ table = [k \in 1 .. N |-> table[k]]
  BY <1>5
<1> QED
  BY <1>2, <1>6, <1>9, <1>10, <1>11, <1>12, <1>13 DEF League, EveryTwo, table

-----------------------------------------------------------------------------
(* Groups *)

Keys(n, g) == {t \in 1 .. n : (t - 1) % NumGroups(n) = g - 1}

\* The teams of a group in the order of registration: four or more of them.
LEMMA GroupsAreFilled ==
    ASSUME NEW n \in Nat, n >= 8, NEW g \in 1 .. NumGroups(n),
           NEW c, c = Cardinality(Keys(n, g))
    PROVE  /\ IsFiniteSet(Keys(n, g)) /\ c \in Nat /\ c >= 2
           /\ GroupTeams(n, g) \in Bijection(1 .. c, Keys(n, g))
           /\ Len(GroupTeams(n, g)) = c
           /\ Range(GroupTeams(n, g)) = Keys(n, g)
<1> DEFINE keys == Keys(n, g)
           teams == GroupTeams(n, g)
           G == NumGroups(n)
<1>1. keys \in SUBSET Nat /\ \A k \in keys : k <= n
  BY DEF Keys
<1>2. (G = 2 /\ n >= 8) \/ (G = 4 /\ n >= 13)
  BY DEF NumGroups
<1>3. g \in keys /\ g + G \in keys
  <2>1. g \in 1 .. n /\ g + G \in 1 .. n
    BY <1>2
  <2>2. (g - 1) % G = g - 1 /\ ((g + G) - 1) % G = g - 1
    <3>1. CASE G = 2
      <4>1. g \in 1 .. 2
        BY <3>1
      <4> HIDE DEF G
      <4> QED
        BY <3>1, <4>1
    <3>2. CASE G = 4
      <4>1. g \in 1 .. 4
        BY <3>2
      <4> HIDE DEF G
      <4> QED
        BY <3>2, <4>1
    <3> QED
      BY <1>2, <3>1, <3>2
  <2> QED
    BY <2>1, <2>2 DEF Keys
<1>4. IsFiniteSet(keys)
  <2> HIDE DEF keys
  <2> QED
    BY <1>1, FS_BoundedSetOfNaturals
<1>5. teams = InOrder(keys)
  BY DEF GroupTeams, Keys
<1> HIDE DEF keys, teams
<1>6. /\ c \in Nat /\ teams \in [1 .. c -> keys]
      /\ \A k \in keys : \E i \in 1 .. c : teams[i] = k
      /\ \A i, j \in 1 .. c : i < j => teams[i] < teams[j]
  BY <1>1, <1>4, <1>5, InOrderIncreases DEF keys
<1>7. c >= 2
  <2>1. PICK i \in 1 .. c, j \in 1 .. c : teams[i] = g /\ teams[j] = g + G
    BY <1>3, <1>6
  <2>2. i # j
    BY <1>2, <2>1
  <2> QED
    BY <1>6, <2>2
<1>8. \A i, j \in 1 .. c : teams[i] = teams[j] => i = j
  <2> SUFFICES ASSUME NEW i \in 1 .. c, NEW j \in 1 .. c, teams[i] = teams[j], i # j
               PROVE  FALSE
    OBVIOUS
  <2>1. teams[i] < teams[j] \/ teams[j] < teams[i]
    BY <1>6
  <2>2. teams[i] \in Nat
    BY <1>1, <1>6
  <2> QED
    BY <2>1, <2>2
<1>9. teams \in Bijection(1 .. c, keys)
  BY <1>6, <1>8 DEF Bijection, Injection, Surjection, IsInjective
<1>10. Len(teams) = c
  BY <1>6
<1>11. Range(teams) = keys
  BY <1>6 DEF Range
<1> QED
  BY <1>4, <1>6, <1>7, <1>9, <1>10, <1>11 DEF keys, teams

\* What a fixture of a tournament of n teams may be.
AnyFixture(n) ==
    [round : Nat \ {0}, group : Nat, home : 1 .. n, away : 0 .. n, bye : BOOLEAN,
     done : BOOLEAN, score : Nat \X Nat]

\* The rows of a group are consecutive, and make up its table.
Selects(rows, g, table, N) ==
    \E off \in Nat :
        /\ off + 1 .. off + N \subseteq DOMAIN rows
        /\ \A k \in DOMAIN rows : rows[k].group = g <=> k \in off + 1 .. off + N
        /\ \A j \in 1 .. N : rows[off + j] = table[j]

\* The rows of a league that stands alone.
LEMMA LeagueSelected ==
    ASSUME NEW n \in Nat, NEW T, T \subseteq 1 .. n, NEW c, NEW g \in Nat,
           NEW table, NEW N, League(table, N, T, c, g)
    PROVE  /\ table \in Seq(AnyFixture(n)) /\ Len(table) = N /\ N \in Nat
           /\ \A k \in 1 .. N : table[k].group = g /\ ~ table[k].done /\ ~ table[k].bye
           /\ Selects(table, g, table, N)
<1>1. /\ N \in Nat /\ table = [k \in 1 .. N |-> table[k]] /\ DOMAIN table = 1 .. N
      /\ \A k \in 1 .. N :
            /\ table[k] = Fixture(k, g, table[k].home, table[k].away)
            /\ table[k].home \in T /\ table[k].away \in T
  BY DEF League
<1>2. ASSUME NEW k \in 1 .. N
      PROVE  table[k] \in AnyFixture(n)
  <2>1. k \in Nat \ {0} /\ table[k].home \in 1 .. n /\ table[k].away \in 0 .. n
    BY <1>1
  <2>2. Fixture(k, g, table[k].home, table[k].away) \in AnyFixture(n)
    BY <2>1 DEF Fixture, AnyFixture
  <2> QED
    BY <1>1, <2>2
<1>3. table \in [1 .. N -> AnyFixture(n)]
  BY <1>1, <1>2
<1>4. table \in Seq(AnyFixture(n)) /\ Len(table) = N
  BY <1>1, <1>3
<1>5. ASSUME NEW k \in 1 .. N
      PROVE  table[k].group = g /\ ~ table[k].done /\ ~ table[k].bye
  <2>1. table[k] = Fixture(k, g, table[k].home, table[k].away)
    BY <1>1
  <2> QED
    BY <2>1 DEF Fixture
<1>6. Selects(table, g, table, N)
  <2>1. 0 \in Nat /\ 0 + 1 .. 0 + N = 1 .. N /\ \A j \in 1 .. N : 0 + j = j
    BY <1>1
  <2> QED
    BY <1>1, <1>5, <2>1 DEF Selects
<1> QED
  BY <1>1, <1>4, <1>5, <1>6

\* The rows of a group stay its rows when others are appended,
LEMMA SelectedBefore ==
    ASSUME NEW S, NEW s \in Seq(S), NEW t \in Seq(S), NEW g, NEW table, NEW N \in Nat,
           Selects(s, g, table, N), \A k \in DOMAIN t : t[k].group # g
    PROVE  Selects(s \o t, g, table, N)
<1>1. PICK off \in Nat :
        /\ off + 1 .. off + N \subseteq DOMAIN s
        /\ \A k \in DOMAIN s : s[k].group = g <=> k \in off + 1 .. off + N
        /\ \A j \in 1 .. N : s[off + j] = table[j]
  BY DEF Selects
<1> DEFINE a == Len(s)
           b == Len(t)
           u == s \o t
<1>2. /\ a \in Nat /\ b \in Nat /\ DOMAIN s = 1 .. a /\ DOMAIN t = 1 .. b
      /\ u \in Seq(S) /\ Len(u) = a + b /\ DOMAIN u = 1 .. a + b
      /\ \A k \in 1 .. a + b : u[k] = IF k <= a THEN s[k] ELSE t[k - a]
  <2>1. u \in Seq(S) /\ Len(u) = a + b
    BY ConcatProperties
  <2>2. DOMAIN u = 1 .. a + b
    BY <2>1, LenProperties
  <2> QED
    BY <2>1, <2>2, ConcatProperties, LenProperties
<1> HIDE DEF a, b, u
<1>3. off + 1 .. off + N \subseteq DOMAIN u
  <2>1. ASSUME NEW x \in off + 1 .. off + N
        PROVE  x \in DOMAIN u
    <3>1. x \in 1 .. a
      BY <1>1, <1>2
    <3> QED
      BY <1>2, <3>1
  <2> QED
    BY <2>1
<1>4. ASSUME NEW k \in DOMAIN u
      PROVE  u[k].group = g <=> k \in off + 1 .. off + N
  <2>1. CASE k <= a
    <3>1. k \in DOMAIN s /\ u[k] = s[k]
      BY <1>2, <2>1
    <3> QED
      BY <1>1, <3>1
  <2>2. CASE ~ (k <= a)
    <3>1. k - a \in DOMAIN t /\ u[k] = t[k - a] /\ k \notin DOMAIN s
      BY <1>2, <2>2
    <3> QED
      BY <1>1, <3>1
  <2> QED
    BY <2>1, <2>2
<1>5. ASSUME NEW j \in 1 .. N
      PROVE  u[off + j] = table[j]
  <2>1. off + j \in off + 1 .. off + N
    OBVIOUS
  <2>2. off + j \in 1 .. a
    BY <1>1, <1>2, <2>1
  <2>3. u[off + j] = s[off + j]
    BY <1>2, <2>2
  <2> QED
    BY <1>1, <2>3
<1> QED
  BY <1>3, <1>4, <1>5 DEF Selects, u

\* or put in front.
LEMMA SelectedAfter ==
    ASSUME NEW S, NEW s \in Seq(S), NEW t \in Seq(S), NEW g, NEW table, NEW N \in Nat,
           Selects(t, g, table, N), \A k \in DOMAIN s : s[k].group # g
    PROVE  Selects(s \o t, g, table, N)
<1>1. PICK off \in Nat :
        /\ off + 1 .. off + N \subseteq DOMAIN t
        /\ \A k \in DOMAIN t : t[k].group = g <=> k \in off + 1 .. off + N
        /\ \A j \in 1 .. N : t[off + j] = table[j]
  BY DEF Selects
<1> DEFINE a == Len(s)
           b == Len(t)
           u == s \o t
           o == a + off
<1>2. /\ a \in Nat /\ b \in Nat /\ DOMAIN s = 1 .. a /\ DOMAIN t = 1 .. b
      /\ u \in Seq(S) /\ Len(u) = a + b /\ DOMAIN u = 1 .. a + b
      /\ \A k \in 1 .. a + b : u[k] = IF k <= a THEN s[k] ELSE t[k - a]
  <2>1. u \in Seq(S) /\ Len(u) = a + b
    BY ConcatProperties
  <2>2. DOMAIN u = 1 .. a + b
    BY <2>1, LenProperties
  <2> QED
    BY <2>1, <2>2, ConcatProperties, LenProperties
<1> HIDE DEF a, b, u
<1>3. o \in Nat /\ o + 1 .. o + N \subseteq DOMAIN u
  <2>1. ASSUME NEW x \in o + 1 .. o + N
        PROVE  x \in DOMAIN u
    <3>1. x - a \in off + 1 .. off + N
      BY <1>2, <2>1
    <3>2. x - a \in 1 .. b
      BY <1>1, <1>2, <3>1
    <3>3. x \in Int
      BY <2>1
    <3> QED
      BY <1>2, <3>2, <3>3
  <2>2. o \in Nat
    BY <1>2
  <2>3. o + 1 .. o + N \subseteq DOMAIN u
    BY <2>1
  <2> QED
    BY <2>2, <2>3
<1>4. ASSUME NEW k \in DOMAIN u
      PROVE  u[k].group = g <=> k \in o + 1 .. o + N
  <2>1. CASE k <= a
    <3>1. k \in DOMAIN s /\ u[k] = s[k] /\ k \notin o + 1 .. o + N
      BY <1>2, <2>1
    <3> QED
      BY <1>1, <3>1
  <2>2. CASE ~ (k <= a)
    <3>1. k - a \in DOMAIN t /\ u[k] = t[k - a]
      BY <1>2, <2>2
    <3>2. k - a \in off + 1 .. off + N <=> k \in o + 1 .. o + N
      BY <1>2
    <3> QED
      BY <1>1, <3>1, <3>2
  <2> QED
    BY <2>1, <2>2
<1>5. ASSUME NEW j \in 1 .. N
      PROVE  u[o + j] = table[j]
  <2>1. off + j \in off + 1 .. off + N
    OBVIOUS
  <2>2. off + j \in 1 .. b
    BY <1>1, <1>2, <2>1
  <2>3. o + j \in 1 .. a + b /\ ~ (o + j <= a) /\ (o + j) - a = off + j
    BY <1>2, <2>2
  <2>4. u[o + j] = t[off + j]
    BY <1>2, <2>3
  <2> QED
    BY <1>1, <2>4
<1> HIDE DEF o
<1> QED
  BY <1>3, <1>4, <1>5 DEF Selects, u

\* Scheduled fixtures of some groups.
Scheduled(rows, groups) ==
    \A k \in DOMAIN rows : rows[k].group \in groups /\ ~ rows[k].done /\ ~ rows[k].bye

\* Two stages in a row are scheduled when each is.
LEMMA BothScheduled ==
    ASSUME NEW S, NEW s \in Seq(S), NEW t \in Seq(S), NEW A, NEW B,
           Scheduled(s, A), Scheduled(t, B)
    PROVE  Scheduled(s \o t, A \cup B)
<1> DEFINE a == Len(s)
           b == Len(t)
           u == s \o t
<1>1. /\ a \in Nat /\ b \in Nat /\ DOMAIN s = 1 .. a /\ DOMAIN t = 1 .. b
      /\ DOMAIN u = 1 .. a + b
      /\ \A k \in 1 .. a + b : u[k] = IF k <= a THEN s[k] ELSE t[k - a]
  <2>1. u \in Seq(S) /\ Len(u) = a + b
    BY ConcatProperties
  <2>2. DOMAIN u = 1 .. a + b
    BY <2>1, LenProperties
  <2> QED
    BY <2>1, <2>2, ConcatProperties, LenProperties
<1> HIDE DEF a, b, u
<1>2. ASSUME NEW k \in DOMAIN u
      PROVE  u[k].group \in A \cup B /\ ~ u[k].done /\ ~ u[k].bye
  <2>1. CASE k <= a
    <3>1. k \in DOMAIN s /\ u[k] = s[k]
      BY <1>1, <2>1
    <3> QED
      BY <3>1 DEF Scheduled
  <2>2. CASE ~ (k <= a)
    <3>1. k - a \in DOMAIN t /\ u[k] = t[k - a]
      BY <1>1, <2>2
    <3> QED
      BY <3>1 DEF Scheduled
  <2> QED
    BY <2>1, <2>2
<1> QED
  BY <1>2 DEF Scheduled, u

GroupTable(n, g) == RoundRobin(GroupTeams(n, g), g)

GroupLength(n, g) ==
    LET c == Cardinality(Keys(n, g)) IN Width(c) * (CircleSize(c) - 1)

\* Each group of the group stage is a league.
LEMMA GroupIsLeague ==
    ASSUME NEW n \in Nat, n >= 8, NEW g \in 1 .. NumGroups(n)
    PROVE  /\ League(GroupTable(n, g), GroupLength(n, g), Keys(n, g), Cardinality(Keys(n, g)), g)
           /\ GroupTable(n, g) \in Seq(AnyFixture(n))
           /\ GroupLength(n, g) \in Nat
           /\ Scheduled(GroupTable(n, g), {g})
           /\ Selects(GroupTable(n, g), g, GroupTable(n, g), GroupLength(n, g))
<1> DEFINE T == Keys(n, g)
           c == Cardinality(Keys(n, g))
           N == GroupLength(n, g)
           table == GroupTable(n, g)
<1>1. /\ c \in Nat /\ c >= 2
      /\ GroupTeams(n, g) \in Bijection(1 .. c, T)
      /\ Len(GroupTeams(n, g)) = c
  BY GroupsAreFilled
<1>2. N = Width(c) * (CircleSize(c) - 1)
  BY DEF GroupLength
<1>3. League(table, N, T, c, g)
  <2> HIDE DEF T, c, N
  <2> QED
    BY <1>1, <1>2, RoundRobinIsLeague DEF GroupTable
<1>4. T \subseteq 1 .. n /\ g \in Nat
  <2>1. NumGroups(n) \in Nat
    BY DEF NumGroups
  <2> QED
    BY <2>1 DEF Keys
<1> HIDE DEF T, c, N, table
<1>5. /\ table \in Seq(AnyFixture(n)) /\ Len(table) = N /\ N \in Nat
      /\ \A k \in 1 .. N : table[k].group = g /\ ~ table[k].done /\ ~ table[k].bye
      /\ Selects(table, g, table, N)
  BY <1>3, <1>4, LeagueSelected
<1>6. Scheduled(table, {g})
  <2>1. DOMAIN table = 1 .. N
    BY <1>5, LenProperties
  <2> QED
    BY <1>5, <2>1 DEF Scheduled
<1> QED
  BY <1>3, <1>5, <1>6 DEF T, c, N, table

\* The group stage is made of the leagues of its groups.
LEMMA StageOfLeagues ==
    ASSUME NEW n \in Nat, n >= 8
    PROVE  /\ GroupStage(n) \in Seq(AnyFixture(n))
           /\ Scheduled(GroupStage(n), 1 .. NumGroups(n))
           /\ \A g \in 1 .. NumGroups(n) :
                 Selects(GroupStage(n), g, GroupTable(n, g), GroupLength(n, g))
<1> DEFINE t(g) == GroupTable(n, g)
           S == AnyFixture(n)
           G == NumGroups(n)
           Part(rows, groups) ==
               /\ rows \in Seq(S)
               /\ Scheduled(rows, groups)
               /\ \A g \in groups : Selects(rows, g, t(g), GroupLength(n, g))
<1>1. G = 2 \/ G = 4
  BY DEF NumGroups
<1>2. ASSUME NEW g \in 1 .. G
      PROVE  Part(t(g), {g}) /\ GroupLength(n, g) \in Nat
  BY GroupIsLeague
<1>3. ASSUME NEW rows, NEW groups, Part(rows, groups), groups \subseteq 1 .. G,
             NEW g \in 1 .. G, g \notin groups
      PROVE  Part(rows \o t(g), groups \cup {g})
  <2>1. rows \in Seq(S) /\ t(g) \in Seq(S) /\ rows \o t(g) \in Seq(S)
    <3>1. rows \in Seq(S) /\ t(g) \in Seq(S)
      BY <1>2, <1>3
    <3> HIDE DEF t, S
    <3> QED
      BY <3>1, ConcatProperties
  <2>2. Scheduled(rows, groups) /\ Scheduled(t(g), {g})
    BY <1>2, <1>3
  <2>3. Scheduled(rows \o t(g), groups \cup {g})
    <3> HIDE DEF t, S
    <3> QED
      BY <2>1, <2>2, BothScheduled
  <2>4. ASSUME NEW h \in groups
        PROVE  Selects(rows \o t(g), h, t(h), GroupLength(n, h))
    <3>1. Selects(rows, h, t(h), GroupLength(n, h)) /\ GroupLength(n, h) \in Nat
      BY <1>2, <1>3
    <3>2. \A k \in DOMAIN t(g) : t(g)[k].group # h
      BY <1>3, <2>2 DEF Scheduled
    <3> HIDE DEF t, S
    <3> QED
      BY <2>1, <3>1, <3>2, SelectedBefore
  <2>5. Selects(rows \o t(g), g, t(g), GroupLength(n, g))
    <3>1. Selects(t(g), g, t(g), GroupLength(n, g)) /\ GroupLength(n, g) \in Nat
      BY <1>2
    <3>2. \A k \in DOMAIN rows : rows[k].group # g
      BY <1>3, <2>2 DEF Scheduled
    <3> HIDE DEF t, S
    <3> QED
      BY <2>1, <3>1, <3>2, SelectedAfter
  <2> HIDE DEF t, S
  <2> QED
    BY <2>1, <2>3, <2>4, <2>5
<1>4. Part(t(1) \o t(2), {1, 2})
  <2>1. 1 \in 1 .. G /\ 2 \in 1 .. G /\ {1} \subseteq 1 .. G /\ 2 \notin {1} /\ {1, 2} = {1} \cup {2}
    BY <1>1
  <2> HIDE DEF t, S, G, Part
  <2>2. Part(t(1) \o t(2), {1} \cup {2})
    BY <1>2, <1>3, <2>1
  <2> QED
    BY <2>1, <2>2
<1>5. CASE G = 2
  <2>1. GroupStage(n) = t(1) \o t(2) /\ {1, 2} = 1 .. G
    BY <1>5 DEF GroupStage, GroupTable
  <2> QED
    BY <1>4, <2>1
<1>6. CASE G = 4
  <2>1. GroupStage(n) = t(1) \o t(2) \o t(3) \o t(4) /\ ({1, 2} \cup {3}) \cup {4} = 1 .. G
    BY <1>6 DEF GroupStage, GroupTable
  <2>2. /\ {1, 2} \subseteq 1 .. G /\ {1, 2} \cup {3} \subseteq 1 .. G
        /\ 3 \in 1 .. G /\ 4 \in 1 .. G /\ 3 \notin {1, 2} /\ 4 \notin {1, 2} \cup {3}
    BY <1>6
  <2> HIDE DEF t, S, G
  <2>3. Part((t(1) \o t(2)) \o t(3), {1, 2} \cup {3})
    <3> HIDE DEF Part
    <3> QED
      BY <1>3, <1>4, <2>2
  <2>4. Part(((t(1) \o t(2)) \o t(3)) \o t(4), ({1, 2} \cup {3}) \cup {4})
    <3> HIDE DEF Part
    <3> QED
      BY <1>3, <2>2, <2>3
  <2> USE DEF t, S, G
  <2> QED
    BY <2>1, <2>4
<1> QED
  BY <1>1, <1>5, <1>6

-----------------------------------------------------------------------------
(* The order of the standings *)

\* Sort keys of one length are in a strict linear order.
LEMMA PrecedesIsLinear ==
    ASSUME NEW L \in Nat, NEW a \in [1 .. L -> Int], NEW b \in [1 .. L -> Int]
    PROVE  /\ ~ (Precedes(a, b) /\ Precedes(b, a))
           /\ a # b => Precedes(a, b) \/ Precedes(b, a)
           /\ \A c \in [1 .. L -> Int] : Precedes(a, b) /\ Precedes(b, c) => Precedes(a, c)
<1>1. ASSUME NEW x \in [1 .. L -> Int], NEW y \in [1 .. L -> Int]
      PROVE  Precedes(x, y) <=>
                \E i \in 1 .. L : x[i] < y[i] /\ \A j \in 1 .. i - 1 : x[j] = y[j]
  BY DEF Precedes
<1>2. ASSUME Precedes(a, b), Precedes(b, a)
      PROVE  FALSE
  <2>1. PICK i \in 1 .. L : a[i] < b[i] /\ \A j \in 1 .. i - 1 : a[j] = b[j]
    BY <1>1, <1>2
  <2>2. PICK k \in 1 .. L : b[k] < a[k] /\ \A j \in 1 .. k - 1 : b[j] = a[j]
    BY <1>1, <1>2
  <2>3. a[i] \in Int /\ b[i] \in Int /\ a[k] \in Int /\ b[k] \in Int
    OBVIOUS
  <2>4. i \in 1 .. k - 1 \/ k \in 1 .. i - 1 \/ i = k
    OBVIOUS
  <2> QED
    BY <2>1, <2>2, <2>3, <2>4
<1>3. ASSUME a # b
      PROVE  Precedes(a, b) \/ Precedes(b, a)
  <2> DEFINE Differ == {i \in 1 .. L : a[i] # b[i]}
  <2>1. Differ \in SUBSET Nat /\ Differ # {}
    BY <1>3
  <2>2. PICK i \in Differ : \A k \in Differ : i <= k
    BY <2>1, Least
  <2>3. \A j \in 1 .. i - 1 : a[j] = b[j]
    BY <2>2
  <2>4. i \in 1 .. L /\ a[i] \in Int /\ b[i] \in Int /\ (a[i] < b[i] \/ b[i] < a[i])
    BY <2>2
  <2> QED
    BY <1>1, <2>3, <2>4
<1>4. ASSUME NEW c \in [1 .. L -> Int], Precedes(a, b), Precedes(b, c)
      PROVE  Precedes(a, c)
  <2>1. PICK i \in 1 .. L : a[i] < b[i] /\ \A j \in 1 .. i - 1 : a[j] = b[j]
    BY <1>1, <1>4
  <2>2. PICK k \in 1 .. L : b[k] < c[k] /\ \A j \in 1 .. k - 1 : b[j] = c[j]
    BY <1>1, <1>4
  <2>3. /\ a[i] \in Int /\ b[i] \in Int /\ c[i] \in Int
        /\ a[k] \in Int /\ b[k] \in Int /\ c[k] \in Int
    OBVIOUS
  <2>4. CASE i <= k
    <3>1. \A j \in 1 .. i - 1 : j \in 1 .. k - 1
      BY <2>4
    <3>2. i = k \/ i \in 1 .. k - 1
      BY <2>4
    <3>3. a[i] < c[i]
      BY <2>1, <2>2, <2>3, <3>2
    <3>4. \A j \in 1 .. i - 1 : a[j] = c[j]
      BY <2>1, <2>2, <3>1
    <3> QED
      BY <1>1, <3>3, <3>4
  <2>5. CASE k < i
    <3>1. \A j \in 1 .. k - 1 : j \in 1 .. i - 1
      BY <2>5
    <3>2. k \in 1 .. i - 1
      BY <2>5
    <3>3. a[k] < c[k]
      BY <2>1, <2>2, <2>3, <3>2
    <3>4. \A j \in 1 .. k - 1 : a[j] = c[j]
      BY <2>1, <2>2, <3>1
    <3> QED
      BY <1>1, <3>3, <3>4
  <2> QED
    BY <2>4, <2>5
<1> QED
  BY <1>2, <1>3, <1>4

\* The fixtures of some teams.
TableOf(table, T) ==
    /\ IsFiniteSet(DOMAIN table) /\ DOMAIN table \in SUBSET Nat
    /\ \A k \in DOMAIN table :
          table[k].home \in T /\ table[k].away \in T /\ table[k].score \in Nat \X Nat

\* Points and goals of a finite table are numbers.
LEMMA PointsAreNumbers ==
    ASSUME NEW T, NEW table, TableOf(table, T), NEW team
    PROVE  /\ IsFiniteSet(Wins(team, table)) /\ IsFiniteSet(Draws(team, table))
           /\ Points(team, table) \in Nat
           /\ GoalsFor(team, table) \in Nat /\ GoalsAgainst(team, table) \in Nat
           /\ Difference(team, table) \in Int
<1> DEFINE keys == DOMAIN table
           scored == [k \in keys |-> {k} \X (1 .. For(team, table[k]))]
           conceded == [k \in keys |-> {k} \X (1 .. Against(team, table[k]))]
<1>1. IsFiniteSet(keys) /\ \A k \in keys : table[k].score \in Nat \X Nat
  BY DEF TableOf
<1>2. Wins(team, table) \in SUBSET keys /\ Draws(team, table) \in SUBSET keys
  BY DEF Wins, Draws
<1>3. /\ IsFiniteSet(Wins(team, table)) /\ Cardinality(Wins(team, table)) \in Nat
      /\ IsFiniteSet(Draws(team, table)) /\ Cardinality(Draws(team, table)) \in Nat
  BY <1>1, <1>2, FS_Subset, FS_CardinalityType
<1>4. Points(team, table) \in Nat
  BY <1>3 DEF Points
<1>5. ASSUME NEW k \in keys
      PROVE  IsFiniteSet(scored[k]) /\ IsFiniteSet(conceded[k])
  <2>1. table[k].score[1] \in Nat /\ table[k].score[2] \in Nat
    BY <1>1
  <2>2. For(team, table[k]) \in Nat /\ Against(team, table[k]) \in Nat
    BY <2>1 DEF For, Against
  <2>3. IsFiniteSet({k}) /\ IsFiniteSet(1 .. For(team, table[k])) /\ IsFiniteSet(1 .. Against(team, table[k]))
    <3>1. \A x \in Nat : IsFiniteSet(1 .. x)
      BY FS_Interval
    <3> QED
      BY <2>2, <3>1, FS_Singleton
  <2>4. IsFiniteSet({k} \X (1 .. For(team, table[k]))) /\ IsFiniteSet({k} \X (1 .. Against(team, table[k])))
    BY <2>3, FS_Product
  <2> QED
    BY <2>4
<1>6. ASSUME NEW f, f = [k \in keys |-> f[k]], \A k \in keys : IsFiniteSet(f[k])
      PROVE  Cardinality(UNION {f[k] : k \in keys}) \in Nat
  <2> DEFINE parts == {f[k] : k \in keys}
  <2>1. f \in Surjection(keys, parts)
    BY <1>6 DEF Surjection
  <2>2. IsFiniteSet(parts)
    BY <1>1, <2>1, FS_Surjection
  <2>3. IsFiniteSet(UNION parts)
    BY <1>6, <2>2, FS_UNION
  <2> QED
    BY <2>3, FS_CardinalityType
<1>7. GoalsFor(team, table) \in Nat
  <2>1. GoalsFor(team, table) = Cardinality(UNION {scored[k] : k \in keys})
    BY DEF GoalsFor
  <2>2. scored = [k \in keys |-> scored[k]] /\ \A k \in keys : IsFiniteSet(scored[k])
    BY <1>5
  <2> HIDE DEF scored
  <2> QED
    BY <1>6, <2>1, <2>2
<1>8. GoalsAgainst(team, table) \in Nat
  <2>1. GoalsAgainst(team, table) = Cardinality(UNION {conceded[k] : k \in keys})
    BY DEF GoalsAgainst
  <2>2. conceded = [k \in keys |-> conceded[k]] /\ \A k \in keys : IsFiniteSet(conceded[k])
    BY <1>5
  <2> HIDE DEF conceded
  <2> QED
    BY <1>6, <2>1, <2>2
<1>9. Difference(team, table) \in Int
  BY <1>7, <1>8 DEF Difference
<1> QED
  BY <1>3, <1>4, <1>7, <1>8, <1>9

\* The row of a team, all rows, and its sort key.
RowOf(t, counted) == [team |-> t, primary |-> Primary(t, counted)]

RowsOf(counted) == {RowOf(t, counted) : t \in Ranked(counted)}

KeyOf(t, counted, name) == SortKey(RowOf(t, counted), RowsOf(counted), counted, name)

MiniTable(t, counted) == Mutual(Tied(RowOf(t, counted), RowsOf(counted)), counted)

\* The sort key as one list of eight numbers.
LEMMA JoinedKeys ==
    ASSUME NEW a1 \in Int, NEW a2 \in Int, NEW a3 \in Int,
           NEW b1 \in Int, NEW b2 \in Int, NEW b3 \in Int, NEW c1 \in Int, NEW c2 \in Int
    PROVE  << a1, a2, a3 >> \o << b1, b2, b3 >> \o << c1, c2 >>
              = << a1, a2, a3, b1, b2, b3, c1, c2 >>
<1> DEFINE a == << a1, a2, a3 >>
           b == << b1, b2, b3 >>
           c == << c1, c2 >>
           d == << a1, a2, a3, b1, b2, b3, c1, c2 >>
<1>1. /\ a \in Seq(Int) /\ Len(a) = 3 /\ a[1] = a1 /\ a[2] = a2 /\ a[3] = a3
      /\ b \in Seq(Int) /\ Len(b) = 3 /\ b[1] = b1 /\ b[2] = b2 /\ b[3] = b3
      /\ c \in Seq(Int) /\ Len(c) = 2 /\ c[1] = c1 /\ c[2] = c2
  OBVIOUS
<1>2. /\ d \in Seq(Int) /\ Len(d) = 8
      /\ d[1] = a1 /\ d[2] = a2 /\ d[3] = a3 /\ d[4] = b1 /\ d[5] = b2 /\ d[6] = b3
      /\ d[7] = c1 /\ d[8] = c2
  OBVIOUS
<1> HIDE DEF a, b, c, d
<1>3. /\ a \o b \in Seq(Int) /\ Len(a \o b) = 6
      /\ \A i \in 1 .. 6 : (a \o b)[i] = IF i <= 3 THEN a[i] ELSE b[i - 3]
  <2>1. /\ a \o b \in Seq(Int) /\ Len(a \o b) = Len(a) + Len(b)
        /\ \A i \in 1 .. Len(a) + Len(b) : (a \o b)[i] = IF i <= Len(a) THEN a[i] ELSE b[i - Len(a)]
    BY <1>1, ConcatProperties
  <2> QED
    BY <1>1, <2>1
<1> DEFINE ab == a \o b
<1>4. /\ ab[1] = a1 /\ ab[2] = a2 /\ ab[3] = a3 /\ ab[4] = b1 /\ ab[5] = b2 /\ ab[6] = b3
  BY <1>1, <1>3
<1>5. ab \in Seq(Int) /\ Len(ab) = 6
  BY <1>3
<1> HIDE DEF ab
<1> DEFINE abc == ab \o c
<1>6. /\ abc \in Seq(Int) /\ Len(abc) = 8
      /\ \A i \in 1 .. 8 : abc[i] = IF i <= 6 THEN ab[i] ELSE c[i - 6]
  <2>1. /\ abc \in Seq(Int) /\ Len(abc) = Len(ab) + Len(c)
        /\ \A i \in 1 .. Len(ab) + Len(c) : abc[i] = IF i <= Len(ab) THEN ab[i] ELSE c[i - Len(ab)]
    BY <1>1, <1>5, ConcatProperties
  <2>2. Len(ab) = 6 /\ Len(c) = 2
    BY <1>1, <1>5
  <2> HIDE DEF abc
  <2>3. Len(ab) + Len(c) = 8
    BY <2>2
  <2> QED
    BY <2>1, <2>2, <2>3
<1> HIDE DEF abc
<1>7. \A i \in 1 .. 8 : abc[i] = d[i]
  <2>1. ASSUME NEW i \in 1 .. 6
        PROVE  abc[i] = d[i]
    <3>1. abc[i] = ab[i]
      BY <1>6
    <3>2. i = 1 \/ i = 2 \/ i = 3 \/ i = 4 \/ i = 5 \/ i = 6
      OBVIOUS
    <3> QED
      BY <1>2, <1>4, <3>1, <3>2
  <2>2. abc[7] = c[7 - 6] /\ abc[8] = c[8 - 6]
    BY <1>6
  <2>3. 7 - 6 = 1 /\ 8 - 6 = 2
    OBVIOUS
  <2>4. abc[7] = d[7] /\ abc[8] = d[8]
    BY <1>1, <1>2, <2>2, <2>3
  <2>5. \A i \in 1 .. 8 : i \in 1 .. 6 \/ i = 7 \/ i = 8
    OBVIOUS
  <2> QED
    BY <2>1, <2>4, <2>5
<1>8. abc = d
  BY <1>2, <1>6, <1>7, SeqEqual
<1> QED
  BY <1>8 DEF a, b, c, d, ab, abc

\* The sort key of a team compares numbers only.
LEMMA KeysAreNumbers ==
    ASSUME NEW T, NEW table, TableOf(table, T), NEW name, \A t \in T : name[t] \in Int,
           NEW team \in T, NEW first, first = FirstSeen(team, table), first \in Int,
           NEW mini, mini = MiniTable(team, table)
    PROVE  /\ TableOf(mini, T)
           /\ KeyOf(team, table, name) \in [1 .. 8 -> Int]
           /\ KeyOf(team, table, name) =
                << - Points(team, table), - Difference(team, table), - GoalsFor(team, table),
                   - Points(team, mini), - Difference(team, mini), - GoalsFor(team, mini),
                   name[team], first >>
<1>1. TableOf(mini, T)
  <2>1. mini = [k \in DOMAIN mini |-> table[k]] /\ DOMAIN mini \in SUBSET (DOMAIN table)
    BY DEF MiniTable, Mutual, RestrictValues, Restrict
  <2>2. IsFiniteSet(DOMAIN mini)
    BY <2>1, FS_Subset DEF TableOf
  <2>3. \A k \in DOMAIN mini : mini[k] = table[k] /\ k \in DOMAIN table
    BY <2>1
  <2> QED
    BY <2>1, <2>2, <2>3 DEF TableOf
<1>2. /\ Points(team, table) \in Nat /\ Difference(team, table) \in Int /\ GoalsFor(team, table) \in Nat
      /\ Points(team, mini) \in Nat /\ Difference(team, mini) \in Int /\ GoalsFor(team, mini) \in Nat
  BY <1>1, PointsAreNumbers
<1>3. KeyOf(team, table, name) =
        Primary(team, table) \o Primary(team, mini) \o << name[team], first >>
  BY DEF KeyOf, SortKey, RowOf, MiniTable
<1> DEFINE a1 == - Points(team, table)
           a2 == - Difference(team, table)
           a3 == - GoalsFor(team, table)
           b1 == - Points(team, mini)
           b2 == - Difference(team, mini)
           b3 == - GoalsFor(team, mini)
<1>4. /\ Primary(team, table) = << a1, a2, a3 >> /\ Primary(team, mini) = << b1, b2, b3 >>
  BY DEF Primary
<1>5. /\ a1 \in Int /\ a2 \in Int /\ a3 \in Int /\ b1 \in Int /\ b2 \in Int /\ b3 \in Int
      /\ name[team] \in Int
  BY <1>2
<1> HIDE DEF a1, a2, a3, b1, b2, b3
<1>6. << a1, a2, a3 >> \o << b1, b2, b3 >> \o << name[team], first >>
        = << a1, a2, a3, b1, b2, b3, name[team], first >>
  BY <1>5, JoinedKeys
<1>7. << a1, a2, a3, b1, b2, b3, name[team], first >> \in [1 .. 8 -> Int]
  BY <1>5
<1> QED
  BY <1>1, <1>3, <1>4, <1>6, <1>7 DEF a1, a2, a3, b1, b2, b3

\* Different teams were seen at different places.
LEMMA SeenApart ==
    ASSUME NEW T, NEW table, TableOf(table, T), NEW t \in Ranked(table)
    PROVE  /\ FirstSeen(t, table) \in Int
           /\ \A u \in Ranked(table) : FirstSeen(t, table) = FirstSeen(u, table) => t = u
<1> DEFINE seen(x) == {j \in DOMAIN table : Plays(x, table[j])}
           k(x) == Min(seen(x))
           away(x) == IF table[k(x)].home = x THEN 0 ELSE 1
<1>1. ASSUME NEW x \in Ranked(table)
      PROVE  /\ k(x) \in Nat /\ Plays(x, table[k(x)])
             /\ FirstSeen(x, table) = (2 * k(x)) + away(x)
             /\ away(x) \in {0, 1}
  <2>1. PICK j \in DOMAIN table : Plays(x, table[j])
    BY DEF Ranked, Range, Plays
  <2>2. seen(x) \in SUBSET Nat /\ seen(x) # {}
    BY <2>1 DEF TableOf
  <2>3. k(x) \in seen(x)
    <3> HIDE DEF seen
    <3> QED
      BY <2>2, MinIsLeast
  <2>4. FirstSeen(x, table) = (2 * k(x)) + away(x)
    BY DEF FirstSeen
  <2> QED
    BY <2>2, <2>3, <2>4
<1>2. FirstSeen(t, table) \in Int
  <2> HIDE DEF k, away
  <2> QED
    BY <1>1
<1>3. ASSUME NEW u \in Ranked(table), FirstSeen(t, table) = FirstSeen(u, table)
      PROVE  t = u
  <2>1. k(t) = k(u) /\ away(t) = away(u)
    <3>1. /\ k(t) \in Nat /\ k(u) \in Nat /\ away(t) \in {0, 1} /\ away(u) \in {0, 1}
          /\ (2 * k(t)) + away(t) = (2 * k(u)) + away(u)
      BY <1>1, <1>3
    <3> HIDE DEF k, away
    <3> QED
      BY <3>1
  <2>2. Plays(t, table[k(t)]) /\ Plays(u, table[k(t)])
    BY <1>1, <2>1
  <2> DEFINE f == table[k(t)]
  <2>3. (t = f.home \/ t = f.away) /\ (u = f.home \/ u = f.away)
    BY <2>2 DEF Plays
  <2>4. (f.home = t) <=> (f.home = u)
    BY <2>1
  <2> HIDE DEF f
  <2> QED
    BY <2>3, <2>4
<1> QED
  BY <1>2, <1>3

Entry(t, counted, name) == [team |-> t, key |-> KeyOf(t, counted, name)]

\* Every team of the table has one place, and the keys of the places increase.
SortedBy(order, counted, name) ==
    /\ IsFiniteSet(Ranked(counted)) /\ Cardinality(Ranked(counted)) \in Nat
    /\ order \in Bijection(1 .. Cardinality(Ranked(counted)), Ranked(counted))
    /\ Len(order) = Cardinality(Ranked(counted))
    /\ \A i, j \in 1 .. Cardinality(Ranked(counted)) :
          i < j => Precedes(KeyOf(order[i], counted, name), KeyOf(order[j], counted, name))

\* compute_standings lists every team of the table once, by its sort key.
LEMMA StandingsAreSorted ==
    ASSUME NEW T, IsFiniteSet(T), NEW name, \A t \in T : name[t] \in Int,
           NEW table, TableOf(Counted(table), T)
    PROVE  SortedBy(Standings(table, name), Counted(table), name)
<1> DEFINE counted == Counted(table)
           K == Ranked(counted)
           key(t) == KeyOf(t, counted, name)
           entry(t) == Entry(t, counted, name)
           entries == {entry(t) : t \in K}
           UpTo(u) == {u} \cup {v \in entries : Precedes(v.key, u.key)}
           upTo == [u \in entries |-> UpTo(u)]
           rank == [u \in entries |-> Cardinality(upTo[u])]
           team == [u \in entries |-> u.team]
           ranked == {<< Cardinality(UpTo(u)), u.team >> : u \in entries}
           order == Standings(table, name)
           c == Cardinality(K)
<1>1. order = Ordered(ranked)
  <2> DEFINE rows == {[team |-> t, primary |-> Primary(t, counted)] : t \in Ranked(counted)}
             keyed == {[team |-> u.team, key |-> SortKey(u, rows, counted, name)] : u \in rows}
  <2>1. rows = RowsOf(counted)
    BY DEF RowsOf, RowOf
  <2>2. keyed = entries
    <3>1. \A t \in K : RowOf(t, counted).team = t
      BY DEF RowOf
    <3>2. rows = {RowOf(t, counted) : t \in K}
      BY DEF RowOf
    <3>3. \A t \in K :
            [team |-> RowOf(t, counted).team, key |-> SortKey(RowOf(t, counted), rows, counted, name)]
               = entry(t)
      BY <2>1, <3>1 DEF Entry, KeyOf
    <3>4. keyed = {[team |-> u.team, key |-> SortKey(u, rows, counted, name)] : u \in {RowOf(t, counted) : t \in K}}
      BY <3>2
    <3> HIDE DEF rows, counted, K, keyed
    <3> QED
      BY <3>3, <3>4
  <2>3. order = Ordered({<< Cardinality({u} \cup {v \in keyed : Precedes(v.key, u.key)}), u.team >> : u \in keyed})
    BY DEF Standings
  <2> HIDE DEF keyed, entries, order
  <2> QED
    BY <2>2, <2>3
<1>2. K \subseteq T /\ IsFiniteSet(K) /\ c \in Nat
  <2>1. K \in SUBSET T
    BY DEF Ranked, Range, TableOf
  <2> QED
    BY <2>1, FS_Subset, FS_CardinalityType
<1>3. ASSUME NEW t \in K
      PROVE  key(t) \in [1 .. 8 -> Int] /\ key(t)[8] = FirstSeen(t, counted)
  <2>1. FirstSeen(t, counted) \in Int
    BY SeenApart
  <2>2. PICK mini : mini = MiniTable(t, counted)
    OBVIOUS
  <2> HIDE DEF counted
  <2>3. /\ KeyOf(t, counted, name) \in [1 .. 8 -> Int]
        /\ KeyOf(t, counted, name) =
             << - Points(t, counted), - Difference(t, counted), - GoalsFor(t, counted),
                - Points(t, mini), - Difference(t, mini), - GoalsFor(t, mini),
                name[t], FirstSeen(t, counted) >>
    <3>1. t \in T
      BY <1>2
    <3>2. TableOf(counted, T)
      BY DEF counted
    <3> QED
      BY <2>1, <2>2, <3>1, <3>2, KeysAreNumbers
  <2> QED
    BY <2>3
<1>4. ASSUME NEW t \in K, NEW u \in K, key(t) = key(u)
      PROVE  t = u
  <2>1. FirstSeen(t, counted) = FirstSeen(u, counted)
    BY <1>3, <1>4
  <2> QED
    BY <2>1, SeenApart
<1> HIDE DEF counted, K, key, c, order
<1>5. \A t \in K : entry(t) \in entries /\ entry(t).team = t /\ entry(t).key = key(t)
  BY DEF Entry, key
<1>6. \A u \in entries : u.team \in K /\ u = entry(u.team) /\ u.key = key(u.team)
  BY DEF Entry, key
<1> HIDE DEF entry, entries
<1>7. IsFiniteSet(entries) /\ Cardinality(entries) = c
  <2> DEFINE f == [t \in K |-> entry(t)]
  <2>1. f \in Bijection(K, entries)
    <3>1. f \in [K -> entries]
      BY <1>5
    <3>2. \A t, u \in K : f[t] = f[u] => t = u
      BY <1>5
    <3>3. \A u \in entries : \E t \in K : f[t] = u
      BY <1>6
    <3> HIDE DEF f
    <3> QED
      BY <3>1, <3>2, <3>3 DEF Bijection, Injection, Surjection, IsInjective
  <2> HIDE DEF f
  <2> QED
    BY <1>2, <2>1, FS_Bijection DEF ExistsBijection, c
<1>8. team \in Injection(entries, K) /\ \A u \in entries : team[u] = u.team
  <2>1. team \in [entries -> K] /\ \A u, v \in entries : team[u] = team[v] => u = v
    BY <1>6
  <2> HIDE DEF team
  <2>2. team \in Injection(entries, K)
    BY <2>1 DEF Injection, IsInjective
  <2> QED
    BY <2>2 DEF team
<1>9. /\ upTo \in [entries -> SUBSET entries]
      /\ \A u, v \in entries : u \in upTo[v] <=> u = v \/ Precedes(u.key, v.key)
  OBVIOUS
<1>10. RankedBy(ranked, entries, rank, team)
  <2>1. \A u \in entries : rank[u] = Cardinality(UpTo(u)) /\ team[u] = u.team
    OBVIOUS
  <2> HIDE DEF UpTo, rank, team
  <2> QED
    BY <2>1 DEF RankedBy
<1>11. \A u \in entries : u.key \in [1 .. 8 -> Int]
  BY <1>3, <1>6
<1>12. \A u, v \in entries : u.key = v.key => u = v
  BY <1>4, <1>6
<1> HIDE DEF upTo
<1>13. /\ \A u \in entries : u \in upTo[u]
       /\ \A u, v \in entries : u \in upTo[v] \/ v \in upTo[u]
       /\ \A u, v \in entries : (u \in upTo[v] /\ v \in upTo[u]) => u = v
  BY <1>9, <1>11, <1>12, PrecedesIsLinear
<1>14. \A u, v \in entries : u \in upTo[v] => upTo[u] \subseteq upTo[v]
  <2> SUFFICES ASSUME NEW u \in entries, NEW v \in entries, u \in upTo[v], NEW x \in upTo[u]
               PROVE  x \in upTo[v]
    OBVIOUS
  <2>1. x \in entries
    BY <1>9
  <2>2. (x = u \/ Precedes(x.key, u.key)) /\ (u = v \/ Precedes(u.key, v.key))
    BY <1>9, <2>1
  <2>3. x = v \/ Precedes(x.key, v.key)
    BY <1>11, <2>1, <2>2, PrecedesIsLinear
  <2> QED
    BY <1>9, <2>1, <2>3
<1>15. /\ rank \in Bijection(entries, 1 .. c)
       /\ \A u, v \in entries : u \in upTo[v] <=> rank[u] <= rank[v]
  BY <1>7, <1>9, <1>13, <1>14, RankIsBijection
<1> HIDE DEF rank, team, ranked
<1>16. /\ Ordered(ranked) \in [1 .. c -> K]
       /\ \A u \in entries : Ordered(ranked)[rank[u]] = team[u]
  BY <1>7, <1>8, <1>10, <1>15, OrderedRanks
<1>17. /\ rank \in [entries -> 1 .. c]
       /\ \A i \in 1 .. c : \E u \in entries : rank[u] = i
  BY <1>15 DEF Bijection, Injection, Surjection
<1>18. ASSUME NEW i \in 1 .. c
       PROVE  \E u \in entries : rank[u] = i /\ order[i] = u.team /\ u = entry(order[i])
  <2>1. PICK u \in entries : rank[u] = i
    BY <1>17
  <2>2. order[i] = u.team
    BY <1>1, <1>8, <1>16, <2>1
  <2> QED
    BY <1>6, <2>1, <2>2
<1>19. order \in [1 .. c -> K]
  BY <1>1, <1>16
<1>20. ASSUME NEW i \in 1 .. c, NEW j \in 1 .. c, order[i] = order[j]
       PROVE  i = j
  <2>1. PICK u \in entries : rank[u] = i /\ u = entry(order[i])
    BY <1>18
  <2>2. PICK v \in entries : rank[v] = j /\ v = entry(order[j])
    BY <1>18
  <2> QED
    BY <1>20, <2>1, <2>2
<1>21. ASSUME NEW t \in K
       PROVE  \E i \in 1 .. c : order[i] = t
  <2>1. entry(t) \in entries /\ entry(t).team = t
    BY <1>5
  <2>2. rank[entry(t)] \in 1 .. c /\ order[rank[entry(t)]] = t
    BY <1>1, <1>8, <1>16, <1>17, <2>1
  <2> QED
    BY <2>2
<1>22. ASSUME NEW i \in 1 .. c, NEW j \in 1 .. c, i < j
       PROVE  Precedes(key(order[i]), key(order[j]))
  <2>1. PICK u \in entries : rank[u] = i /\ order[i] = u.team
    BY <1>18
  <2>2. PICK v \in entries : rank[v] = j /\ order[j] = v.team
    BY <1>18
  <2>3. u \in upTo[v] /\ u # v
    BY <1>2, <1>15, <1>22, <2>1, <2>2
  <2>4. Precedes(u.key, v.key)
    BY <1>9, <2>3
  <2> QED
    BY <1>6, <2>1, <2>2, <2>4
<1>23. order \in Bijection(1 .. c, K)
  BY <1>19, <1>20, <1>21 DEF Bijection, Injection, Surjection, IsInjective
<1>24. Len(order) = c
  BY <1>2, <1>19
<1> QED
  BY <1>2, <1>22, <1>23, <1>24 DEF SortedBy, counted, K, key, c, order

-----------------------------------------------------------------------------
(* The fixtures of a new tournament *)

\* The whole field as one league.
FieldLength(n) == Width(n) * (CircleSize(n) - 1)

\* A round robin tournament is one league.
LEMMA FieldIsLeague ==
    ASSUME NEW n \in Nat, n >= 2
    PROVE  /\ League(Generated("round_robin", n), FieldLength(n), 1 .. n, n, 0)
           /\ Generated("round_robin", n) \in Seq(AnyFixture(n))
           /\ FieldLength(n) \in Nat
           /\ Scheduled(Generated("round_robin", n), {0})
           /\ Selects(Generated("round_robin", n), 0, Generated("round_robin", n), FieldLength(n))
<1> DEFINE teams == [t \in 1 .. n |-> t]
           N == FieldLength(n)
           table == Generated("round_robin", n)
<1>1. teams \in Bijection(1 .. n, 1 .. n) /\ Len(teams) = n
  BY DEF Bijection, Injection, Surjection, IsInjective
<1>2. table = RoundRobin(teams, 0)
  BY DEF Generated
<1>3. N = Width(n) * (CircleSize(n) - 1)
  BY DEF FieldLength
<1> HIDE DEF teams, N, table
<1>4. League(table, N, 1 .. n, n, 0)
  BY <1>1, <1>2, <1>3, RoundRobinIsLeague
<1>5. /\ table \in Seq(AnyFixture(n)) /\ Len(table) = N /\ N \in Nat
      /\ \A k \in 1 .. N : table[k].group = 0 /\ ~ table[k].done /\ ~ table[k].bye
      /\ Selects(table, 0, table, N)
  BY <1>4, LeagueSelected
<1>6. Scheduled(table, {0})
  <2>1. DOMAIN table = 1 .. N
    BY <1>5, LenProperties
  <2> QED
    BY <1>5, <2>1 DEF Scheduled
<1> QED
  BY <1>4, <1>5, <1>6 DEF N, table

\* A fixture of two teams, or a bye, of which only the bye is done.
Fresh(f) == (f.away = NoTeam <=> f.bye) /\ (f.done <=> f.bye) /\ f.home # f.away

\* No fixture of a league is drawn as played.
LEMMA LeagueIsFresh ==
    ASSUME NEW n \in Nat, NEW T, T \subseteq 1 .. n, NEW c, NEW g, NEW N, NEW table,
           League(table, N, T, c, g), NEW k \in DOMAIN table
    PROVE  Fresh(table[k])
<1>1. /\ table[k] = Fixture(k, g, table[k].home, table[k].away)
      /\ table[k].home \in T /\ table[k].away \in T /\ table[k].home # table[k].away
  BY DEF League
<1>2. ~ table[k].bye /\ ~ table[k].done
  BY <1>1 DEF Fixture
<1> QED
  BY <1>1, <1>2 DEF Fresh, NoTeam

\* What holds of any fixtures of all groups holds of their stage.
LEMMA StageIsFresh ==
    ASSUME NEW n \in Nat, n >= 8, NEW k \in DOMAIN GroupStage(n)
    PROVE  Fresh(GroupStage(n)[k])
<1> DEFINE rows == GroupStage(n)
           g == rows[k].group
<1>1. g \in 1 .. NumGroups(n)
  BY StageOfLeagues DEF Scheduled
<1>2. /\ Selects(rows, g, GroupTable(n, g), GroupLength(n, g))
      /\ League(GroupTable(n, g), GroupLength(n, g), Keys(n, g), Cardinality(Keys(n, g)), g)
      /\ GroupLength(n, g) \in Nat
  BY <1>1, StageOfLeagues, GroupIsLeague
<1>3. Keys(n, g) \subseteq 1 .. n
  BY DEF Keys
<1>4. PICK off \in Nat :
        /\ \A i \in DOMAIN rows : rows[i].group = g <=> i \in off + 1 .. off + GroupLength(n, g)
        /\ \A j \in 1 .. GroupLength(n, g) : rows[off + j] = GroupTable(n, g)[j]
  BY <1>2 DEF Selects
<1>5. k \in off + 1 .. off + GroupLength(n, g)
  BY <1>4
<1> DEFINE j == k - off
<1>6. j \in 1 .. GroupLength(n, g) /\ off + j = k
  BY <1>2, <1>5
<1>7. rows[k] = GroupTable(n, g)[j] /\ j \in DOMAIN GroupTable(n, g)
  BY <1>2, <1>4, <1>6 DEF League
<1> HIDE DEF rows, g, j
<1>8. Fresh(GroupTable(n, g)[j])
  BY <1>2, <1>3, <1>7, LeagueIsFresh
<1> QED
  BY <1>7, <1>8 DEF rows

\* The rows of a bracket's first round, where only byes are done.
LEMMA BracketIsFresh ==
    ASSUME NEW n \in Nat, n >= 2
    PROVE  /\ KnockoutRound1(n) \in Seq(AnyFixture(n)) /\ KnockoutRound1(n) # << >>
           /\ \A k \in DOMAIN KnockoutRound1(n) :
                 /\ Fresh(KnockoutRound1(n)[k])
                 /\ KnockoutRound1(n)[k].group = 0 /\ KnockoutRound1(n)[k].round = 1
<1>1. PICK b \in Nat, m \in PowersOf2 :
        /\ b + 2 * (m - b) = n /\ b < m
        /\ KnockoutRound1(n) =
              [k \in 1 .. m |-> IF k <= b THEN Bye(k) ELSE Fixture(1, 0, k, (n + b + 1) - k)]
  BY FirstRound
<1>2. m \in Nat \ {0}
  BY PowersDouble
<1> DEFINE rows == KnockoutRound1(n)
<1>3. ASSUME NEW k \in 1 .. m
      PROVE  /\ rows[k] \in AnyFixture(n) /\ Fresh(rows[k])
             /\ rows[k].group = 0 /\ rows[k].round = 1
  <2>1. CASE k <= b
    <3>1. rows[k] = Bye(k) /\ k \in 1 .. n
      BY <1>1, <1>2, <2>1
    <3> DEFINE f == Fixture(1, 0, k, NoTeam)
               h == [f EXCEPT !.bye = TRUE]
    <3>2. f \in AnyFixture(n) /\ f.round = 1 /\ f.group = 0 /\ f.home = k /\ f.away = 0
      BY <3>1 DEF Fixture, NoTeam, AnyFixture
    <3>3. Bye(k) = [h EXCEPT !.done = TRUE]
      BY DEF Bye
    <3> HIDE DEF rows, f
    <3>4. /\ h \in AnyFixture(n) /\ h.round = 1 /\ h.group = 0 /\ h.home = k /\ h.away = 0
          /\ h.bye = TRUE
      BY <3>2 DEF AnyFixture
    <3> HIDE DEF h
    <3>5. /\ Bye(k) \in AnyFixture(n) /\ Bye(k).round = 1 /\ Bye(k).group = 0
          /\ Bye(k).home = k /\ Bye(k).away = 0 /\ Bye(k).bye = TRUE /\ Bye(k).done = TRUE
      BY <3>3, <3>4 DEF AnyFixture
    <3> QED
      BY <3>1, <3>5 DEF Fresh, NoTeam
  <2>2. CASE ~ (k <= b)
    <3> DEFINE l == (n + b + 1) - k
    <3>1. rows[k] = Fixture(1, 0, k, l) /\ k \in 1 .. n /\ l \in 1 .. n /\ k # l
      BY <1>1, <1>2, <2>2
    <3> HIDE DEF rows, l
    <3> QED
      BY <3>1 DEF Fixture, AnyFixture, Fresh, NoTeam
  <2> QED
    BY <2>1, <2>2
<1>4. DOMAIN rows = 1 .. m /\ rows = [k \in 1 .. m |-> rows[k]]
  BY <1>1
<1> HIDE DEF rows
<1>5. rows \in [1 .. m -> AnyFixture(n)]
  BY <1>3, <1>4
<1>6. rows \in Seq(AnyFixture(n)) /\ rows # << >>
  <2>1. rows \in Seq(AnyFixture(n)) /\ Len(rows) = m
    BY <1>2, <1>5
  <2> QED
    BY <1>2, <2>1
<1> QED
  BY <1>3, <1>4, <1>6 DEF rows

-----------------------------------------------------------------------------
(* The next round *)

ListOfPairs(pairs, c, S) == pairs \in [1 .. c -> S \X S]

\* The first with the last, and so on, d pairs of c teams.
PairedInward(pairs, d, teams, c, S) ==
    /\ d \in Nat /\ 2 * d <= c /\ d = c \div 2 /\ ListOfPairs(pairs, d, S)
    /\ \A k \in 1 .. d :
          /\ k \in 1 .. c /\ (c + 1) - k \in 1 .. c
          /\ pairs[k] = << teams[k], teams[(c + 1) - k] >>

\* The k-th pair is the k-th team and the k-th from the end.
LEMMA InwardPairs ==
    ASSUME NEW S, NEW c \in Nat, NEW teams \in [1 .. c -> S]
    PROVE  PairedInward(Inward(teams), c \div 2, teams, c, S)
<1>1. Len(teams) = c
  OBVIOUS
<1>2. c \div 2 \in Nat /\ 2 * (c \div 2) <= c
  OBVIOUS
<1>3. ASSUME NEW k \in 1 .. c \div 2
      PROVE  k \in 1 .. c /\ (c + 1) - k \in 1 .. c
  BY <1>2
<1>4. Inward(teams) = [k \in 1 .. c \div 2 |-> << teams[k], teams[(c + 1) - k] >>]
  BY <1>1 DEF Inward
<1>5. \A k \in 1 .. c \div 2 : teams[k] \in S /\ teams[(c + 1) - k] \in S
  BY <1>3
<1> QED
  BY <1>2, <1>3, <1>4, <1>5 DEF ListOfPairs, PairedInward

\* New fixtures: of two teams each, in one knockout round.
NewRound(rows, n, r) ==
    /\ rows \in Seq(AnyFixture(n))
    /\ \A k \in DOMAIN rows :
          /\ rows[k].group = 0 /\ rows[k].round = r
          /\ ~ rows[k].bye /\ ~ rows[k].done /\ rows[k].away # NoTeam

\* Pairs of teams make the fixtures of a new round.
LEMMA MatchesAreNew ==
    ASSUME NEW n \in Nat, NEW r \in Nat \ {0}, NEW c \in Nat,
           NEW pairs, ListOfPairs(pairs, c, 1 .. n)
    PROVE  /\ NewRound(Matches(r, pairs), n, r)
           /\ Len(Matches(r, pairs)) = c /\ DOMAIN Matches(r, pairs) = 1 .. c
           /\ \A k \in 1 .. c :
                 /\ Matches(r, pairs)[k].home = pairs[k][1]
                 /\ Matches(r, pairs)[k].away = pairs[k][2]
<1> DEFINE rows == Matches(r, pairs)
<1>1. rows = [k \in 1 .. c |-> Fixture(r, 0, pairs[k][1], pairs[k][2])]
  BY DEF Matches, ListOfPairs
<1>2. ASSUME NEW k \in 1 .. c
      PROVE  /\ rows[k] \in AnyFixture(n)
             /\ rows[k].home = pairs[k][1] /\ rows[k].away = pairs[k][2]
             /\ rows[k].group = 0 /\ rows[k].round = r
             /\ ~ rows[k].bye /\ ~ rows[k].done /\ rows[k].away # NoTeam
  <2>1. rows[k] = Fixture(r, 0, pairs[k][1], pairs[k][2])
    BY <1>1
  <2>2. pairs[k][1] \in 1 .. n /\ pairs[k][2] \in 1 .. n
    BY DEF ListOfPairs
  <2> HIDE DEF rows
  <2> QED
    BY <2>1, <2>2 DEF Fixture, AnyFixture, NoTeam
<1>3. rows = [k \in 1 .. c |-> rows[k]]
  BY <1>1
<1> HIDE DEF rows
<1>4. rows \in [1 .. c -> AnyFixture(n)] /\ DOMAIN rows = 1 .. c
  BY <1>2, <1>3
<1>5. rows \in Seq(AnyFixture(n)) /\ Len(rows) = c
  BY <1>4
<1> QED
  BY <1>2, <1>4, <1>5 DEF NewRound, rows
===============================================================================
