----------------------------- MODULE DataLemmas -----------------------------
(***************************************************************************)
(* Lemmas about the data of the models, that the proofs of several         *)
(* components need: least and greatest numbers of a set, induction over    *)
(* the natural numbers in a form that the provers can apply (a set instead *)
(* of a predicate), and what Sorting.tla's operators return.               *)
(***************************************************************************)
EXTENDS Sorting, Sequences, Functions, FiniteSetTheorems, FunctionTheorems, WellFoundedInduction, TLAPS

LEMMA NatOrder ==
  \A i, j \in Nat : <<i, j>> \in OpToRel(<, Nat) <=> i < j
  BY DEF OpToRel

(* A set of natural numbers that is not empty has a least element.         *)
LEMMA LeastNat ==
  ASSUME NEW T, T \subseteq Nat, T # {}
  PROVE  \E m \in T : \A k \in T : m <= k
<1>1. PICK m \in T : \A k \in T : ~ (<<k, m>> \in OpToRel(<, Nat))
  BY NatLessThanWellFounded, WFMin
<1>2. \A k \in T : ~(k < m)
  BY <1>1, NatOrder
<1>3. \A k \in T : k \in Nat /\ m \in Nat
  OBVIOUS
<1>4. \A k \in T : m <= k
  BY <1>2, <1>3
<1>5. QED
  BY <1>4

(* Induction: a set that has 0, and n + 1 with every n, has all numbers.   *)
LEMMA Induction ==
  ASSUME NEW T, 0 \in T, \A n \in Nat : n \in T => n + 1 \in T
  PROVE  Nat \subseteq T
<1> SUFFICES ASSUME Nat \ T # {}
             PROVE  FALSE
  OBVIOUS
<1>1. PICK m \in Nat \ T : \A k \in Nat \ T : m <= k
  BY LeastNat
<1>2. m # 0 /\ m \in Nat
  BY <1>1
<1>3. m - 1 \in Nat /\ m - 1 \in T
  BY <1>1, <1>2
<1>4. (m - 1) + 1 \in T
  BY <1>3
<1>5. QED
  BY <1>1, <1>2, <1>4

(* The states of a loop of n turns; turn number k applies step[k].         *)
IsLoop(f, n, V, init, step) ==
  /\ f \in [0 .. n -> V]
  /\ f[0] = init
  /\ \A k \in 1 .. n : f[k] = step[k - 1][f[k - 1]]

LEMMA Iteration ==
  ASSUME NEW V, NEW init \in V, NEW step \in [Nat -> [V -> V]]
  PROVE  \A n \in Nat : \E f : IsLoop(f, n, V, init, step)
<1> DEFINE T == {n \in Nat : \E f : IsLoop(f, n, V, init, step)}
<1>1. 0 \in T
  <2>1. IsLoop([k \in 0 .. 0 |-> init], 0, V, init, step)
    BY DEF IsLoop
  <2>2. QED
    BY <2>1
<1>2. ASSUME NEW n \in Nat, n \in T
      PROVE  n + 1 \in T
  <2>1. PICK f : IsLoop(f, n, V, init, step)
    BY <1>2
  <2> DEFINE g == [k \in 0 .. n + 1 |-> IF k = n + 1 THEN step[n][f[n]] ELSE f[k]]
  <2>2. IsLoop(g, n + 1, V, init, step)
    BY <2>1 DEF IsLoop
  <2>3. n + 1 \in Nat
    OBVIOUS
  <2> HIDE DEF g
  <2>4. QED
    BY <2>2, <2>3
<1>3. Nat \subseteq T
  BY <1>1, <1>2, Induction
<1>4. QED
  BY <1>3

(* A set of natural numbers with an upper bound has a greatest element.    *)
LEMMA GreatestNat ==
  ASSUME NEW T, T \subseteq Nat, T # {}, NEW n \in Nat, \A k \in T : k <= n
  PROVE  \E m \in T : \A k \in T : k <= m
<1> DEFINE D == {n - k : k \in T}
<1>1. D \subseteq Nat /\ D # {}
  <2>1. \A k \in T : k \in Nat /\ k <= n
    OBVIOUS
  <2>2. \A k \in T : n - k \in Nat
    BY <2>1
  <2>3. QED
    BY <2>2
<1>2. PICK d \in D : \A e \in D : d <= e
  BY <1>1, LeastNat
<1>3. PICK m \in T : d = n - m
  BY <1>2
<1>4. ASSUME NEW k \in T
      PROVE  k <= m
  <2>1. n - m <= n - k
    BY <1>2, <1>3
  <2>2. k \in Nat /\ m \in Nat
    OBVIOUS
  <2>3. QED
    BY <2>1, <2>2
<1>5. QED
  BY <1>4

LEMMA FiniteImage ==
  ASSUME NEW f, IsFiniteSet(DOMAIN f)
  PROVE  IsFiniteSet({f[x] : x \in DOMAIN f})
<1> DEFINE T == {f[x] : x \in DOMAIN f}
           g == [x \in DOMAIN f |-> f[x]]
<1>1. g \in Surjection(DOMAIN f, T)
  BY DEF Surjection
<1>2. QED
  BY <1>1, FS_Surjection

LEMMA ModUnique ==
  ASSUME NEW x \in Nat, NEW m \in Nat \ {0}, NEW q \in Int, NEW r \in 0 .. m - 1,
         x = m * q + r
  PROVE  x % m = r
<1> DEFINE p == x \div m
           s == x % m
<1>1. s \in 0 .. m - 1 /\ p \in Int /\ x = m * p + s
  OBVIOUS
<1> HIDE DEF p, s
<1>2. m * (q - p) = s - r
  BY <1>1
<1>3. CASE q = p
  BY <1>1, <1>2, <1>3 DEF s
<1>4. CASE q > p
  <2>1. m * (q - p) >= m
    BY <1>1, <1>4
  <2>2. QED
    BY <1>1, <1>2, <2>1
<1>5. CASE q < p
  <2>1. m * (q - p) <= -m
    BY <1>1, <1>5
  <2>2. QED
    BY <1>1, <1>2, <2>1
<1>6. QED
  BY <1>1, <1>3, <1>4, <1>5 DEF s

(* What a step adds to a counter modulo m adds to what it counts.          *)
LEMMA ModSuccessor ==
  ASSUME NEW x \in Nat, NEW m \in Nat \ {0}
  PROVE  ((x % m) + 1) % m = (x + 1) % m
<1> DEFINE r == x % m
           q == x \div m
<1>1. r \in 0 .. m - 1 /\ q \in Int /\ x = m * q + r
  OBVIOUS
<1> HIDE DEF q, r
<1>2. CASE r + 1 < m
  <2>1. x + 1 = m * q + (r + 1) /\ r + 1 = m * 0 + (r + 1) /\ r + 1 \in 0 .. m - 1
    BY <1>1, <1>2
  <2>2. (x + 1) % m = r + 1 /\ (r + 1) % m = r + 1
    BY <1>1, <2>1, ModUnique
  <2>3. QED
    BY <2>2 DEF r
<1>3. CASE r + 1 = m
  <2>1. x + 1 = m * (q + 1) + 0 /\ r + 1 = m * 1 + 0
    BY <1>1, <1>3
  <2>2. (x + 1) % m = 0 /\ (r + 1) % m = 0
    BY <1>1, <2>1, ModUnique
  <2>3. QED
    BY <2>2 DEF r
<1>4. QED
  BY <1>1, <1>2, <1>3

-----------------------------------------------------------------------------
(***************************************************************************)
(* Sorting                                                                 *)
(***************************************************************************)
StrictOrder(S, R) ==
  /\ \A x \in S : <<x, x>> \notin R
  /\ \A x, y \in S : x # y => <<x, y>> \in R \/ <<y, x>> \in R
  /\ \A x, y, z \in S : <<x, y>> \in R /\ <<y, z>> \in R => <<x, z>> \in R

(* An element has fewer elements before it than any later one. *)
LEMMA RankGrows ==
  ASSUME NEW S, IsFiniteSet(S), NEW R, StrictOrder(S, R),
         NEW x \in S, NEW y \in S, <<x, y>> \in R
  PROVE  /\ Cardinality(Before(x, S, R)) \in Nat
         /\ Cardinality(Before(y, S, R)) \in Nat
         /\ Cardinality(Before(x, S, R)) < Cardinality(Before(y, S, R))
<1>1. Before(x, S, R) \subseteq Before(y, S, R)
  BY DEF Before, StrictOrder
<1>2. x \in Before(y, S, R) /\ x \notin Before(x, S, R)
  BY DEF Before, StrictOrder
<1>3. IsFiniteSet(Before(x, S, R)) /\ IsFiniteSet(Before(y, S, R))
  BY FS_Subset DEF Before
<1>4. /\ Cardinality(Before(x, S, R)) \in Nat
      /\ Cardinality(Before(y, S, R)) \in Nat
  BY <1>3, FS_CardinalityType
<1>5. /\ Cardinality(Before(x, S, R)) <= Cardinality(Before(y, S, R))
      /\ Cardinality(Before(x, S, R)) # Cardinality(Before(y, S, R))
  BY <1>1, <1>2, <1>3, FS_Subset
<1>6. QED
  BY <1>4, <1>5

LEMMA RankBelowCardinality ==
  ASSUME NEW S, IsFiniteSet(S), NEW R, StrictOrder(S, R), NEW x \in S
  PROVE  Cardinality(Before(x, S, R)) \in 0 .. Cardinality(S) - 1
<1>1. Before(x, S, R) \subseteq S /\ x \notin Before(x, S, R)
  BY DEF Before, StrictOrder
<1>2. /\ IsFiniteSet(Before(x, S, R))
      /\ Cardinality(Before(x, S, R)) <= Cardinality(S)
      /\ Cardinality(Before(x, S, R)) # Cardinality(S)
  BY <1>1, FS_Subset
<1>3. Cardinality(Before(x, S, R)) \in Nat /\ Cardinality(S) \in Nat
  BY <1>2, FS_CardinalityType
<1>4. QED
  BY <1>2, <1>3

(* InOrder returns each element once, in the order R.                      *)
LEMMA InOrderProperties ==
  ASSUME NEW S, IsFiniteSet(S), NEW R, StrictOrder(S, R)
  PROVE  /\ Cardinality(S) \in Nat
         /\ InOrder(S, R) \in [1 .. Cardinality(S) -> S]
         /\ \A x \in S : \E k \in 1 .. Cardinality(S) : InOrder(S, R)[k] = x
         /\ \A i, j \in 1 .. Cardinality(S) :
              i < j => <<InOrder(S, R)[i], InOrder(S, R)[j]>> \in R
<1> DEFINE n == Cardinality(S)
           rank(x) == Cardinality(Before(x, S, R))
           f == [x \in S |-> rank(x) + 1]
<1>1. n \in Nat
  BY FS_CardinalityType
<1>2. \A x \in S : rank(x) \in 0 .. n - 1
  BY RankBelowCardinality
<1>3. \A x, y \in S : <<x, y>> \in R => rank(x) < rank(y)
  BY RankGrows
<1> HIDE DEF rank
<1>4. \A x, y \in S : x # y => rank(x) # rank(y)
  <2> SUFFICES ASSUME NEW x \in S, NEW y \in S, x # y
               PROVE  rank(x) # rank(y)
    OBVIOUS
  <2>1. rank(x) \in Int /\ rank(y) \in Int
    BY <1>1, <1>2
  <2>2. <<x, y>> \in R \/ <<y, x>> \in R
    BY DEF StrictOrder
  <2>3. rank(x) < rank(y) \/ rank(y) < rank(x)
    BY <1>3, <2>2
  <2>4. QED
    BY <2>1, <2>3
<1>5. f \in Injection(S, 1 .. n)
  <2>1. f \in [S -> 1 .. n]
    BY <1>1, <1>2
  <2>2. \A x, y \in S : f[x] = f[y] => x = y
    BY <1>2, <1>4
  <2>3. QED
    BY <2>1, <2>2 DEF Injection, IsInjective
<1>6. f \in Surjection(S, 1 .. n)
  <2>1. IsFiniteSet(1 .. n) /\ Cardinality(1 .. n) = n
    BY <1>1, FS_Interval
  <2>2. QED
    BY <1>5, <2>1, FS_Injection
<1>7. \A k \in 1 .. n : \E x \in S : rank(x) = k - 1
  <2> TAKE k \in 1 .. n
  <2>1. PICK x \in S : f[x] = k
    BY <1>6 DEF Surjection
  <2>2. rank(x) + 1 = k
    BY <2>1
  <2>3. QED
    BY <1>1, <1>2, <2>2
<1>8. InOrder(S, R) = [k \in 1 .. n |-> CHOOSE x \in S : rank(x) = k - 1]
  BY DEF InOrder, rank
<1>9. \A k \in 1 .. n : InOrder(S, R)[k] \in S /\ rank(InOrder(S, R)[k]) = k - 1
  BY <1>7, <1>8
<1>10. \A x \in S : \E k \in 1 .. n : InOrder(S, R)[k] = x
  <2> TAKE x \in S
  <2>1. rank(x) + 1 \in 1 .. n /\ (rank(x) + 1) - 1 = rank(x)
    BY <1>1, <1>2
  <2>2. InOrder(S, R)[rank(x) + 1] = x
    BY <1>4, <1>9, <2>1
  <2>3. QED
    BY <2>1, <2>2
<1>11. \A i, j \in 1 .. n : i < j => <<InOrder(S, R)[i], InOrder(S, R)[j]>> \in R
  <2> SUFFICES ASSUME NEW i \in 1 .. n, NEW j \in 1 .. n, i < j
               PROVE  <<InOrder(S, R)[i], InOrder(S, R)[j]>> \in R
    OBVIOUS
  <2> DEFINE x == InOrder(S, R)[i]
             y == InOrder(S, R)[j]
  <2>1. x \in S /\ y \in S /\ rank(x) = i - 1 /\ rank(y) = j - 1
    BY <1>9
  <2>2. rank(x) < rank(y)
    BY <1>1, <2>1
  <2>3. x # y /\ ~(rank(y) < rank(x))
    BY <1>1, <2>1, <2>2
  <2>4. QED
    BY <1>3, <2>1, <2>3 DEF StrictOrder
<1>12. InOrder(S, R) \in [1 .. n -> S]
  BY <1>8, <1>9
<1>13. QED
  BY <1>1, <1>10, <1>11, <1>12

(* The values of a function come out as often as it has them; what the     *)
(* builder and the search need is that they are its values, are finite in  *)
(* number and do not go down.                                              *)
LEMMA ValuesInOrderProperties ==
  ASSUME NEW D, D \subseteq Nat, IsFiniteSet(D), NEW f \in [D -> Int]
  PROVE  /\ ValuesInOrder(f) \in Seq(Int)
         /\ {ValuesInOrder(f)[k] : k \in DOMAIN ValuesInOrder(f)} = {f[i] : i \in D}
         /\ \A k, l \in DOMAIN ValuesInOrder(f) :
              k < l => ValuesInOrder(f)[k] <= ValuesInOrder(f)[l]
<1> DEFINE before(i, j) == f[i] < f[j] \/ (f[i] = f[j] /\ i < j)
           R == Ordering(D, before)
           order == InOrder(D, R)
           n == Cardinality(D)
<1>1. StrictOrder(D, R) /\ \A i, j \in D : <<i, j>> \in R => f[i] <= f[j]
  <2>1. \A i, j \in D : <<i, j>> \in R <=> before(i, j)
    BY DEF Ordering
  <2>2. \A i \in D : f[i] \in Int /\ i \in Int
    OBVIOUS
  <2> HIDE DEF R
  <2>3. \A x \in D : <<x, x>> \notin R
    BY <2>1, <2>2
  <2>4. \A x, y \in D : x # y => <<x, y>> \in R \/ <<y, x>> \in R
    BY <2>1, <2>2
  <2>5. \A x, y, z \in D : <<x, y>> \in R /\ <<y, z>> \in R => <<x, z>> \in R
    BY <2>1, <2>2
  <2>6. \A x, y \in D : <<x, y>> \in R => f[x] <= f[y]
    BY <2>1, <2>2
  <2>7. QED
    BY <2>3, <2>4, <2>5, <2>6 DEF StrictOrder
<1>2. /\ n \in Nat /\ order \in [1 .. n -> D]
      /\ \A x \in D : \E k \in 1 .. n : order[k] = x
      /\ \A i, j \in 1 .. n : i < j => <<order[i], order[j]>> \in R
  <2> HIDE DEF R
  <2>1. QED
    BY <1>1, InOrderProperties
<1>3. ValuesInOrder(f) = [k \in 1 .. n |-> f[order[k]]]
  <2>1. DOMAIN f = D
    OBVIOUS
  <2>2. ValuesInOrder(f) = [k \in DOMAIN order |-> f[order[k]]]
    BY <2>1 DEF ValuesInOrder, Ascending
  <2>3. QED
    BY <1>2, <2>2
<1> HIDE DEF R, order, n, before
<1>4. ValuesInOrder(f) \in [1 .. n -> Int]
  BY <1>2, <1>3
<1>5. DOMAIN ValuesInOrder(f) = 1 .. n
  BY <1>4
<1>6. ValuesInOrder(f) \in Seq(Int)
  BY <1>2, <1>4
<1>7. \A k \in 1 .. n : \E i \in D : ValuesInOrder(f)[k] = f[i]
  BY <1>2, <1>3
<1>8. \A i \in D : \E k \in 1 .. n : ValuesInOrder(f)[k] = f[i]
  BY <1>2, <1>3
<1>9. {ValuesInOrder(f)[k] : k \in DOMAIN ValuesInOrder(f)} = {f[i] : i \in D}
  <2> DEFINE A == {ValuesInOrder(f)[k] : k \in DOMAIN ValuesInOrder(f)}
             B == {f[i] : i \in D}
  <2>1. \A v \in A : v \in B
    BY <1>5, <1>7
  <2>2. \A v \in B : v \in A
    BY <1>5, <1>8
  <2>3. QED
    BY <2>1, <2>2
<1>10. \A k, l \in 1 .. n : k < l => ValuesInOrder(f)[k] <= ValuesInOrder(f)[l]
  <2>1. \A k \in 1 .. n : order[k] \in D /\ ValuesInOrder(f)[k] = f[order[k]]
    BY <1>2, <1>3
  <2>2. \A k, l \in 1 .. n : k < l => f[order[k]] <= f[order[l]]
    BY <1>1, <1>2, <2>1
  <2>3. QED
    BY <2>1, <2>2
<1>11. QED
  BY <1>5, <1>6, <1>9, <1>10

(* The sequence has each element of the set once.                          *)
Enumerates(order, n, D) ==
  /\ n \in Nat /\ order \in [1 .. n -> D]
  /\ \A x \in D : \E k \in 1 .. n : order[k] = x
  /\ \A i, j \in 1 .. n : i # j => order[i] # order[j]

Places(order, n, P) == {k \in 1 .. n : order[k] \in P}

LEMMA EnumeratedCount ==
  ASSUME NEW D, NEW n, NEW order, Enumerates(order, n, D), NEW P, P \subseteq D
  PROVE  Cardinality(Places(order, n, P)) = Cardinality(P)
<1> DEFINE K == Places(order, n, P)
           g == [k \in K |-> order[k]]
<1>0. /\ n \in Nat /\ order \in [1 .. n -> D]
      /\ \A x \in D : \E k \in 1 .. n : order[k] = x
      /\ \A i, j \in 1 .. n : i # j => order[i] # order[j]
      /\ \A k : k \in K <=> k \in 1 .. n /\ order[k] \in P
  BY DEF Enumerates, Places
<1> HIDE DEF K
<1>1. K \subseteq 1 .. n /\ \A k \in 1 .. n : order[k] \in D
  BY <1>0
<1>2. IsFiniteSet(K)
  BY <1>0, <1>1, FS_Interval, FS_Subset
<1>3. g \in Bijection(K, P)
  <2>1. g \in [K -> P]
    BY <1>0
  <2>2. \A k, l \in K : k # l => g[k] # g[l]
    BY <1>0, <1>1
  <2>3. \A x \in P : \E k \in K : g[k] = x
    <3> TAKE x \in P
    <3>1. PICK k \in 1 .. n : order[k] = x
      BY <1>0
    <3>2. QED
      BY <1>0, <3>1
  <2> HIDE DEF g
  <2>4. QED
    BY <2>1, <2>2, <2>3 DEF Bijection, Injection, Surjection, IsInjective
<1> HIDE DEF g
<1>4. QED
  BY <1>2, <1>3, FS_Bijection DEF ExistsBijection, K

(* A sequence that has each element of the set, in the order R, is it in   *)
(* order.                                                                  *)
LEMMA InOrderUnique ==
  ASSUME NEW S, NEW R, StrictOrder(S, R), NEW n \in Nat, NEW f \in [1 .. n -> S],
         \A x \in S : \E k \in 1 .. n : f[k] = x,
         \A i, j \in 1 .. n : i < j => <<f[i], f[j]>> \in R
  PROVE  IsFiniteSet(S) /\ Cardinality(S) = n /\ InOrder(S, R) = f
<1>1. \A i, j \in 1 .. n : i # j => f[i] # f[j]
  <2> SUFFICES ASSUME NEW i \in 1 .. n, NEW j \in 1 .. n, i < j
               PROVE  f[i] # f[j]
    OBVIOUS
  <2>1. f[i] \in S /\ <<f[i], f[j]>> \in R
    OBVIOUS
  <2>2. QED
    BY <2>1 DEF StrictOrder
<1>2. Enumerates(f, n, S)
  BY <1>1 DEF Enumerates
<1>3. IsFiniteSet(1 .. n) /\ Cardinality(1 .. n) = n
  BY FS_Interval
<1>4. Cardinality(S) = n
  <2>1. Places(f, n, S) = 1 .. n
    BY DEF Places
  <2>2. Cardinality(Places(f, n, S)) = Cardinality(S)
    BY <1>2, EnumeratedCount
  <2>3. QED
    BY <1>3, <2>1, <2>2
<1>5. IsFiniteSet(S)
  <2>1. f \in Surjection(1 .. n, S)
    BY DEF Surjection
  <2>2. QED
    BY <1>3, <2>1, FS_Surjection
<1>6. ASSUME NEW k \in 1 .. n
      PROVE  Cardinality(Before(f[k], S, R)) = k - 1
  <2> DEFINE P == Before(f[k], S, R)
  <2>1. P \subseteq S
    BY DEF Before
  <2>2. Places(f, n, P) = 1 .. k - 1
    <3>1. ASSUME NEW i \in 1 .. n, i < k
          PROVE  f[i] \in P
      BY <3>1 DEF Before
    <3>2. ASSUME NEW i \in 1 .. n, ~(i < k)
          PROVE  f[i] \notin P
      <4>1. f[i] \in S /\ f[k] \in S /\ (i = k \/ k < i)
        BY <3>2
      <4>2. f[i] = f[k] \/ <<f[k], f[i]>> \in R
        BY <4>1
      <4>3. <<f[i], f[k]>> \notin R
        BY <4>1, <4>2 DEF StrictOrder
      <4>4. QED
        BY <4>3 DEF Before
    <3> HIDE DEF P
    <3>3. QED
      BY <3>1, <3>2 DEF Places
  <2>3. Cardinality(Places(f, n, P)) = Cardinality(P)
    <3> HIDE DEF P
    <3>1. QED
      BY <1>2, <2>1, EnumeratedCount
  <2>4. Cardinality(1 .. k - 1) = k - 1
    BY FS_Interval
  <2>5. QED
    BY <2>2, <2>3, <2>4
<1>7. ASSUME NEW k \in 1 .. n
      PROVE  f[k] = CHOOSE x \in S : Cardinality(Before(x, S, R)) = k - 1
  <2>1. f[k] \in S /\ Cardinality(Before(f[k], S, R)) = k - 1
    BY <1>6
  <2>2. ASSUME NEW x \in S, Cardinality(Before(x, S, R)) = k - 1
        PROVE  x = f[k]
    <3>1. PICK j \in 1 .. n : f[j] = x
      OBVIOUS
    <3>2. j - 1 = k - 1
      BY <1>6, <2>2, <3>1
    <3>3. QED
      BY <3>1, <3>2
  <2>3. QED
    BY <2>1, <2>2
<1>8. InOrder(S, R) = [k \in 1 .. n |-> CHOOSE x \in S : Cardinality(Before(x, S, R)) = k - 1]
  BY <1>4 DEF InOrder
<1>9. QED
  BY <1>4, <1>5, <1>7, <1>8

LEMMA NatOrdered ==
  ASSUME NEW S, S \subseteq Nat
  PROVE  /\ StrictOrder(S, Ordering(S, <))
         /\ \A i, j \in S : <<i, j>> \in Ordering(S, <) <=> i < j
<1> DEFINE R == {p \in S \X S : p[1] < p[2]}
<1>1. Ordering(S, <) = R
  BY DEF Ordering
<1>2. \A i, j \in S : (<<i, j>> \in R <=> i < j) /\ i \in Int /\ j \in Int
  OBVIOUS
<1> HIDE DEF R
<1>3. /\ \A i \in S : <<i, i>> \notin R
      /\ \A i, j \in S : i # j => <<i, j>> \in R \/ <<j, i>> \in R
  BY <1>2
<1>4. \A i, j, k \in S : <<i, j>> \in R /\ <<j, k>> \in R => <<i, k>> \in R
  BY <1>2
<1>5. StrictOrder(S, R)
  BY <1>3, <1>4 DEF StrictOrder
<1>6. QED
  BY <1>1, <1>2, <1>5

LEMMA AscendingProperties ==
  ASSUME NEW S, S \subseteq Nat, IsFiniteSet(S)
  PROVE  /\ Ascending(S, <) \in Seq(S)
         /\ Len(Ascending(S, <)) = Cardinality(S) /\ Cardinality(S) \in Nat
         /\ \A x \in S : \E k \in 1 .. Cardinality(S) : Ascending(S, <)[k] = x
         /\ \A i, j \in 1 .. Cardinality(S) :
              i < j => Ascending(S, <)[i] < Ascending(S, <)[j]
<1> DEFINE R == Ordering(S, <)
           n == Cardinality(S)
           order == InOrder(S, R)
<1>1. StrictOrder(S, R) /\ \A i, j \in S : <<i, j>> \in R <=> i < j
  BY NatOrdered
<1>2. /\ n \in Nat /\ order \in [1 .. n -> S]
      /\ \A x \in S : \E k \in 1 .. n : order[k] = x
      /\ \A i, j \in 1 .. n : i < j => <<order[i], order[j]>> \in R
  <2> HIDE DEF R
  <2>1. QED
    BY <1>1, InOrderProperties
<1>3. Ascending(S, <) = order
  BY DEF Ascending
<1> HIDE DEF order, R, n
<1>4. order \in Seq(S) /\ Len(order) = n
  BY <1>2
<1>5. QED
  BY <1>1, <1>2, <1>3, <1>4 DEF n

(* The greatest number comes last. *)
LEMMA AscendingOfOneMore ==
  ASSUME NEW S, S \subseteq Nat, IsFiniteSet(S), NEW x \in Nat, \A y \in S : y < x
  PROVE  Ascending(S \cup {x}, <) = Append(Ascending(S, <), x)
<1> DEFINE n == Cardinality(S)
           T == S \cup {x}
           order == Ascending(S, <)
           R == Ordering(T, <)
           f == [k \in 1 .. n + 1 |-> IF k = n + 1 THEN x ELSE order[k]]
<1>1. /\ order \in Seq(S) /\ Len(order) = n /\ n \in Nat
      /\ \A y \in S : \E k \in 1 .. n : order[k] = y
      /\ \A i, j \in 1 .. n : i < j => order[i] < order[j]
  BY AscendingProperties
<1>2. T \subseteq Nat
  OBVIOUS
<1>3. StrictOrder(T, R) /\ \A i, j \in T : <<i, j>> \in R <=> i < j
  BY <1>2, NatOrdered
<1>4. Ascending(T, <) = InOrder(T, R)
  BY DEF Ascending
<1> HIDE DEF order, n, R
<1>5. \A k \in 1 .. n : order[k] \in S
  BY <1>1
<1>6. f \in [1 .. n + 1 -> T]
  BY <1>1, <1>5
<1>7. \A y \in T : \E k \in 1 .. n + 1 : f[k] = y
  <2>1. ASSUME NEW y \in S
        PROVE  \E k \in 1 .. n + 1 : f[k] = y
    <3>1. PICK k \in 1 .. n : order[k] = y
      BY <1>1
    <3>2. k \in 1 .. n + 1 /\ f[k] = y
      BY <1>1, <3>1
    <3>3. QED
      BY <3>2
  <2>2. n + 1 \in 1 .. n + 1 /\ f[n + 1] = x
    BY <1>1
  <2>3. QED
    BY <2>1, <2>2
<1>8. \A i, j \in 1 .. n + 1 : i < j => <<f[i], f[j]>> \in R
  <2> SUFFICES ASSUME NEW i \in 1 .. n + 1, NEW j \in 1 .. n + 1, i < j
               PROVE  <<f[i], f[j]>> \in R
    OBVIOUS
  <2>1. i \in 1 .. n /\ f[i] = order[i] /\ order[i] \in S
    BY <1>1, <1>5
  <2>2. f[i] < f[j]
    <3>1. CASE j = n + 1
      BY <2>1, <3>1
    <3>2. CASE j # n + 1
      BY <1>1, <2>1, <3>2
    <3>3. QED
      BY <3>1, <3>2
  <2>3. f[i] \in T /\ f[j] \in T
    BY <1>6
  <2> HIDE DEF f
  <2>4. QED
    BY <1>3, <2>2, <2>3
<1>9. InOrder(T, R) = f
  <2>1. n + 1 \in Nat
    BY <1>1
  <2> HIDE DEF f, T
  <2>2. QED
    BY <1>3, <1>6, <1>7, <1>8, <2>1, InOrderUnique
<1>10. Append(order, x) = f
  <2>1. order \in Seq(T) /\ x \in T
    BY <1>1, <1>5
  <2> HIDE DEF T
  <2>2. DOMAIN Append(order, x) = 1 .. n + 1 /\ DOMAIN order = 1 .. n
    BY <1>1, <2>1
  <2>3. \A k \in 1 .. n + 1 : Append(order, x)[k] = IF k = n + 1 THEN x ELSE order[k]
    BY <1>1, <2>1
  <2>4. PICK g : g = Append(order, x)
    OBVIOUS
  <2>5. g \in Seq(T) /\ DOMAIN g = 1 .. n + 1
    BY <2>1, <2>2, <2>4
  <2>6. g = [k \in 1 .. n + 1 |-> g[k]]
    BY <2>5
  <2>7. QED
    BY <2>3, <2>4, <2>6
<1>11. QED
  BY <1>4, <1>9, <1>10 DEF order

LEMMA PickedProperties ==
  ASSUME NEW A, NEW s \in Seq(A), NEW S, S \subseteq DOMAIN s
  PROVE  /\ Picked(s, S) \in Seq(A)
         /\ {Picked(s, S)[k] : k \in DOMAIN Picked(s, S)} = {s[i] : i \in S}
<1> DEFINE order == Ascending(S, <)
           n == Cardinality(S)
<1>1. S \subseteq Nat /\ IsFiniteSet(S) /\ \A i \in S : s[i] \in A
  <2>1. DOMAIN s = 1 .. Len(s) /\ Len(s) \in Nat
    OBVIOUS
  <2>2. IsFiniteSet(1 .. Len(s))
    BY <2>1, FS_Interval
  <2>3. QED
    BY <2>1, <2>2, FS_Subset
<1>2. /\ order \in Seq(S) /\ Len(order) = n /\ n \in Nat
      /\ \A y \in S : \E k \in 1 .. n : order[k] = y
  BY <1>1, AscendingProperties
<1>3. Picked(s, S) = [k \in DOMAIN order |-> s[order[k]]]
  BY DEF Picked
<1> HIDE DEF order, n
<1>4. DOMAIN order = 1 .. n /\ \A k \in 1 .. n : order[k] \in S
  BY <1>2
<1>5. Picked(s, S) = [k \in 1 .. n |-> s[order[k]]]
  BY <1>3, <1>4
<1>6. \A k \in 1 .. n : Picked(s, S)[k] = s[order[k]] /\ s[order[k]] \in A
  BY <1>1, <1>4, <1>5
<1>7. Picked(s, S) \in Seq(A)
  <2>1. PICK g : g = Picked(s, S)
    OBVIOUS
  <2>2. g \in [1 .. n -> A]
    BY <1>5, <1>6, <2>1
  <2>3. n \in Nat
    BY <1>2
  <2>4. g \in Seq(A)
    BY <2>2, <2>3
  <2>5. QED
    BY <2>1, <2>4
<1>8. DOMAIN Picked(s, S) = 1 .. n
  BY <1>5
<1>9. {Picked(s, S)[k] : k \in 1 .. n} = {s[i] : i \in S}
  <2>1. \A k \in 1 .. n : \E i \in S : Picked(s, S)[k] = s[i]
    BY <1>4, <1>6
  <2>2. \A i \in S : \E k \in 1 .. n : Picked(s, S)[k] = s[i]
    BY <1>2, <1>6
  <2>3. QED
    BY <2>1, <2>2
<1>10. QED
  BY <1>7, <1>8, <1>9

LEMMA PickedNone ==
  ASSUME NEW A, NEW s \in Seq(A)
  PROVE  Picked(s, {}) = <<>>
<1>1. {} \subseteq Nat /\ IsFiniteSet({}) /\ Cardinality({}) = 0
  BY FS_EmptySet
<1>2. Ascending({}, <) \in Seq({}) /\ Len(Ascending({}, <)) = 0
  BY <1>1, AscendingProperties
<1>3. DOMAIN Ascending({}, <) = {}
  <2>1. \A q \in Seq({}) : Len(q) = 0 => DOMAIN q = {}
    OBVIOUS
  <2>2. QED
    BY <1>2, <2>1
<1>4. DOMAIN Picked(s, {}) = {}
  BY <1>3 DEF Picked
<1>5. Picked(s, {}) \in Seq(A)
  BY PickedProperties
<1>6. \A q \in Seq(A) : DOMAIN q = {} => q = <<>>
  <2> TAKE q \in Seq(A)
  <2>1. Len(q) \in Nat /\ DOMAIN q = 1 .. Len(q)
    OBVIOUS
  <2>2. DOMAIN q = {} => Len(q) = 0
    BY <2>1
  <2>3. Len(q) = 0 => q = <<>>
    OBVIOUS
  <2>4. QED
    BY <2>2, <2>3
<1>7. QED
  BY <1>4, <1>5, <1>6

LEMMA PickedOneMore ==
  ASSUME NEW A, NEW s \in Seq(A), NEW S, S \subseteq DOMAIN s,
         NEW x \in DOMAIN s, \A y \in S : y < x
  PROVE  Picked(s, S \cup {x}) = Append(Picked(s, S), s[x])
<1> DEFINE order == Ascending(S, <)
           n == Cardinality(S)
<1>1. S \subseteq Nat /\ IsFiniteSet(S) /\ x \in Nat
  <2>1. DOMAIN s = 1 .. Len(s) /\ Len(s) \in Nat
    OBVIOUS
  <2>2. IsFiniteSet(1 .. Len(s))
    BY <2>1, FS_Interval
  <2>3. QED
    BY <2>1, <2>2, FS_Subset
<1>2. order \in Seq(S) /\ Len(order) = n /\ n \in Nat
  BY <1>1, AscendingProperties
<1>3. Ascending(S \cup {x}, <) = Append(order, x)
  BY <1>1, AscendingOfOneMore
<1>4. /\ Picked(s, S) = [k \in DOMAIN order |-> s[order[k]]]
      /\ Picked(s, S \cup {x}) = [k \in DOMAIN Append(order, x) |-> s[Append(order, x)[k]]]
  BY <1>3 DEF Picked
<1> HIDE DEF order, n
<1>5. DOMAIN order = 1 .. n /\ \A k \in 1 .. n : order[k] \in S
  BY <1>2
<1>6. /\ DOMAIN Append(order, x) = 1 .. n + 1
      /\ \A k \in 1 .. n : Append(order, x)[k] = order[k]
      /\ Append(order, x)[n + 1] = x
  BY <1>2
<1>7. Picked(s, S) = [k \in 1 .. n |-> s[order[k]]]
  BY <1>4, <1>5
<1>8. Picked(s, S \cup {x}) = [k \in 1 .. n + 1 |-> IF k = n + 1 THEN s[x] ELSE s[order[k]]]
  <2>1. \A k \in 1 .. n + 1 : s[Append(order, x)[k]] = IF k = n + 1 THEN s[x] ELSE s[order[k]]
    BY <1>2, <1>6
  <2>2. QED
    BY <1>4, <1>6, <2>1
<1>9. Picked(s, S) \in Seq(A)
  BY PickedProperties
<1>10. Append(Picked(s, S), s[x]) = [k \in 1 .. n + 1 |-> IF k = n + 1 THEN s[x] ELSE s[order[k]]]
  BY <1>2, <1>7, <1>9
<1>11. QED
  BY <1>8, <1>10

Where(f, D, v) == {i \in D : f[i] = v}

(* Each value comes out as often as the function has it.                   *)
LEMMA ValuesInOrderCounts ==
  ASSUME NEW D, D \subseteq Nat, IsFiniteSet(D), NEW f \in [D -> Int], NEW v
  PROVE  Cardinality(Where(ValuesInOrder(f), DOMAIN ValuesInOrder(f), v))
           = Cardinality(Where(f, D, v))
<1> DEFINE before(i, j) == f[i] < f[j] \/ (f[i] = f[j] /\ i < j)
           R == Ordering(D, before)
           order == InOrder(D, R)
           n == Cardinality(D)
           P == Where(f, D, v)
           K == Places(order, n, P)
<1>1. StrictOrder(D, R)
  <2>1. \A i, j \in D : <<i, j>> \in R <=> before(i, j)
    BY DEF Ordering
  <2>2. \A i \in D : f[i] \in Int /\ i \in Int
    OBVIOUS
  <2> HIDE DEF R
  <2>3. \A x \in D : <<x, x>> \notin R
    BY <2>1, <2>2
  <2>4. \A x, y \in D : x # y => <<x, y>> \in R \/ <<y, x>> \in R
    BY <2>1, <2>2
  <2>5. \A x, y, z \in D : <<x, y>> \in R /\ <<y, z>> \in R => <<x, z>> \in R
    BY <2>1, <2>2
  <2>6. QED
    BY <2>3, <2>4, <2>5 DEF StrictOrder
<1>2. /\ n \in Nat /\ order \in [1 .. n -> D]
      /\ \A x \in D : \E k \in 1 .. n : order[k] = x
      /\ \A i, j \in 1 .. n : i < j => <<order[i], order[j]>> \in R
  <2> HIDE DEF R
  <2>1. QED
    BY <1>1, InOrderProperties
<1>3. ValuesInOrder(f) = [k \in 1 .. n |-> f[order[k]]]
  <2>1. DOMAIN f = D
    OBVIOUS
  <2>2. ValuesInOrder(f) = [k \in DOMAIN order |-> f[order[k]]]
    BY <2>1 DEF ValuesInOrder, Ascending
  <2>3. QED
    BY <1>2, <2>2
<1> HIDE DEF R, order, n, before
<1>4. \A i, j \in 1 .. n : i # j => order[i] # order[j]
  <2> SUFFICES ASSUME NEW i \in 1 .. n, NEW j \in 1 .. n, i < j
               PROVE  order[i] # order[j]
    BY <1>2
  <2>1. <<order[i], order[j]>> \in R /\ order[i] \in D
    BY <1>2
  <2>2. QED
    BY <1>1, <2>1 DEF StrictOrder
<1>5. \A k \in 1 .. n : ValuesInOrder(f)[k] = f[order[k]] /\ order[k] \in D
  BY <1>2, <1>3
<1>6. Where(ValuesInOrder(f), DOMAIN ValuesInOrder(f), v) = K
  BY <1>3, <1>5 DEF Places, Where
<1>7. P \subseteq D
  BY DEF Where
<1>8. Cardinality(K) = Cardinality(P)
  <2>1. Enumerates(order, n, D)
    BY <1>2, <1>4 DEF Enumerates
  <2>2. PICK A, B : A = D /\ B = P
    OBVIOUS
  <2>3. Enumerates(order, n, A) /\ B \subseteq A
    BY <1>7, <2>1, <2>2
  <2>4. Cardinality(Places(order, n, B)) = Cardinality(B)
    BY <2>3, EnumeratedCount
  <2> HIDE DEF P
  <2>5. QED
    BY <2>2, <2>4
<1>9. QED
  BY <1>6, <1>8 DEF P

-----------------------------------------------------------------------------
(***************************************************************************)
(* Recursion that ends: each step of it goes on with one other argument,   *)
(* of smaller measure, until it stops.                                     *)
(***************************************************************************)
Unfolds(f, A, stop, val, next) ==
  \A d \in A : f[d] = IF d \in stop THEN val[d] ELSE f[next[d]]

(* There is a function that is defined by such a recursion. *)
LEMMA TailRecursion ==
  ASSUME NEW D, NEW V, NEW stop \in SUBSET D, NEW val \in [stop -> V],
         NEW next \in [D -> D], NEW w \in [D -> Nat],
         \A d \in D \ stop : w[next[d]] < w[d]
  PROVE  \E f \in [D -> V] : Unfolds(f, D, stop, val, next)
<1> DEFINE upTo(n) == {d \in D : w[d] < n}
           good(n) == {g \in [upTo(n) -> V] : Unfolds(g, upTo(n), stop, val, next)}
<1>1. \A d \in D : w[d] \in Nat /\ next[d] \in D
  OBVIOUS
<1>2. ASSUME NEW n \in Nat, NEW d \in upTo(n + 1), d \notin stop
      PROVE  next[d] \in upTo(n)
  <2>1. w[next[d]] < w[d] /\ w[d] < n + 1
    BY <1>2
  <2>2. QED
    BY <1>1, <2>1
<1>3. \A n \in Nat : upTo(n) \subseteq upTo(n + 1)
  BY <1>1
<1>4. Nat \subseteq {n \in Nat : good(n) # {}}
  <2> DEFINE T == {n \in Nat : good(n) # {}}
  <2>1. 0 \in T
    <3> DEFINE g == [d \in upTo(0) |-> CHOOSE v \in V : TRUE]
    <3>1. upTo(0) = {}
      BY <1>1
    <3>2. g \in good(0)
      BY <3>1 DEF Unfolds
    <3>3. QED
      BY <3>2
  <2>2. ASSUME NEW n \in Nat, n \in T
        PROVE  n + 1 \in T
    <3>1. PICK g \in [upTo(n) -> V] : Unfolds(g, upTo(n), stop, val, next)
      BY <2>2
    <3> DEFINE h == [d \in upTo(n + 1) |-> IF d \in stop THEN val[d] ELSE g[next[d]]]
    <3>2. h \in [upTo(n + 1) -> V]
      BY <1>2, <3>1
    <3>3. \A d \in upTo(n) : h[d] = g[d]
      BY <1>3, <3>1 DEF Unfolds
    <3>4. ASSUME NEW d \in upTo(n + 1)
          PROVE  h[d] = IF d \in stop THEN val[d] ELSE h[next[d]]
      <4>1. CASE d \in stop
        BY <4>1
      <4>2. CASE d \notin stop
        <5>1. h[next[d]] = g[next[d]]
          BY <1>2, <3>3, <4>2
        <5>2. QED
          BY <4>2, <5>1
      <4>3. QED
        BY <4>1, <4>2
    <3> HIDE DEF h
    <3>5. h \in good(n + 1)
      BY <3>2, <3>4 DEF Unfolds
    <3> HIDE DEF good
    <3>6. good(n + 1) # {} /\ n + 1 \in Nat
      BY <3>5
    <3>7. QED
      BY <3>6
  <2> HIDE DEF T
  <2>3. Nat \subseteq T
    BY <2>1, <2>2, Induction
  <2>4. QED
    BY <2>3 DEF T
<1> DEFINE G == [n \in Nat |-> CHOOSE g : g \in good(n)]
<1>5. \A n \in Nat : G[n] \in good(n)
  BY <1>4
<1> HIDE DEF G
<1>6. \A n \in Nat : G[n] \in [upTo(n) -> V] /\ Unfolds(G[n], upTo(n), stop, val, next)
  BY <1>5
<1>7. ASSUME NEW m \in Nat, NEW n \in Nat, NEW d \in upTo(m), d \in upTo(n)
      PROVE  G[m][d] = G[n][d]
  <2> DEFINE bad == {w[e] : e \in {x \in upTo(m) \cap upTo(n) : G[m][x] # G[n][x]}}
  <2> SUFFICES ASSUME bad # {}
               PROVE  FALSE
    BY <1>7
  <2>1. bad \subseteq Nat
    BY <1>1
  <2>2. PICK k \in bad : \A j \in bad : k <= j
    BY <2>1, LeastNat
  <2>3. PICK e \in upTo(m) \cap upTo(n) : k = w[e] /\ G[m][e] # G[n][e]
    BY <2>2
  <2>4. e \notin stop
    BY <1>6, <2>3 DEF Unfolds
  <2>5. next[e] \in upTo(m) \cap upTo(n) /\ w[next[e]] < w[e]
    BY <1>1, <2>3, <2>4
  <2>6. G[m][next[e]] # G[n][next[e]]
    BY <1>6, <2>3, <2>4 DEF Unfolds
  <2>7. w[next[e]] \in bad
    BY <2>5, <2>6
  <2>8. k <= w[next[e]] /\ w[next[e]] < k
    BY <2>2, <2>3, <2>5, <2>7
  <2>9. k \in Nat /\ w[next[e]] \in Nat
    BY <2>1, <2>7
  <2>10. QED
    BY <2>8, <2>9
<1> DEFINE f == [d \in D |-> G[w[d] + 1][d]]
<1>8. \A d \in D : d \in upTo(w[d] + 1) /\ w[d] + 1 \in Nat
  BY <1>1
<1>9. f \in [D -> V]
  BY <1>6, <1>8
<1>10. ASSUME NEW d \in D
       PROVE  f[d] = IF d \in stop THEN val[d] ELSE f[next[d]]
  <2>1. G[w[d] + 1][d] = IF d \in stop THEN val[d] ELSE G[w[d] + 1][next[d]]
    BY <1>6, <1>8 DEF Unfolds
  <2>2. CASE d \in stop
    BY <2>1, <2>2
  <2>3. CASE d \notin stop
    <3>1. next[d] \in upTo(w[d] + 1)
      BY <1>1, <2>3
    <3>2. G[w[next[d]] + 1][next[d]] = G[w[d] + 1][next[d]]
      BY <1>1, <1>7, <1>8, <3>1
    <3>3. QED
      BY <1>1, <2>1, <2>3, <3>2
  <2>4. QED
    BY <2>2, <2>3
<1> HIDE DEF f
<1>11. QED
  BY <1>9, <1>10 DEF Unfolds

-----------------------------------------------------------------------------
(***************************************************************************)
(* The sum of a function's values is the size of a set that has f[x]       *)
(* elements for each x: what holds of sets then holds of sums.             *)
(***************************************************************************)
Units(f, S) == {u \in S \X Nat : u[2] < f[u[1]]}

LEMMA UnitsOfOneMore ==
  ASSUME NEW S, NEW x, x \notin S, NEW f, f[x] \in Nat, IsFiniteSet(Units(f, S))
  PROVE  /\ IsFiniteSet(Units(f, S \cup {x}))
         /\ Cardinality(Units(f, S \cup {x})) = Cardinality(Units(f, S)) + f[x]
<1> DEFINE n == f[x]
           J == 0 .. n - 1
           X == {x} \X J
           U == Units(f, S)
<1>1. n \in Nat
  OBVIOUS
<1>2. IsFiniteSet({x}) /\ Cardinality({x}) = 1
  BY FS_Singleton
<1>3. IsFiniteSet(J) /\ Cardinality(J) = n
  <2> HIDE DEF n
  <2>1. n - 1 \in Int /\ 0 \in Int
    BY <1>1
  <2>2. IsFiniteSet(0 .. n - 1) /\ Cardinality(0 .. n - 1) = IF 0 > n - 1 THEN 0 ELSE (n - 1) - 0 + 1
    BY <2>1, FS_Interval
  <2>3. QED
    BY <1>1, <2>2
<1>4. IsFiniteSet(X) /\ Cardinality(X) = n
  <2> HIDE DEF J, n
  <2>1. IsFiniteSet({x} \X J) /\ Cardinality({x} \X J) = Cardinality({x}) * Cardinality(J)
    BY <1>2, <1>3, FS_Product
  <2>2. QED
    BY <1>1, <1>2, <1>3, <2>1
<1>5. Units(f, S \cup {x}) = U \cup X
  <2>1. \A u \in Units(f, S \cup {x}) : u \in U \cup X
    BY <1>1 DEF Units, n
  <2>2. \A u \in U \cup X : u \in Units(f, S \cup {x})
    BY <1>1 DEF Units, n
  <2>3. QED
    BY <2>1, <2>2
<1>6. U \cap X = {}
  BY DEF Units
<1>7. Cardinality(U) \in Nat /\ Cardinality(U \cap X) = 0
  BY <1>6, FS_CardinalityType, FS_EmptySet
<1> HIDE DEF X, U, n
<1>8. IsFiniteSet(U)
  BY DEF U
<1>9. IsFiniteSet(U \cup X) /\ Cardinality(U \cup X) = Cardinality(U) + Cardinality(X) - Cardinality(U \cap X)
  BY <1>4, <1>8, FS_Union
<1>10. Cardinality(U \cup X) = Cardinality(U) + n
  BY <1>1, <1>4, <1>7, <1>9
<1>11. QED
  BY <1>5, <1>9, <1>10 DEF n, U

LEMMA UnitsFinite ==
  ASSUME NEW D, IsFiniteSet(D), NEW f \in [D -> Nat]
  PROVE  \A S \in SUBSET D : IsFiniteSet(Units(f, S)) /\ Cardinality(Units(f, S)) \in Nat
<1> DEFINE T == {n \in Nat : \A S \in SUBSET D :
                   Cardinality(S) = n => IsFiniteSet(Units(f, S))}
<1>1. \A S \in SUBSET D : IsFiniteSet(S) /\ Cardinality(S) \in Nat
  BY FS_Subset, FS_CardinalityType
<1>2. 0 \in T
  <2>1. \A S \in SUBSET D : Cardinality(S) = 0 => S = {}
    BY <1>1, FS_EmptySet
  <2>2. Units(f, {}) = {}
    BY DEF Units
  <2>3. QED
    BY <2>1, <2>2, FS_EmptySet
<1>3. ASSUME NEW n \in Nat, n \in T
      PROVE  n + 1 \in T
  <2>1. ASSUME NEW S \in SUBSET D, Cardinality(S) = n + 1
        PROVE  IsFiniteSet(Units(f, S))
    <3>1. S # {}
      BY <2>1, FS_EmptySet
    <3>2. PICK x \in S : TRUE
      BY <3>1
    <3> DEFINE R == S \ {x}
    <3>3. Cardinality(R) = n /\ R \in SUBSET D
      BY <1>1, <2>1, <3>2, FS_RemoveElement
    <3>4. IsFiniteSet(Units(f, R)) /\ x \notin R /\ f[x] \in Nat /\ S = R \cup {x}
      BY <1>3, <3>3
    <3> HIDE DEF R
    <3>5. QED
      BY <3>4, UnitsOfOneMore
  <2>2. QED
    BY <2>1
<1> HIDE DEF T
<1>4. Nat \subseteq T
  BY <1>2, <1>3, Induction
<1>5. \A S \in SUBSET D : IsFiniteSet(Units(f, S))
  BY <1>1, <1>4 DEF T
<1>6. QED
  BY <1>5, FS_CardinalityType

Total(f) == FoldFunction(+, 0, f)

(* The recursion of FoldFunction, once. *)
SumOnce(f, sum) ==
  [S \in SUBSET DOMAIN f |->
     IF S = {} THEN 0 ELSE LET x == CHOOSE y \in S : TRUE IN f[x] + sum[S \ {x}]]

LEMMA SumIsSize ==
  ASSUME NEW D, IsFiniteSet(D), NEW f \in [D -> Nat]
  PROVE  Total(f) = Cardinality(Units(f, D))
<1> DEFINE size == [S \in SUBSET D |-> Cardinality(Units(f, S))]
           sum == CHOOSE g : g = SumOnce(f, g)
           pick(S) == CHOOSE y \in S : TRUE
           T == {n \in Nat : \A S \in SUBSET D : Cardinality(S) = n => sum[S] = size[S]}
<1>1. \A S \in SUBSET D : IsFiniteSet(S) /\ Cardinality(S) \in Nat
  BY FS_Subset, FS_CardinalityType
<1>2. size[{}] = 0
  <2>1. Units(f, {}) = {}
    BY DEF Units
  <2>2. QED
    BY <2>1, FS_EmptySet
<1>3. ASSUME NEW S \in SUBSET D, S # {}
      PROVE  /\ pick(S) \in S /\ S \ {pick(S)} \in SUBSET D
             /\ Cardinality(S \ {pick(S)}) = Cardinality(S) - 1
             /\ size[S] = f[pick(S)] + size[S \ {pick(S)}]
  <2> DEFINE x == pick(S)
             R == S \ {x}
  <2>1. x \in S /\ R \in SUBSET D /\ x \notin R /\ S = R \cup {x}
    BY <1>3
  <2>2. f[x] \in Nat /\ IsFiniteSet(Units(f, R)) /\ Cardinality(Units(f, R)) \in Nat
    BY <2>1, UnitsFinite
  <2>3. Cardinality(R) = Cardinality(S) - 1
    BY <1>1, <2>1, FS_RemoveElement
  <2> HIDE DEF x, R
  <2>4. Cardinality(Units(f, S)) = Cardinality(Units(f, R)) + f[x]
    BY <2>1, <2>2, UnitsOfOneMore
  <2>5. QED
    BY <2>1, <2>2, <2>3, <2>4 DEF x, R
<1> HIDE DEF pick
<1>4. size = SumOnce(f, size)
  <2>1. SumOnce(f, size) = [S \in SUBSET D |->
          IF S = {} THEN 0 ELSE f[pick(S)] + size[S \ {pick(S)}]]
    BY DEF SumOnce, pick
  <2>2. \A S \in SUBSET D :
          size[S] = IF S = {} THEN 0 ELSE f[pick(S)] + size[S \ {pick(S)}]
    BY <1>2, <1>3
  <2>3. QED
    BY <2>1, <2>2
<1>5. sum = SumOnce(f, sum)
  <2> HIDE DEF size
  <2>1. QED
    BY <1>4
<1>6. \A S \in SUBSET D :
        sum[S] = IF S = {} THEN 0 ELSE f[pick(S)] + sum[S \ {pick(S)}]
  <2> DEFINE once == SumOnce(f, sum)
  <2>1. sum = once
    BY <1>5
  <2> HIDE DEF sum
  <2>2. \A S \in SUBSET D :
          once[S] = IF S = {} THEN 0 ELSE f[pick(S)] + sum[S \ {pick(S)}]
    BY DEF SumOnce, pick
  <2> HIDE DEF once
  <2>3. QED
    BY <2>1, <2>2
<1> HIDE DEF sum, size
<1>7. 0 \in T
  <2>1. \A S \in SUBSET D : Cardinality(S) = 0 => S = {}
    BY <1>1, FS_EmptySet
  <2>2. QED
    BY <1>2, <1>6, <2>1
<1>8. ASSUME NEW n \in Nat, n \in T
      PROVE  n + 1 \in T
  <2>1. ASSUME NEW S \in SUBSET D, Cardinality(S) = n + 1
        PROVE  sum[S] = size[S]
    <3>1. S # {}
      BY <2>1, FS_EmptySet
    <3>2. S \ {pick(S)} \in SUBSET D /\ Cardinality(S \ {pick(S)}) = n
      BY <1>3, <2>1, <3>1
    <3>3. QED
      BY <1>3, <1>6, <1>8, <3>1, <3>2
  <2>2. QED
    BY <2>1
<1> HIDE DEF T
<1>9. Nat \subseteq T
  BY <1>7, <1>8, Induction
<1>10. sum[D] = size[D]
  BY <1>1, <1>9 DEF T
<1>11. Total(f) = sum[D]
  <2>1. DOMAIN f = D
    OBVIOUS
  <2>2. Total(f) = sum[DOMAIN f]
    BY DEF Total, FoldFunction, FoldFunctionOnSet, MapThenFoldSet, SumOnce, sum
  <2>3. QED
    BY <2>1, <2>2
<1>12. QED
  BY <1>10, <1>11 DEF size

LEMMA SumOfNone == Total([x \in {} |-> x]) = 0
<1> DEFINE f == [x \in {} |-> x]
<1>1. f \in [{} -> Nat] /\ IsFiniteSet({})
  BY FS_EmptySet
<1> HIDE DEF f
<1>2. Total(f) = Cardinality(Units(f, {}))
  BY <1>1, SumIsSize
<1>3. Units(f, {}) = {}
  BY DEF Units
<1>4. QED
  BY <1>2, <1>3, FS_EmptySet DEF f

LEMMA SumOfOneMore ==
  ASSUME NEW S, IsFiniteSet(S), NEW x, x \notin S, NEW f \in [S \cup {x} -> Nat],
         NEW g \in [S -> Nat], \A y \in S : f[y] = g[y]
  PROVE  Total(f) = Total(g) + f[x]
<1>1. IsFiniteSet(S \cup {x})
  BY FS_AddElement
<1>2. /\ Total(f) = Cardinality(Units(f, S \cup {x}))
      /\ Total(g) = Cardinality(Units(g, S))
  BY <1>1, SumIsSize
<1>3. Units(g, S) = Units(f, S)
  BY DEF Units
<1>4. IsFiniteSet(Units(f, S)) /\ f[x] \in Nat
  BY <1>1, UnitsFinite
<1>5. Cardinality(Units(f, S \cup {x})) = Cardinality(Units(f, S)) + f[x]
  BY <1>4, UnitsOfOneMore
<1>6. QED
  BY <1>2, <1>3, <1>5

LEMMA SumOfPart ==
  ASSUME NEW D, IsFiniteSet(D), NEW f \in [D -> Nat],
         NEW S \in SUBSET D, NEW g \in [S -> Nat], \A y \in S : f[y] = g[y]
  PROVE  /\ Total(f) \in Nat /\ Total(g) \in Nat
         /\ Total(g) <= Total(f)
<1>1. IsFiniteSet(S)
  BY FS_Subset
<1>2. /\ Total(f) = Cardinality(Units(f, D))
      /\ Total(g) = Cardinality(Units(g, S))
  BY <1>1, SumIsSize
<1>3. Units(g, S) \subseteq Units(f, D)
  BY DEF Units
<1>4. IsFiniteSet(Units(f, D)) /\ Cardinality(Units(f, D)) \in Nat
  BY UnitsFinite
<1>5. IsFiniteSet(Units(g, S)) /\ Cardinality(Units(g, S)) \in Nat
  BY <1>1, UnitsFinite
<1>6. QED
  BY <1>2, <1>3, <1>4, <1>5, FS_Subset
=============================================================================
