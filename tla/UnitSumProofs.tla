---------------------------- MODULE UnitSumProofs ----------------------------
(***************************************************************************)
(* Facts about Total, all of them counting arguments over Units.           *)
(***************************************************************************)
EXTENDS UnitSum, Integers, Functions, FiniteSetTheorems, FunctionTheorems,
        WellFoundedInduction, TLAPS

(* What the units of a function are.                                       *)
LEMMA UnitsMember ==
    ASSUME NEW f, NEW z
    PROVE  z \in Units(f) <=> \E x \in DOMAIN f : \E k \in 1 .. f[x] : z = <<x, k>>
BY DEF Units

(* The block of units one term contributes.                                *)
LEMMA Block ==
    ASSUME NEW x, NEW n \in Nat
    PROVE  IsFiniteSet({x} \X (1 .. n)) /\ Cardinality({x} \X (1 .. n)) = n
<1>1. IsFiniteSet({x}) /\ Cardinality({x}) = 1
  BY FS_Singleton
<1>2. 1 \in Int /\ n \in Int
  OBVIOUS
<1>3. IsFiniteSet(1 .. n) /\ Cardinality(1 .. n) = IF 1 > n THEN 0 ELSE n - 1 + 1
  BY <1>2, FS_Interval
<1>4. Cardinality(1 .. n) = n
  BY <1>3
<1>5. /\ IsFiniteSet({x} \X (1 .. n))
      /\ Cardinality({x} \X (1 .. n)) = Cardinality({x}) * Cardinality(1 .. n)
  BY <1>1, <1>3, FS_Product
<1> QED
  BY <1>1, <1>4, <1>5

(* A finite sum of natural numbers is a natural number.                    *)
LEMMA TotalNat ==
    ASSUME NEW S, IsFiniteSet(S), NEW f \in [S -> Nat]
    PROVE  IsFiniteSet(Units(f)) /\ Total(f) \in Nat
<1> DEFINE block == [x \in S |-> {x} \X (1 .. f[x])]
           Blocks == {{x} \X (1 .. f[x]) : x \in S}
<1>1. block \in Surjection(S, Blocks)
  <2>1. block \in [S -> Blocks]
    OBVIOUS
  <2>2. \A B \in Blocks : \E x \in S : block[x] = B
    OBVIOUS
  <2> QED
    BY <2>1, <2>2, Fun_IsSurj
<1>2. IsFiniteSet(Blocks)
  BY <1>1, FS_Surjection
<1>3. \A B \in Blocks : IsFiniteSet(B)
  <2> SUFFICES ASSUME NEW x \in S PROVE IsFiniteSet({x} \X (1 .. f[x]))
    OBVIOUS
  <2> QED
    BY Block
<1>4. IsFiniteSet(UNION Blocks)
  BY <1>2, <1>3, FS_UNION
<1>5. Units(f) = UNION Blocks
  BY DEF Units
<1> QED
  BY <1>4, <1>5, FS_CardinalityType DEF Total

(* A sum of zeros is zero, and no other sum is.                            *)
LEMMA TotalZero ==
    ASSUME NEW S, IsFiniteSet(S), NEW f \in [S -> Nat]
    PROVE  Total(f) = 0 <=> \A x \in S : f[x] = 0
<1>1. Total(f) = 0 <=> Units(f) = {}
  BY TotalNat, FS_EmptySet DEF Total
<1>2. Units(f) = {} <=> \A x \in S : f[x] = 0
  <2>1. ASSUME NEW x \in S, f[x] # 0 PROVE Units(f) # {}
    <3>1. 1 \in 1 .. f[x]
      BY <2>1
    <3>2. <<x, 1>> \in Units(f)
      BY <3>1, UnitsMember
    <3> QED
      BY <3>2
  <2>2. ASSUME \A x \in S : f[x] = 0, NEW z \in Units(f) PROVE FALSE
    BY <2>2, UnitsMember
  <2> QED
    BY <2>1, <2>2
<1> QED
  BY <1>1, <1>2

(* No term of a sum exceeds it.                                            *)
LEMMA TermBelowTotal ==
    ASSUME NEW S, IsFiniteSet(S), NEW f \in [S -> Nat], NEW x \in S
    PROVE  f[x] <= Total(f)
<1>1. {x} \X (1 .. f[x]) \in SUBSET Units(f)
  BY DEF Units
<1>2. Cardinality({x} \X (1 .. f[x])) = f[x]
  BY Block
<1>3. Cardinality({x} \X (1 .. f[x])) <= Cardinality(Units(f))
  BY <1>1, TotalNat, FS_Subset
<1> QED
  BY <1>2, <1>3 DEF Total

(* Terms outside the domain of a sum count as zero.                        *)
LEMMA TotalExtend ==
    ASSUME NEW U, NEW S, S \subseteq U, NEW f \in [S -> Nat], NEW g \in [U -> Nat],
           \A x \in U : g[x] = IF x \in S THEN f[x] ELSE 0
    PROVE  Total(g) = Total(f)
<1>1. ASSUME NEW z PROVE z \in Units(f) <=> z \in Units(g)
  <2>1. ASSUME NEW x \in S, NEW k \in 1 .. f[x], z = <<x, k>> PROVE z \in Units(g)
    <3>1. x \in DOMAIN g /\ k \in 1 .. g[x]
      OBVIOUS
    <3> QED
      BY <2>1, <3>1, UnitsMember
  <2>2. ASSUME NEW x \in U, NEW k \in 1 .. g[x], z = <<x, k>> PROVE z \in Units(f)
    <3>1. x \in S /\ k \in 1 .. f[x]
      OBVIOUS
    <3> QED
      BY <2>2, <3>1, UnitsMember
  <2>3. DOMAIN f = S /\ DOMAIN g = U
    OBVIOUS
  <2> QED
    BY <2>1, <2>2, <2>3, UnitsMember
<1>2. Units(f) = Units(g)
  BY <1>1
<1> QED
  BY <1>2 DEF Total

(* The sum of term by term sums is the sum of the sums.                    *)
LEMMA TotalPlus ==
    ASSUME NEW S, IsFiniteSet(S), NEW f \in [S -> Nat], NEW g \in [S -> Nat],
           NEW h \in [S -> Nat], \A x \in S : h[x] = f[x] + g[x]
    PROVE  Total(h) = Total(f) + Total(g)
<1> DEFINE R == {z \in Units(h) : z[2] > f[z[1]]}
           shift == [z \in Units(g) |-> <<z[1], z[2] + f[z[1]]>>]
<1>1. /\ IsFiniteSet(Units(f)) /\ IsFiniteSet(Units(g)) /\ IsFiniteSet(Units(h))
      /\ Total(f) \in Nat /\ Total(g) \in Nat /\ Total(h) \in Nat
  BY TotalNat
<1>2. IsFiniteSet(R)
  BY <1>1, FS_Subset
<1>3. Units(h) = Units(f) \cup R
  <2>1. ASSUME NEW z \in Units(h) PROVE z \in Units(f) \/ z \in R
    <3>1a. PICK x \in S : \E k \in 1 .. h[x] : z = <<x, k>>
      BY UnitsMember
    <3>1. PICK k \in 1 .. h[x] : z = <<x, k>>
      BY <3>1a
    <3>2. CASE k <= f[x]
      BY <3>1, <3>2, UnitsMember
    <3>3. CASE k > f[x]
      BY <3>1, <3>3
    <3> QED
      BY <3>2, <3>3
  <2>2. ASSUME NEW z \in Units(f) PROVE z \in Units(h)
    <3>1a. PICK x \in S : \E k \in 1 .. f[x] : z = <<x, k>>
      BY UnitsMember
    <3>1. PICK k \in 1 .. f[x] : z = <<x, k>>
      BY <3>1a
    <3>2. k \in 1 .. h[x]
      OBVIOUS
    <3> QED
      BY <3>1, <3>2, UnitsMember
  <2> QED
    BY <2>1, <2>2
<1>4. Units(f) \cap R = {}
  <2> SUFFICES ASSUME NEW z \in Units(f), z \in R PROVE FALSE
    OBVIOUS
  <2>1a. PICK x \in S : \E k \in 1 .. f[x] : z = <<x, k>>
    BY UnitsMember
  <2>1. PICK k \in 1 .. f[x] : z = <<x, k>>
    BY <2>1a
  <2> QED
    BY <2>1
<1>5. Cardinality(Units(h)) = Cardinality(Units(f)) + Cardinality(R)
  <2>1. Cardinality(Units(f) \cup R)
          = Cardinality(Units(f)) + Cardinality(R) - Cardinality(Units(f) \cap R)
    BY <1>1, <1>2, FS_Union
  <2>2. Cardinality(Units(f) \cap R) = 0
    BY <1>4, FS_EmptySet
  <2>3. Cardinality(Units(f)) \in Nat /\ Cardinality(R) \in Nat
    BY <1>1, <1>2, FS_CardinalityType
  <2> HIDE DEF R
  <2> QED
    BY <1>3, <2>1, <2>2, <2>3
<1>6. shift \in Bijection(Units(g), R)
  <2>1. ASSUME NEW z \in Units(g) PROVE shift[z] \in R
    <3>1a. PICK x \in S : \E k \in 1 .. g[x] : z = <<x, k>>
      BY UnitsMember
    <3>1. PICK k \in 1 .. g[x] : z = <<x, k>>
      BY <3>1a
    <3>2. shift[z] = <<x, k + f[x]>>
      BY <3>1
    <3>3. k + f[x] \in 1 .. h[x] /\ k + f[x] > f[x]
      OBVIOUS
    <3>4. <<x, k + f[x]>> \in Units(h)
      BY <3>3, UnitsMember
    <3> QED
      BY <3>2, <3>3, <3>4
  <2>2. ASSUME NEW y \in Units(g), NEW z \in Units(g), shift[y] = shift[z] PROVE y = z
    <3>1a. PICK x \in S : \E k \in 1 .. g[x] : y = <<x, k>>
      BY UnitsMember
    <3>1. PICK k \in 1 .. g[x] : y = <<x, k>>
      BY <3>1a
    <3>2a. PICK w \in S : \E m \in 1 .. g[w] : z = <<w, m>>
      BY UnitsMember
    <3>2. PICK m \in 1 .. g[w] : z = <<w, m>>
      BY <3>2a
    <3>3. shift[y] = <<x, k + f[x]>> /\ shift[z] = <<w, m + f[w]>>
      BY <3>1, <3>2
    <3> QED
      BY <2>2, <3>1, <3>2, <3>3
  <2>3. ASSUME NEW r \in R PROVE \E z \in Units(g) : shift[z] = r
    <3>1a. PICK x \in S : \E k \in 1 .. h[x] : r = <<x, k>>
      BY UnitsMember
    <3>1. PICK k \in 1 .. h[x] : r = <<x, k>>
      BY <3>1a
    <3>2. k > f[x]
      BY <3>1
    <3>3. k - f[x] \in 1 .. g[x]
      BY <3>2
    <3>4. <<x, k - f[x]>> \in Units(g)
      BY <3>3, UnitsMember
    <3>5. shift[<<x, k - f[x]>>] = <<x, (k - f[x]) + f[x]>>
      BY <3>4
    <3> QED
      BY <3>1, <3>4, <3>5
  <2>4. shift \in [Units(g) -> R]
    BY <2>1
  <2> HIDE DEF shift, R
  <2> QED
    BY <2>2, <2>3, <2>4, Fun_IsBij
<1>7. Cardinality(R) = Cardinality(Units(g))
  BY <1>1, <1>6, FS_Bijection, Fun_ExistsBij
<1> QED
  BY <1>5, <1>7 DEF Total

(* A sum in which the terms of S change from f to g changes by what the    *)
(* changes of its terms, from a to b, add up to.                           *)
LEMMA TotalChange ==
    ASSUME NEW U, IsFiniteSet(U), NEW S, S \subseteq U,
           NEW f \in [U -> Nat], NEW g \in [U -> Nat],
           NEW a \in [S -> Nat], NEW b \in [S -> Nat],
           \A x \in U : g[x] = IF x \in S THEN f[x] - a[x] + b[x] ELSE f[x]
    PROVE  Total(g) = Total(f) + (Total(b) - Total(a))
<1> DEFINE a0 == [x \in U |-> IF x \in S THEN a[x] ELSE 0]
           b0 == [x \in U |-> IF x \in S THEN b[x] ELSE 0]
           h == [x \in U |-> f[x] + b0[x]]
<1>1. a0 \in [U -> Nat] /\ b0 \in [U -> Nat]
  OBVIOUS
<1>2. h \in [U -> Nat]
  BY <1>1
<1>3. \A x \in U : h[x] = f[x] + b0[x]
  OBVIOUS
<1>4. \A x \in U : h[x] = g[x] + a0[x]
  OBVIOUS
<1>5. Total(a0) = Total(a) /\ Total(b0) = Total(b)
  <2>1. /\ \A x \in U : a0[x] = IF x \in S THEN a[x] ELSE 0
        /\ \A x \in U : b0[x] = IF x \in S THEN b[x] ELSE 0
    OBVIOUS
  <2> HIDE DEF a0, b0
  <2> QED
    BY <1>1, <2>1, TotalExtend
<1> HIDE DEF a0, b0, h
<1>6. Total(h) = Total(f) + Total(b0)
  BY <1>1, <1>2, <1>3, TotalPlus
<1>7. Total(h) = Total(g) + Total(a0)
  BY <1>1, <1>2, <1>4, TotalPlus
<1>8. /\ Total(f) \in Nat /\ Total(g) \in Nat /\ Total(a0) \in Nat /\ Total(b0) \in Nat
  BY <1>1, TotalNat
<1> QED
  BY <1>5, <1>6, <1>7, <1>8

(* A sum over two sets that share nothing is the sum over each.            *)
LEMMA TotalSplit ==
    ASSUME NEW S, IsFiniteSet(S), NEW R, IsFiniteSet(R),
           NEW U, U = S \cup R, \A x \in S : x \notin R,
           NEW f \in [S -> Nat], NEW h \in [R -> Nat], NEW g \in [U -> Nat],
           \A x \in S : g[x] = f[x], \A x \in R : g[x] = h[x]
    PROVE  Total(g) = Total(f) + Total(h)
<1> DEFINE f0 == [x \in U |-> IF x \in S THEN f[x] ELSE 0]
           h0 == [x \in U |-> IF x \in R THEN h[x] ELSE 0]
<1>1. IsFiniteSet(U)
  BY FS_Union
<1>2. f0 \in [U -> Nat] /\ h0 \in [U -> Nat] /\ \A x \in U : g[x] = f0[x] + h0[x]
  OBVIOUS
<1>3. Total(f0) = Total(f)
  <2>1. S \subseteq U /\ \A x \in U : f0[x] = IF x \in S THEN f[x] ELSE 0
    OBVIOUS
  <2> HIDE DEF f0
  <2> QED
    BY <1>2, <2>1, TotalExtend
<1>4. Total(h0) = Total(h)
  <2>1. R \subseteq U /\ \A x \in U : h0[x] = IF x \in R THEN h[x] ELSE 0
    OBVIOUS
  <2> HIDE DEF h0
  <2> QED
    BY <1>2, <2>1, TotalExtend
<1> HIDE DEF f0, h0
<1> QED
  BY <1>1, <1>2, <1>3, <1>4, TotalPlus

(* A sum whose domain is one element is its term.                          *)
LEMMA TotalSingle ==
    ASSUME NEW x, NEW f, DOMAIN f = {x}, f[x] \in Nat
    PROVE  Total(f) = f[x]
<1>1. Units(f) = {x} \X (1 .. f[x])
  BY DEF Units
<1> QED
  BY <1>1, Block DEF Total

(* One term more is added.                                                 *)
LEMMA TotalMore ==
    ASSUME NEW S, IsFiniteSet(S), NEW x, x \notin S, NEW U, U = S \cup {x},
           NEW f \in [S -> Nat], NEW g \in [U -> Nat], \A y \in S : g[y] = f[y]
    PROVE  Total(g) = Total(f) + g[x]
<1> DEFINE R == {x}
           h == [y \in R |-> g[y]]
<1>1. IsFiniteSet(R) /\ U = S \cup R /\ \A y \in S : y \notin R
  BY FS_Singleton
<1>2. g[x] \in Nat /\ h \in [R -> Nat] /\ DOMAIN h = {x} /\ h[x] = g[x]
  OBVIOUS
<1>3. \A y \in R : g[y] = h[y]
  OBVIOUS
<1> HIDE DEF h
<1>4. Total(h) = g[x]
  BY <1>2, TotalSingle
<1> HIDE DEF R
<1>5. Total(g) = Total(f) + Total(h)
  BY <1>1, <1>2, <1>3, TotalSplit
<1> QED
  BY <1>4, <1>5

(* Larger terms make a larger sum.                                         *)
LEMMA TotalMonotone ==
    ASSUME NEW S, IsFiniteSet(S), NEW f \in [S -> Nat], NEW g \in [S -> Nat],
           \A x \in S : f[x] <= g[x]
    PROVE  Total(f) <= Total(g)
<1> DEFINE d == [x \in S |-> g[x] - f[x]]
<1>1. d \in [S -> Nat] /\ \A x \in S : g[x] = f[x] + d[x]
  OBVIOUS
<1> HIDE DEF d
<1>2. Total(g) = Total(f) + Total(d)
  BY <1>1, TotalPlus
<1>3. Total(f) \in Nat /\ Total(d) \in Nat
  BY <1>1, TotalNat
<1> QED
  BY <1>2, <1>3

(* Of the natural numbers in a set one is the smallest.                    *)
LEMMA Smallest ==
    ASSUME NEW T, T \subseteq Nat, T # {}
    PROVE  \E m \in T : \A k \in T : m <= k
<1>1. PICK m \in T : \A k \in T : ~(<<k, m>> \in OpToRel(<, Nat))
  BY NatLessThanWellFounded, WFMin
<1>2. ASSUME NEW k \in T PROVE m <= k
  <2>1. k \in Nat /\ m \in Nat
    OBVIOUS
  <2>2. ~(k < m)
    BY <1>1, <2>1 DEF OpToRel
  <2> QED
    BY <2>1, <2>2
<1> QED
  BY <1>2

(* A bounded set of naturals that is not empty has a greatest element.     *)
LEMMA Greatest ==
    ASSUME NEW T, T \subseteq Nat, T # {}, NEW n \in Nat, \A k \in T : k <= n
    PROVE  \E m \in T : \A k \in T : k <= m
<1> DEFINE D == {d \in 0 .. n : n - d \in T}
<1>1. D \subseteq Nat
  OBVIOUS
<1>2. ASSUME NEW k \in T PROVE n - k \in D
  <2>1. k \in Nat /\ k <= n
    OBVIOUS
  <2>2. n - k \in 0 .. n /\ n - (n - k) = k
    BY <2>1
  <2> QED
    BY <2>2
<1>3. PICK d \in D : \A e \in D : d <= e
  <2>1. D # {}
    BY <1>2
  <2> HIDE DEF D
  <2> QED
    BY <1>1, <2>1, Smallest
<1>4. n - d \in T /\ d \in Nat
  BY <1>3
<1>5. ASSUME NEW k \in T PROVE k <= n - d
  <2>1. k \in Nat /\ d <= n - k
    BY <1>2, <1>3
  <2> QED
    BY <1>4, <2>1
<1> QED
  BY <1>4, <1>5

(* A sum of multiples is the multiple of the sum.  The smallest factor for *)
(* which that failed would not be 0, and would not follow any other.       *)
LEMMA TotalTimes ==
    ASSUME NEW S, IsFiniteSet(S), NEW f \in [S -> Nat], NEW n \in Nat
    PROVE  Total([x \in S |-> n * f[x]]) = n * Total(f)
<1> DEFINE times(k) == [x \in S |-> k * f[x]]
           Bad == {k \in Nat : Total(times(k)) # k * Total(f)}
<1>1. Total(f) \in Nat
  BY TotalNat
<1>2. ASSUME NEW k \in Nat PROVE times(k) \in [S -> Nat]
  <2>1. \A x \in S : k * f[x] \in Nat
    OBVIOUS
  <2> QED
    BY <2>1
<1>3. 0 \notin Bad
  <2>1. \A x \in S : times(0)[x] = 0
    OBVIOUS
  <2>2. Total(times(0)) = 0
    BY <1>2, <2>1, TotalZero
  <2>3. 0 * Total(f) = 0
    BY <1>1
  <2> QED
    BY <2>2, <2>3
<1>4. ASSUME NEW k \in Nat, k \notin Bad PROVE k + 1 \notin Bad
  <2>1. Total(times(k)) = k * Total(f)
    BY <1>4
  <2>2. \A x \in S : times(k + 1)[x] = times(k)[x] + f[x]
    <3> SUFFICES ASSUME NEW x \in S PROVE (k + 1) * f[x] = k * f[x] + f[x]
      OBVIOUS
    <3> QED
      BY f[x] \in Nat
  <2>3. times(k) \in [S -> Nat] /\ times(k + 1) \in [S -> Nat]
    BY <1>2
  <2>4. Total(times(k + 1)) = Total(times(k)) + Total(f)
    <3> HIDE DEF times
    <3> QED
      BY <2>2, <2>3, TotalPlus
  <2>5. (k + 1) * Total(f) = k * Total(f) + Total(f)
    BY <1>1
  <2> QED
    BY <2>1, <2>4, <2>5
<1>5. Bad = {}
  <2> SUFFICES ASSUME Bad # {} PROVE FALSE
    OBVIOUS
  <2> HIDE DEF Bad
  <2>1. Bad \subseteq Nat
    BY DEF Bad
  <2>2. PICK m \in Bad : \A k \in Bad : m <= k
    BY <2>1, Smallest
  <2>3. m \in Nat /\ m # 0
    BY <1>3, <2>1
  <2>4. m - 1 \in Nat /\ m - 1 \notin Bad
    BY <2>2, <2>3
  <2>5. (m - 1) + 1 \notin Bad
    BY <1>4, <2>4
  <2> QED
    BY <2>3, <2>5
<1> QED
  BY <1>5

(* Rounded down in proportion to the terms of a whole, the parts of an     *)
(* amount add up to no more than the amount.                               *)
LEMMA PartsBelowWhole ==
    ASSUME NEW S, IsFiniteSet(S), NEW f \in [S -> Nat], NEW part \in [S -> Nat],
           NEW amount \in Nat, Total(f) # 0,
           \A x \in S : part[x] * Total(f) <= f[x] * amount
    PROVE  Total(part) <= amount
<1> DEFINE whole == Total(f)
           p == [x \in S |-> whole * part[x]]
           q == [x \in S |-> amount * f[x]]
<1>1. whole \in Nat /\ whole > 0 /\ Total(part) \in Nat
  BY TotalNat
<1> HIDE DEF whole
<1>2. ASSUME NEW x \in S
      PROVE  whole * part[x] \in Nat /\ amount * f[x] \in Nat
             /\ whole * part[x] <= amount * f[x]
  <2>1. part[x] \in Nat /\ f[x] \in Nat /\ part[x] * whole <= f[x] * amount
    BY DEF whole
  <2> QED
    BY <1>1, <2>1
<1>3. p \in [S -> Nat] /\ q \in [S -> Nat] /\ \A x \in S : p[x] <= q[x]
  BY <1>2
<1>4. Total(p) = whole * Total(part) /\ Total(q) = amount * whole
  BY <1>1, TotalTimes DEF whole
<1>5. whole * Total(part) <= amount * whole
  <2> HIDE DEF p, q
  <2> QED
    BY <1>3, <1>4, TotalMonotone
<1>6. CASE Total(part) > amount
  <2>1. PICK d \in Nat : Total(part) = amount + 1 + d
    <3>1. Total(part) - amount - 1 \in Nat
          /\ Total(part) = amount + 1 + (Total(part) - amount - 1)
      BY <1>1, <1>6
    <3> QED
      BY <3>1
  <2>2. whole * Total(part) = amount * whole + whole + whole * d
        /\ whole * d \in Nat /\ amount * whole \in Nat
    BY <1>1, <2>1
  <2> QED
    BY <1>1, <1>5, <2>2
<1> QED
  BY <1>1, <1>6

(* A part of the terms adds up to no more than all of them.                *)
LEMMA TotalPart ==
    ASSUME NEW U, IsFiniteSet(U), NEW S, S \subseteq U, NEW f \in [U -> Nat]
    PROVE  Total([x \in S |-> f[x]]) <= Total(f)
<1>1. PICK part : part = [x \in S |-> f[x]]
  OBVIOUS
<1>2. PICK g : g = [x \in U |-> IF x \in S THEN part[x] ELSE 0]
  OBVIOUS
<1>3. part \in [S -> Nat] /\ g \in [U -> Nat] /\ \A x \in U : g[x] <= f[x]
  BY <1>1, <1>2
<1>4. Total(g) = Total(part)
  BY <1>2, <1>3, TotalExtend
<1>5. Total(g) <= Total(f)
  BY <1>3, TotalMonotone
<1> QED
  BY <1>1, <1>4, <1>5

(* The lengths of spans that lie apart between two numbers add up to no    *)
(* more than these are apart.                                              *)
LEMMA SpansBelow ==
    ASSUME NEW S, NEW f \in [S -> Nat], NEW at \in [S -> Nat], NEW a \in Nat, NEW b \in Nat,
           a <= b,
           \A x \in S : f[x] > 0 => a <= at[x] /\ at[x] + f[x] <= b,
           \A x, y \in S : x # y /\ f[x] > 0 /\ f[y] > 0 =>
              at[x] + f[x] <= at[y] \/ at[y] + f[y] <= at[x]
    PROVE  Total(f) <= b - a
<1> DEFINE T == a + 1 .. b
           place == [z \in Units(f) |-> at[z[1]] + z[2]]
<1>1. IsFiniteSet(T) /\ Cardinality(T) = b - a
  <2>1. a + 1 \in Int /\ b \in Int
    OBVIOUS
  <2>2. IsFiniteSet(T) /\ Cardinality(T) = IF a + 1 > b THEN 0 ELSE b - (a + 1) + 1
    BY <2>1, FS_Interval
  <2> HIDE DEF T
  <2> QED
    BY <2>2
<1>2. ASSUME NEW z \in Units(f)
      PROVE  /\ z[1] \in S /\ z[2] \in Nat /\ z[2] >= 1 /\ z[2] <= f[z[1]] /\ z = <<z[1], z[2]>>
             /\ f[z[1]] \in Nat /\ at[z[1]] \in Nat /\ f[z[1]] > 0
  <2>1. PICK x \in S : \E k \in 1 .. f[x] : z = <<x, k>>
    BY UnitsMember
  <2>2. PICK k \in 1 .. f[x] : z = <<x, k>>
    BY <2>1
  <2> QED
    BY <2>2
<1>3. place \in [Units(f) -> T]
  <2>1. ASSUME NEW z \in Units(f) PROVE at[z[1]] + z[2] \in T
    BY <1>2
  <2> QED
    BY <2>1
<1>4. ASSUME NEW y \in Units(f), NEW z \in Units(f), place[y] = place[z] PROVE y = z
  <2>1. at[y[1]] + y[2] = at[z[1]] + z[2]
    BY <1>4
  <2>2. y[1] = z[1]
    <3>1. CASE y[1] # z[1]
      <4>1. at[y[1]] + f[y[1]] <= at[z[1]] \/ at[z[1]] + f[z[1]] <= at[y[1]]
        BY <1>2, <3>1
      <4> QED
        BY <1>2, <2>1, <4>1
    <3> QED
      BY <3>1
  <2>3. y[2] = z[2]
    BY <1>2, <2>1, <2>2
  <2> QED
    BY <1>2, <2>2, <2>3
<1> HIDE DEF T, place
<1>5. place \in Injection(Units(f), T)
  BY <1>3, <1>4, Fun_IsInj
<1> QED
  BY <1>1, <1>5, FS_Injection DEF Total

=============================================================================
