-------------------------- MODULE EvaluationCalcProofs --------------------------
(***************************************************************************)
(* Theorems about the arithmetic of EvaluationCalc, for all numbers and    *)
(* all finite sets of items: fractions have the values they stand for,     *)
(* sums are sums in whatever order they are folded, and rounding loses at  *)
(* most half a hundredth.                                                  *)
(*                                                                         *)
(* Induction is over a set of numbers or of subsets: whatever is not in    *)
(* it has a least element, and that one is not missing after all.          *)
(***************************************************************************)
EXTENDS EvaluationCalc, FiniteSetTheorems, WellFoundedInduction, TLAPS

-------------------------------------------------------------------------------
(* Induction *)

LEMMA LeastNatural ==
    ASSUME NEW T \in SUBSET Nat, T # {}
    PROVE  \E x \in T : \A y \in T : x <= y
<1>1. \E x \in T : \A y \in T : ~(<<y, x>> \in OpToRel(<, Nat))
    BY NatLessThanWellFounded, WFMin
<1>2. \A x, y \in T : <<y, x>> \in OpToRel(<, Nat) <=> y < x
    BY DEF OpToRel
<1>3. \A x, y \in T : ~(y < x) => x <= y
    OBVIOUS
<1> QED
    BY <1>1, <1>2, <1>3

\* The element a fold takes out of a set first.
First(s) == CHOOSE x \in s : TRUE

\* What holds of the empty set and, with a set without its first element, of the
\* set, holds of every subset of a finite set.
LEMMA SubsetsByFirst ==
    ASSUME NEW D, IsFiniteSet(D), NEW Good, {} \in Good,
           \A s \in SUBSET D : s # {} /\ s \ {First(s)} \in Good => s \in Good
    PROVE  SUBSET D \subseteq Good
<1> DEFINE Bad == {n \in Nat : \E s \in SUBSET D : Cardinality(s) = n /\ s \notin Good}
<1>1. SUFFICES ASSUME NEW s \in SUBSET D, s \notin Good
               PROVE  FALSE
    OBVIOUS
<1>2. Cardinality(s) \in Bad
    BY <1>1, FS_Subset, FS_CardinalityType
<1>3. PICK n \in Bad : \A k \in Bad : n <= k
    <2> HIDE DEF Bad
    <2>1. Bad \in SUBSET Nat
        BY DEF Bad
    <2> QED
        BY <1>2, <2>1, LeastNatural
<1>4. PICK t \in SUBSET D : Cardinality(t) = n /\ t \notin Good
    OBVIOUS
<1>5. t # {} /\ First(t) \in t
    <2>1. t # {}
        BY <1>4
    <2> QED
        BY <2>1 DEF First
<1>6. /\ IsFiniteSet(t) /\ Cardinality(t \ {First(t)}) = Cardinality(t) - 1
      /\ Cardinality(t \ {First(t)}) \in Nat
    BY <1>5, FS_Subset, FS_RemoveElement, FS_CardinalityType
<1>7. t \ {First(t)} \notin Good
    BY <1>4, <1>5
<1>8. n - 1 \in Bad
    BY <1>4, <1>6, <1>7
<1> QED
    BY <1>3, <1>8

-------------------------------------------------------------------------------
(* Numbers *)

Divides(d, n) == \E k \in Nat : n = d * k

CommonDivisors(m, n) == {d \in Nat \ {0} : Divides(d, m) /\ Divides(d, n)}

Greatest(S) == CHOOSE d \in S : \A e \in S : e <= d

LEMMA Remainder ==
    ASSUME NEW m \in Nat, NEW n \in Nat \ {0}
    PROVE  /\ m % n \in Nat /\ m % n < n /\ m \div n \in Nat
           /\ m = n * (m \div n) + (m % n)
OBVIOUS

LEMMA SameDivisors ==
    ASSUME NEW m \in Nat, NEW n \in Nat \ {0}
    PROVE  CommonDivisors(n, m % n) = CommonDivisors(m, n)
<1> DEFINE q == m \div n
           r == m % n
<1>1. q \in Nat /\ r \in Nat /\ m = n * q + r
    BY Remainder
<1> HIDE DEF q, r
<1>2. ASSUME NEW d \in Nat \ {0}, NEW k \in Nat, n = d * k
      PROVE  Divides(d, m) <=> Divides(d, r)
    <2>1. ASSUME NEW j \in Nat, r = d * j
          PROVE  Divides(d, m)
        <3>1. m = d * (k * q + j) /\ k * q + j \in Nat
            BY <1>1, <1>2, <2>1
        <3> QED
            BY <3>1 DEF Divides
    <2>2. ASSUME NEW j \in Nat, m = d * j
          PROVE  Divides(d, r)
        <3>1. r = d * (j - k * q)
            BY <1>1, <1>2, <2>2
        <3>2. j - k * q \in Int
            BY <1>1
        <3>3. j - k * q >= 0
            BY <1>1, <3>1, <3>2
        <3> QED
            BY <3>1, <3>2, <3>3 DEF Divides
    <2> QED
        BY <2>1, <2>2 DEF Divides
<1>3. \A d \in Nat \ {0} : Divides(d, n) => (Divides(d, m) <=> Divides(d, r))
    BY <1>2 DEF Divides
<1> QED
    BY <1>3 DEF CommonDivisors, r

LEMMA DivisorsBound ==
    ASSUME NEW m \in Nat \ {0}
    PROVE  Greatest(CommonDivisors(m, 0)) = m
<1>1. m \in CommonDivisors(m, 0)
    <2>1. m = m * 1 /\ 0 = m * 0
        OBVIOUS
    <2> QED
        BY <2>1 DEF CommonDivisors, Divides
<1>2. ASSUME NEW d \in CommonDivisors(m, 0)
      PROVE  d \in Nat /\ d <= m
    <2>1. PICK k \in Nat : m = d * k
        BY <1>2 DEF CommonDivisors, Divides
    <2>2. d \in Nat \ {0}
        BY DEF CommonDivisors
    <2>3. k >= 1
        BY <2>1, <2>2
    <2>4. d * k >= d * 1
        BY <2>2, <2>3
    <2> QED
        BY <2>1, <2>2, <2>4
<1>3. \A d \in CommonDivisors(m, 0) :
        (\A e \in CommonDivisors(m, 0) : e <= d) => d = m
    BY <1>1, <1>2
<1> QED
    BY <1>1, <1>2, <1>3 DEF Greatest

Euclid == [p \in Nat \X Nat |->
    IF p[1] = 0 /\ p[2] = 0 THEN 0 ELSE Greatest(CommonDivisors(p[1], p[2]))]

LEMMA GcdRecursion ==
    \A m, n \in Nat : Gcd[<<m, n>>] = IF n = 0 THEN m ELSE Gcd[<<n, m % n>>]
<1>1. ASSUME NEW p \in Nat \X Nat
      PROVE  Euclid[p] = IF p[2] = 0 THEN p[1] ELSE Euclid[<<p[2], p[1] % p[2]>>]
    <2>1. PICK m \in Nat, n \in Nat : p = <<m, n>>
        OBVIOUS
    <2>2. CASE n = 0
        <3>1. m # 0 => Greatest(CommonDivisors(m, 0)) = m
            BY DivisorsBound
        <3> QED
            BY <2>1, <2>2, <3>1 DEF Euclid
    <2>3. CASE n # 0
        <3>1. m % n \in Nat /\ CommonDivisors(n, m % n) = CommonDivisors(m, n)
            BY <2>3, Remainder, SameDivisors
        <3>2. Euclid[p] = Greatest(CommonDivisors(m, n))
            BY <2>1, <2>3 DEF Euclid
        <3>3. Euclid[<<n, m % n>>] = Greatest(CommonDivisors(n, m % n))
            <4> DEFINE r == m % n
            <4> HIDE DEF r
            <4>1. Euclid[<<n, r>>] = Greatest(CommonDivisors(n, r))
                BY <2>3, <3>1 DEF Euclid, r
            <4> QED
                BY <4>1 DEF r
        <3> QED
            BY <2>1, <2>3, <3>1, <3>2, <3>3
    <2> QED
        BY <2>2, <2>3
<1>2. Euclid = [p \in Nat \X Nat |->
        IF p[2] = 0 THEN p[1] ELSE Euclid[<<p[2], p[1] % p[2]>>]]
    <2>1. Euclid = [p \in Nat \X Nat |-> Euclid[p]]
        BY DEF Euclid
    <2> HIDE DEF Euclid
    <2> QED
        BY <1>1, <2>1
<1>3. Gcd = [p \in Nat \X Nat |-> IF p[2] = 0 THEN p[1] ELSE Gcd[<<p[2], p[1] % p[2]>>]]
    <2> HIDE DEF Euclid
    <2> QED
        BY <1>2 DEF Gcd
<1> QED
    <2> HIDE DEF Gcd
    <2> QED
        BY <1>3

LEMMA GcdOfZero ==
    ASSUME NEW m \in Nat
    PROVE  Gcd[<<m, 0>>] = m
<1> HIDE DEF Gcd
<1>1. Gcd[<<m, 0>>] = IF 0 = 0 THEN m ELSE Gcd[<<0, m % 0>>]
    BY GcdRecursion
<1> QED
    BY <1>1

LEMMA GcdStep ==
    ASSUME NEW m \in Nat, NEW n \in Nat \ {0}
    PROVE  Gcd[<<m, n>>] = Gcd[<<n, m % n>>]
BY GcdRecursion

LEMMA GcdDivides ==
    ASSUME NEW m \in Nat, NEW n \in Nat
    PROVE  /\ Gcd[<<m, n>>] \in Nat
           /\ Divides(Gcd[<<m, n>>], m) /\ Divides(Gcd[<<m, n>>], n)
<1> DEFINE Good(j, k) == /\ Gcd[<<j, k>>] \in Nat
                         /\ Divides(Gcd[<<j, k>>], j) /\ Divides(Gcd[<<j, k>>], k)
           Bad == {k \in Nat : \E j \in Nat : ~Good(j, k)}
<1>1. SUFFICES ASSUME Bad # {}
               PROVE  FALSE
    OBVIOUS
<1>2. PICK k \in Bad : \A i \in Bad : k <= i
    <2>1. Bad \in SUBSET Nat
        OBVIOUS
    <2> HIDE DEF Bad
    <2> QED
        BY <1>1, <2>1, LeastNatural
<1>3. PICK j \in Nat : ~Good(j, k)
    OBVIOUS
<1>4. CASE k = 0
    <2>1. Gcd[<<j, 0>>] = j
        BY GcdRecursion
    <2>2. j = j * 1 /\ 0 = j * 0
        OBVIOUS
    <2> QED
        BY <1>3, <1>4, <2>1, <2>2 DEF Divides
<1>5. CASE k # 0
    <2> DEFINE r == j % k
               q == j \div k
               g == Gcd[<<k, r>>]
    <2>1. r \in Nat /\ r < k /\ q \in Nat /\ j = k * q + r
        BY <1>5, Remainder
    <2>2. Gcd[<<j, k>>] = g
        BY <1>5, GcdRecursion
    <2>3. Good(k, r)
        <3> HIDE DEF r, Good
        <3>1. r \notin Bad
            BY <1>2, <2>1
        <3> QED
            BY <2>1, <3>1
    <2>4. g \in Nat /\ Divides(g, k) /\ Divides(g, r)
        BY <2>3
    <2> HIDE DEF r, q, g
    <2>5. PICK a \in Nat, b \in Nat : k = g * a /\ r = g * b
        BY <2>4 DEF Divides
    <2>6. j = g * (a * q + b) /\ a * q + b \in Nat
        BY <2>1, <2>4, <2>5
    <2>7. Divides(g, j)
        BY <2>6 DEF Divides
    <2> QED
        BY <1>3, <2>2, <2>4, <2>7
<1> QED
    BY <1>4, <1>5

LEMMA ExactDivision ==
    ASSUME NEW d \in Nat \ {0}, NEW k \in Nat
    PROVE  (d * k) \div d = k
<1> DEFINE q == (d * k) \div d
<1>1. q \in Int /\ d * q <= d * k /\ d * k < d * (q + 1)
    OBVIOUS
<1> HIDE DEF q
<1>2. q <= k
    BY <1>1
<1>3. k < q + 1
    BY <1>1
<1> QED
    BY <1>1, <1>2, <1>3 DEF q

LEMMA Cancel ==
    ASSUME NEW a \in Int, NEW b \in Int, NEW c \in Nat \ {0}
    PROVE  /\ a * c <= b * c => a <= b
           /\ a * c < b * c => a < b
           /\ a * c = b * c => a = b
OBVIOUS

LEMMA Scale ==
    ASSUME NEW a \in Int, NEW b \in Int, NEW c \in Nat
    PROVE  /\ a <= b => a * c <= b * c
           /\ a < b /\ c # 0 => a * c < b * c
OBVIOUS

-------------------------------------------------------------------------------
(* Fractions *)

Fractions == [num : Nat, den : Nat \ {0}]

\* Fractions of one value, and one of at most the value of another.
Same(p, q) == p.num * q.den = q.num * p.den
AtMost(p, q) == p.num * q.den <= q.num * p.den

\* A fraction in lowest terms has the value of the quotient it is made of.
THEOREM FractionValue ==
    ASSUME NEW m \in Nat, NEW n \in Nat \ {0}
    PROVE  /\ Fraction(m, n) \in Fractions
           /\ Fraction(m, n).num * n = m * Fraction(m, n).den
<1> DEFINE g == Gcd[<<m, n>>]
<1>1. g \in Nat /\ Divides(g, m) /\ Divides(g, n)
    BY GcdDivides
<1>2. Fraction(m, n) = [num |-> m \div g, den |-> n \div g]
    BY DEF Fraction
<1> HIDE DEF g
<1>3. PICK a \in Nat, b \in Nat : m = g * a /\ n = g * b
    BY <1>1 DEF Divides
<1>4. g # 0 /\ b # 0
    BY <1>1, <1>3
<1>5. m \div g = a /\ n \div g = b
    BY <1>1, <1>3, <1>4, ExactDivision
<1>6. a * (g * b) = (g * a) * b
    BY <1>1
<1> QED
    BY <1>2, <1>3, <1>4, <1>5, <1>6 DEF Fractions

LEMMA ZeroValue == Zero \in Fractions /\ Zero.num = 0 /\ Zero = [num |-> 0, den |-> 1]
<1>1. Zero \in Fractions /\ Zero.num * 1 = 0 * Zero.den
    BY FractionValue DEF Zero
<1>2. Gcd[<<0, 1>>] = 1
    <2>1. 0 % 1 = 0
        OBVIOUS
    <2>2. \A m, n \in Nat : Gcd[<<m, n>>] = IF n = 0 THEN m ELSE Gcd[<<n, m % n>>]
        BY GcdRecursion
    <2>3. Gcd[<<0, 1>>] = Gcd[<<1, 0 % 1>>]
        BY <2>2
    <2>4. Gcd[<<1, 0>>] = 1
        BY <2>2
    <2> QED
        BY <2>1, <2>3, <2>4
<1>3. Zero = [num |-> 0 \div 1, den |-> 1 \div 1]
    BY <1>2 DEF Zero, Fraction
<1> QED
    BY <1>1, <1>3

LEMMA PlusValue ==
    ASSUME NEW p \in Fractions, NEW q \in Fractions
    PROVE  /\ Plus(p, q) \in Fractions
           /\ Plus(p, q).num * (p.den * q.den)
                = (p.num * q.den + q.num * p.den) * Plus(p, q).den
<1> DEFINE g == Gcd[<<p.den, q.den>>]
           l == p.den * (q.den \div g)
<1>1. /\ p.num \in Nat /\ p.den \in Nat /\ p.den # 0
      /\ q.num \in Nat /\ q.den \in Nat /\ q.den # 0
    BY DEF Fractions
<1>2. g \in Nat /\ Divides(g, p.den) /\ Divides(g, q.den)
    BY <1>1, GcdDivides
<1>3. Plus(p, q) = Fraction(p.num * (l \div p.den) + q.num * (l \div q.den), l)
    BY DEF Plus
<1> HIDE DEF g
<1>4. PICK a \in Nat, b \in Nat : p.den = g * a /\ q.den = g * b
    BY <1>2 DEF Divides
<1>5. g # 0 /\ a # 0 /\ b # 0
    BY <1>1, <1>2, <1>4
<1>6. q.den \div g = b
    BY <1>2, <1>4, <1>5, ExactDivision
<1>7. l = p.den * b /\ l = q.den * a
    <2>1. (g * a) * b = (g * b) * a
        BY <1>2
    <2> QED
        BY <1>4, <1>6, <2>1
<1> HIDE DEF l
<1>8. l \div p.den = b /\ l \div q.den = a
    BY <1>1, <1>7, ExactDivision
<1>9. l \in Nat /\ l # 0
    BY <1>1, <1>5, <1>7
<1> DEFINE s == p.num * b + q.num * a
           r == Fraction(s, l)
<1>10. s \in Nat /\ r \in Fractions /\ r.num * l = s * r.den
    <2>1. s \in Nat
        BY <1>1
    <2> HIDE DEF s
    <2> QED
        BY <1>9, <2>1, FractionValue
<1>11. Plus(p, q) = r
    BY <1>3, <1>8
<1> HIDE DEF r, s
<1>12. r.num \in Nat /\ r.den \in Nat
    BY <1>10 DEF Fractions
<1>13. p.den * q.den = l * g
    BY <1>1, <1>2, <1>4, <1>7
<1>14. p.num * q.den + q.num * p.den = s * g
    BY <1>1, <1>2, <1>4 DEF s
<1>15. r.num * (l * g) = (s * g) * r.den
    <2>1. r.num * (l * g) = (r.num * l) * g
        BY <1>2, <1>9, <1>12
    <2>2. (s * g) * r.den = (s * r.den) * g
        BY <1>2, <1>10, <1>12
    <2> QED
        BY <1>10, <2>1, <2>2
<1> QED
    BY <1>10, <1>11, <1>13, <1>14, <1>15

LEMMA TimesValue ==
    ASSUME NEW p \in Fractions, NEW q \in Fractions
    PROVE  /\ Times(p, q) \in Fractions
           /\ Times(p, q).num * (p.den * q.den) = p.num * q.num * Times(p, q).den
<1> DEFINE a == Fraction(p.num, q.den)
           b == Fraction(q.num, p.den)
<1>1. /\ p.num \in Nat /\ p.den \in Nat /\ p.den # 0
      /\ q.num \in Nat /\ q.den \in Nat /\ q.den # 0
    BY DEF Fractions
<1>2. /\ a \in Fractions /\ a.num * q.den = p.num * a.den
      /\ b \in Fractions /\ b.num * p.den = q.num * b.den
    BY <1>1, FractionValue
<1>3. Times(p, q) = [num |-> a.num * b.num, den |-> a.den * b.den]
    BY DEF Times
<1> HIDE DEF a, b
<1>4. /\ a.num \in Nat /\ a.den \in Nat /\ a.den # 0
      /\ b.num \in Nat /\ b.den \in Nat /\ b.den # 0
    BY <1>2 DEF Fractions
<1>5. a.num * b.num \in Nat /\ a.den * b.den \in Nat /\ a.den * b.den # 0
    BY <1>4
<1>6. (a.num * b.num) * (p.den * q.den) = p.num * q.num * (a.den * b.den)
    <2>1. (a.num * b.num) * (p.den * q.den) = (a.num * q.den) * (b.num * p.den)
        BY <1>1, <1>4
    <2>2. p.num * q.num * (a.den * b.den) = (p.num * a.den) * (q.num * b.den)
        BY <1>1, <1>4
    <2> QED
        BY <1>2, <2>1, <2>2
<1> QED
    BY <1>3, <1>5, <1>6 DEF Fractions

-------------------------------------------------------------------------------
(* Folds *)

\* it folds f, from base by add, over every subset of D.
IsFold(it, D, base, f, add) ==
    \A s \in SUBSET D :
        it[s] = IF s = {} THEN base ELSE add[<<f[First(s)], it[s \ {First(s)}]>>]

\* A fold over the subsets of a finite set exists: over those of at most n
\* elements for every n.
LEMMA FoldExists ==
    ASSUME NEW D, IsFiniteSet(D), NEW V, NEW base \in V, NEW f \in [D -> V],
           NEW add \in [V \X V -> V]
    PROVE  \E it \in [SUBSET D -> V] : IsFold(it, D, base, f, add)
<1> DEFINE Upto(n) == {s \in SUBSET D : Cardinality(s) <= n}
           Folds(it, n) ==
            \A s \in Upto(n) :
                it[s] = IF s = {} THEN base ELSE add[<<f[First(s)], it[s \ {First(s)}]>>]
           Bad == {n \in Nat : ~\E it \in [SUBSET D -> V] : Folds(it, n)}
<1>1. ASSUME NEW s \in SUBSET D, s # {}
      PROVE  /\ First(s) \in D /\ s \ {First(s)} \in SUBSET D
             /\ Cardinality(s) \in Nat /\ Cardinality(s) # 0
             /\ Cardinality(s \ {First(s)}) = Cardinality(s) - 1
    <2>1. First(s) \in s
        BY <1>1 DEF First
    <2> QED
        BY <1>1, <2>1, FS_Subset, FS_CardinalityType, FS_RemoveElement, FS_EmptySet
<1>2. Bad = {}
    <2>1. SUFFICES ASSUME Bad # {}
                   PROVE  FALSE
        OBVIOUS
    <2>2. PICK k \in Bad : \A i \in Bad : k <= i
        <3>1. Bad \in SUBSET Nat
            OBVIOUS
        <3> HIDE DEF Bad
        <3> QED
            BY <2>1, <3>1, LeastNatural
    <2>3. k \in Nat /\ ~\E it \in [SUBSET D -> V] : Folds(it, k)
        OBVIOUS
    <2>4. CASE k = 0
        <3> DEFINE it == [s \in SUBSET D |-> base]
        <3>1. ASSUME NEW s \in SUBSET D, Cardinality(s) <= 0
              PROVE  s = {}
            <4>1. s # {} => Cardinality(s) \in Nat /\ Cardinality(s) # 0
                BY <1>1, Zenon
            <4> HIDE DEF Bad
            <4> QED
                BY <3>1, <4>1
        <3>2. it \in [SUBSET D -> V] /\ Folds(it, 0)
            BY <3>1
        <3> QED
            BY <2>3, <2>4, <3>2
    <2>5. CASE k # 0
        <3>1. k - 1 \in Nat /\ k - 1 \notin Bad
            <4> HIDE DEF Bad
            <4> QED
                BY <2>2, <2>3, <2>5
        <3>2. PICK old \in [SUBSET D -> V] : Folds(old, k - 1)
            BY <3>1
        <3> DEFINE it == [s \in SUBSET D |->
                            IF s = {} THEN base ELSE add[<<f[First(s)], old[s \ {First(s)}]>>]]
        <3>3. it \in [SUBSET D -> V]
            BY <1>1
        <3>4. ASSUME NEW s \in Upto(k - 1)
              PROVE  it[s] = old[s]
            BY <3>2
        <3>5. ASSUME NEW s \in Upto(k), s # {}
              PROVE  it[s] = add[<<f[First(s)], it[s \ {First(s)}]>>]
            <4>1. s \ {First(s)} \in Upto(k - 1)
                BY <1>1, <2>3, <3>5
            <4>2. it[s \ {First(s)}] = old[s \ {First(s)}]
                BY <3>4, <4>1
            <4> QED
                BY <3>5, <4>2
        <3>6. Folds(it, k)
            BY <3>5
        <3> QED
            BY <2>3, <3>3, <3>6
    <2> QED
        BY <2>3, <2>4, <2>5
<1>3. Cardinality(D) \in Nat /\ \A s \in SUBSET D : Cardinality(s) <= Cardinality(D)
    BY FS_CardinalityType, FS_Subset
<1>4. PICK it \in [SUBSET D -> V] : Folds(it, Cardinality(D))
    BY <1>2, <1>3
<1> QED
    BY <1>3, <1>4 DEF IsFold

\* The sums on the way of SumOf.
SumFrom(f) ==
    CHOOSE it : it = [s \in SUBSET DOMAIN f |->
        IF s = {} THEN Zero ELSE Plus(f[First(s)], it[s \ {First(s)}])]

LEMMA SumSteps ==
    ASSUME NEW D, IsFiniteSet(D), NEW f \in [D -> Fractions]
    PROVE  /\ SumOf(f) = SumFrom(f)[D]
           /\ SumFrom(f)[{}] = Zero
           /\ \A s \in SUBSET D : s # {} =>
                SumFrom(f)[s] = Plus(f[First(s)], SumFrom(f)[s \ {First(s)}])
<1> DEFINE add == [v \in Fractions \X Fractions |-> Plus(v[1], v[2])]
<1>1. add \in [Fractions \X Fractions -> Fractions]
    BY PlusValue
<1>2. PICK it \in [SUBSET D -> Fractions] : \A s \in SUBSET D :
        it[s] = IF s = {} THEN Zero ELSE add[<<f[First(s)], it[s \ {First(s)}]>>]
    <2>1. Zero \in Fractions
        BY ZeroValue
    <2> DEFINE V == Fractions
    <2>2. add \in [V \X V -> V] /\ Zero \in V /\ f \in [D -> V]
        BY <1>1, <2>1
    <2> HIDE DEF add, V
    <2>3. \E it \in [SUBSET D -> V] : IsFold(it, D, Zero, f, add)
        BY <2>2, FoldExists
    <2> QED
        BY <2>3 DEF V, IsFold
<1>3. ASSUME NEW s \in SUBSET D, s # {}
      PROVE  it[s] = Plus(f[First(s)], it[s \ {First(s)}])
    <2>1. First(s) \in D
        BY <1>3 DEF First
    <2>2. f[First(s)] \in Fractions /\ it[s \ {First(s)}] \in Fractions
        BY <2>1
    <2> QED
        BY <1>2, <1>3, <2>2
<1>4. it = [s \in SUBSET D |->
        IF s = {} THEN Zero ELSE Plus(f[First(s)], it[s \ {First(s)}])]
    <2>1. it = [s \in SUBSET D |-> it[s]]
        OBVIOUS
    <2> HIDE DEF add
    <2> QED
        BY <1>2, <1>3, <2>1
<1>5. SumFrom(f) = [s \in SUBSET D |->
        IF s = {} THEN Zero ELSE Plus(f[First(s)], SumFrom(f)[s \ {First(s)}])]
    <2>1. DOMAIN f = D
        OBVIOUS
    <2> QED
        BY <1>4, <2>1 DEF SumFrom
<1>6. SumOf(f) = SumFrom(f)[D]
    BY DEF SumOf, SumFrom, FoldFunction, FoldFunctionOnSet, MapThenFoldSet, First
<1> HIDE DEF SumFrom
<1> QED
    BY <1>5, <1>6

-------------------------------------------------------------------------------
(* The order of fractions *)

Less(p, q) == p.num * q.den < q.num * p.den

\* Sum and product, not in lowest terms.
Sum(p, q) == [num |-> p.num * q.den + q.num * p.den, den |-> p.den * q.den]
Product(p, q) == [num |-> p.num * q.num, den |-> p.den * q.den]

LEMMA Positive ==
    ASSUME NEW a \in Nat \ {0}, NEW b \in Nat \ {0}
    PROVE  a * b \in Nat \ {0}
OBVIOUS

\* Both operations, by their values.
LEMMA Values ==
    ASSUME NEW p \in Fractions, NEW q \in Fractions
    PROVE  /\ p.num \in Nat /\ p.den \in Nat /\ p.den # 0
           /\ Sum(p, q) \in Fractions /\ Product(p, q) \in Fractions
           /\ Same(Plus(p, q), Sum(p, q)) /\ Same(Times(p, q), Product(p, q))
           /\ Plus(p, q) \in Fractions /\ Times(p, q) \in Fractions
<1>1. /\ p.num \in Nat /\ p.den \in Nat /\ p.den # 0
      /\ q.num \in Nat /\ q.den \in Nat /\ q.den # 0
    BY DEF Fractions
<1>2. p.den * q.den \in Nat \ {0}
    BY <1>1, Positive
<1>3. p.num * q.den + q.num * p.den \in Nat /\ p.num * q.num \in Nat
    BY <1>1
<1>4. Sum(p, q) \in Fractions /\ Product(p, q) \in Fractions
    BY <1>2, <1>3 DEF Sum, Product, Fractions
<1>5. Same(Plus(p, q), Sum(p, q))
    BY PlusValue DEF Same, Sum
<1>6. Same(Times(p, q), Product(p, q))
    BY TimesValue DEF Same, Product
<1> QED
    BY <1>1, <1>4, <1>5, <1>6, PlusValue, TimesValue

LEMMA SameIsBoth ==
    ASSUME NEW p \in Fractions, NEW q \in Fractions
    PROVE  /\ Same(p, q) <=> AtMost(p, q) /\ AtMost(q, p)
           /\ Same(p, q) <=> Same(q, p)
           /\ Less(p, q) <=> ~AtMost(q, p)
           /\ Less(p, q) => AtMost(p, q)
           /\ AtMost(p, p) /\ Same(p, p)
<1>1. /\ p.num \in Nat /\ p.den \in Nat /\ q.num \in Nat /\ q.den \in Nat
    BY DEF Fractions
<1>2. p.num * q.den \in Int /\ q.num * p.den \in Int
    BY <1>1
<1> QED
    BY <1>1, <1>2 DEF Same, AtMost, Less

\* a/b, c/d and e/f in order.
LEMMA InOrder ==
    ASSUME NEW a \in Nat, NEW b \in Nat \ {0}, NEW c \in Nat, NEW d \in Nat \ {0},
           NEW e \in Nat, NEW f \in Nat \ {0}, a * d <= c * b, c * f <= e * d
    PROVE  /\ a * f <= e * b
           /\ a * d < c * b \/ c * f < e * d => a * f < e * b
<1>1. /\ (a * d) * f <= (c * b) * f /\ (c * f) * b <= (e * d) * b
      /\ a * d < c * b => (a * d) * f < (c * b) * f
      /\ c * f < e * d => (c * f) * b < (e * d) * b
    <2>1. a * d \in Int /\ c * b \in Int /\ c * f \in Int /\ e * d \in Int
        OBVIOUS
    <2> QED
        BY <2>1, Scale
<1>2. (c * b) * f = (c * f) * b
    OBVIOUS
<1>3. (a * d) * f = (a * f) * d /\ (e * d) * b = (e * b) * d
    OBVIOUS
<1>4. (a * f) * d <= (e * b) * d
    <2>1. (a * d) * f \in Int /\ (c * b) * f \in Int /\ (e * d) * b \in Int
        OBVIOUS
    <2> QED
        BY <1>1, <1>2, <1>3, <2>1
<1>5. a * d < c * b \/ c * f < e * d => (a * f) * d < (e * b) * d
    <2>1. (a * d) * f \in Int /\ (c * b) * f \in Int /\ (e * d) * b \in Int
        OBVIOUS
    <2> QED
        BY <1>1, <1>2, <1>3, <2>1
<1>6. a * f \in Int /\ e * b \in Int
    OBVIOUS
<1> QED
    BY <1>4, <1>5, <1>6, Cancel

LEMMA AtMostTransitive ==
    ASSUME NEW p \in Fractions, NEW q \in Fractions, NEW r \in Fractions,
           AtMost(p, q), AtMost(q, r)
    PROVE  /\ AtMost(p, r)
           /\ Less(p, q) \/ Less(q, r) => Less(p, r)
<1>1. /\ p.num \in Nat /\ p.den \in Nat \ {0} /\ q.num \in Nat /\ q.den \in Nat \ {0}
      /\ r.num \in Nat /\ r.den \in Nat \ {0}
    BY DEF Fractions
<1>2. p.num * q.den <= q.num * p.den /\ q.num * r.den <= r.num * q.den
    BY DEF AtMost
<1> QED
    BY <1>1, <1>2, InOrder DEF AtMost, Less

LEMMA SameTransitive ==
    ASSUME NEW p \in Fractions, NEW q \in Fractions, NEW r \in Fractions,
           Same(p, q), Same(q, r)
    PROVE  Same(p, r)
BY SameIsBoth, AtMostTransitive

\* a/b at most c/d, and e/f at most g/h.
LEMMA SumInOrder ==
    ASSUME NEW a \in Nat, NEW b \in Nat \ {0}, NEW c \in Nat, NEW d \in Nat \ {0},
           NEW e \in Nat, NEW f \in Nat \ {0}, NEW g \in Nat, NEW h \in Nat \ {0},
           a * d <= c * b, e * h <= g * f
    PROVE  /\ (a * f + e * b) * (d * h) <= (c * h + g * d) * (b * f)
           /\ a * d < c * b => (a * f + e * b) * (d * h) < (c * h + g * d) * (b * f)
<1>1. f * h \in Nat \ {0} /\ b * d \in Nat \ {0}
    BY Positive
<1>2. a * d \in Int /\ c * b \in Int /\ e * h \in Int /\ g * f \in Int
    OBVIOUS
<1>3. /\ (a * d) * (f * h) <= (c * b) * (f * h)
      /\ a * d < c * b => (a * d) * (f * h) < (c * b) * (f * h)
      /\ (e * h) * (b * d) <= (g * f) * (b * d)
    BY <1>1, <1>2, Scale
<1>4. (a * f + e * b) * (d * h) = (a * d) * (f * h) + (e * h) * (b * d)
    OBVIOUS
<1>5. (c * h + g * d) * (b * f) = (c * b) * (f * h) + (g * f) * (b * d)
    OBVIOUS
<1>6. /\ (a * d) * (f * h) \in Int /\ (e * h) * (b * d) \in Int
      /\ (c * b) * (f * h) \in Int /\ (g * f) * (b * d) \in Int
    OBVIOUS
<1> QED
    BY <1>3, <1>4, <1>5, <1>6

LEMMA ProductInOrder ==
    ASSUME NEW a \in Nat, NEW b \in Nat \ {0}, NEW c \in Nat, NEW d \in Nat \ {0},
           NEW e \in Nat, NEW f \in Nat \ {0}, NEW g \in Nat, NEW h \in Nat \ {0},
           a * d <= c * b, e * h <= g * f
    PROVE  /\ (a * e) * (d * h) <= (c * g) * (b * f)
           /\ a * d < c * b /\ e # 0 => (a * e) * (d * h) < (c * g) * (b * f)
<1>1. a * d \in Nat /\ c * b \in Nat /\ e * h \in Nat /\ g * f \in Nat
    OBVIOUS
<1>2. (a * d) * (e * h) <= (c * b) * (e * h)
    BY <1>1, Scale
<1>3. (e * h) * (c * b) <= (g * f) * (c * b)
    BY <1>1, Scale
<1>4. a * d < c * b /\ e # 0 => (a * d) * (e * h) < (c * b) * (e * h)
    <2>1. e # 0 => e * h # 0
        OBVIOUS
    <2> QED
        BY <1>1, <2>1, Scale
<1>5. (a * e) * (d * h) = (a * d) * (e * h) /\ (c * g) * (b * f) = (g * f) * (c * b)
    OBVIOUS
<1>6. (e * h) * (c * b) = (c * b) * (e * h)
    OBVIOUS
<1>7. /\ (a * d) * (e * h) \in Int /\ (c * b) * (e * h) \in Int /\ (g * f) * (c * b) \in Int
    OBVIOUS
<1> QED
    BY <1>2, <1>3, <1>4, <1>5, <1>6, <1>7

LEMMA PlusMonotone ==
    ASSUME NEW p \in Fractions, NEW q \in Fractions, NEW r \in Fractions,
           NEW s \in Fractions, AtMost(p, r), AtMost(q, s)
    PROVE  /\ AtMost(Plus(p, q), Plus(r, s))
           /\ Less(p, r) => Less(Plus(p, q), Plus(r, s))
<1>1. /\ p.num \in Nat /\ p.den \in Nat \ {0} /\ q.num \in Nat /\ q.den \in Nat \ {0}
      /\ r.num \in Nat /\ r.den \in Nat \ {0} /\ s.num \in Nat /\ s.den \in Nat \ {0}
    BY DEF Fractions
<1>2. /\ AtMost(Sum(p, q), Sum(r, s))
      /\ Less(p, r) => Less(Sum(p, q), Sum(r, s))
    <2>1. p.num * r.den <= r.num * p.den /\ q.num * s.den <= s.num * q.den
        BY DEF AtMost
    <2>2. /\ (p.num * q.den + q.num * p.den) * (r.den * s.den)
                <= (r.num * s.den + s.num * r.den) * (p.den * q.den)
          /\ p.num * r.den < r.num * p.den =>
                (p.num * q.den + q.num * p.den) * (r.den * s.den)
                    < (r.num * s.den + s.num * r.den) * (p.den * q.den)
        BY <1>1, <2>1, SumInOrder
    <2> QED
        BY <2>2 DEF AtMost, Less, Sum
<1>3. /\ Sum(p, q) \in Fractions /\ Sum(r, s) \in Fractions
      /\ Plus(p, q) \in Fractions /\ Plus(r, s) \in Fractions
      /\ Same(Plus(p, q), Sum(p, q)) /\ Same(Plus(r, s), Sum(r, s))
    BY Values
<1>4. AtMost(Plus(p, q), Sum(p, q)) /\ AtMost(Sum(r, s), Plus(r, s))
    BY <1>3, SameIsBoth
<1>5. /\ AtMost(Plus(p, q), Sum(r, s))
      /\ Less(p, r) => Less(Plus(p, q), Sum(r, s))
    BY <1>2, <1>3, <1>4, AtMostTransitive
<1> QED
    BY <1>3, <1>4, <1>5, AtMostTransitive

LEMMA TimesMonotone ==
    ASSUME NEW p \in Fractions, NEW q \in Fractions, NEW r \in Fractions,
           NEW s \in Fractions, AtMost(p, r), AtMost(q, s)
    PROVE  /\ AtMost(Times(p, q), Times(r, s))
           /\ Less(p, r) /\ q.num # 0 => Less(Times(p, q), Times(r, s))
<1>1. /\ p.num \in Nat /\ p.den \in Nat \ {0} /\ q.num \in Nat /\ q.den \in Nat \ {0}
      /\ r.num \in Nat /\ r.den \in Nat \ {0} /\ s.num \in Nat /\ s.den \in Nat \ {0}
    BY DEF Fractions
<1>2. /\ AtMost(Product(p, q), Product(r, s))
      /\ Less(p, r) /\ q.num # 0 => Less(Product(p, q), Product(r, s))
    <2>1. p.num * r.den <= r.num * p.den /\ q.num * s.den <= s.num * q.den
        BY DEF AtMost
    <2>2. /\ (p.num * q.num) * (r.den * s.den) <= (r.num * s.num) * (p.den * q.den)
          /\ p.num * r.den < r.num * p.den /\ q.num # 0 =>
                (p.num * q.num) * (r.den * s.den) < (r.num * s.num) * (p.den * q.den)
        BY <1>1, <2>1, ProductInOrder
    <2> QED
        BY <2>2 DEF AtMost, Less, Product
<1>3. /\ Product(p, q) \in Fractions /\ Product(r, s) \in Fractions
      /\ Times(p, q) \in Fractions /\ Times(r, s) \in Fractions
      /\ Same(Times(p, q), Product(p, q)) /\ Same(Times(r, s), Product(r, s))
    BY Values
<1>4. AtMost(Times(p, q), Product(p, q)) /\ AtMost(Product(r, s), Times(r, s))
    BY <1>3, SameIsBoth
<1>5. /\ AtMost(Times(p, q), Product(r, s))
      /\ Less(p, r) /\ q.num # 0 => Less(Times(p, q), Product(r, s))
    BY <1>2, <1>3, <1>4, AtMostTransitive
<1> QED
    BY <1>3, <1>4, <1>5, AtMostTransitive

LEMMA SameArguments ==
    ASSUME NEW p \in Fractions, NEW q \in Fractions, NEW r \in Fractions,
           NEW s \in Fractions, Same(p, r), Same(q, s)
    PROVE  Same(Plus(p, q), Plus(r, s)) /\ Same(Times(p, q), Times(r, s))
<1>1. AtMost(p, r) /\ AtMost(r, p) /\ AtMost(q, s) /\ AtMost(s, q)
    BY SameIsBoth
<1>2. /\ Plus(p, q) \in Fractions /\ Plus(r, s) \in Fractions
      /\ Times(p, q) \in Fractions /\ Times(r, s) \in Fractions
    BY Values
<1>3. AtMost(Plus(p, q), Plus(r, s)) /\ AtMost(Plus(r, s), Plus(p, q))
    BY <1>1, PlusMonotone
<1>4. AtMost(Times(p, q), Times(r, s)) /\ AtMost(Times(r, s), Times(p, q))
    BY <1>1, TimesMonotone
<1> QED
    BY <1>2, <1>3, <1>4, SameIsBoth

LEMMA Distribute ==
    ASSUME NEW p \in Fractions, NEW q \in Fractions, NEW k \in Fractions
    PROVE  Same(Times(Plus(p, q), k), Plus(Times(p, k), Times(q, k)))
<1>1. /\ p.num \in Nat /\ p.den \in Nat /\ q.num \in Nat /\ q.den \in Nat
      /\ k.num \in Nat /\ k.den \in Nat
    BY DEF Fractions
<1>2. /\ Plus(p, q) \in Fractions /\ Times(p, k) \in Fractions /\ Times(q, k) \in Fractions
      /\ Sum(p, q) \in Fractions /\ Product(p, k) \in Fractions /\ Product(q, k) \in Fractions
    BY Values
<1>3. Same(Times(Plus(p, q), k), Times(Sum(p, q), k))
    BY <1>2, Values, SameIsBoth, SameArguments
<1>4. Same(Plus(Product(p, k), Product(q, k)), Plus(Times(p, k), Times(q, k)))
    BY <1>2, Values, SameIsBoth, SameArguments
<1>5. Same(Product(Sum(p, q), k), Sum(Product(p, k), Product(q, k)))
    <2>1. ((p.num * q.den + q.num * p.den) * k.num) * ((p.den * k.den) * (q.den * k.den))
            = ((p.num * k.num) * (q.den * k.den) + (q.num * k.num) * (p.den * k.den))
                * ((p.den * q.den) * k.den)
        BY <1>1
    <2> QED
        BY <2>1 DEF Same, Product, Sum
<1>6. /\ Times(Plus(p, q), k) \in Fractions /\ Times(Sum(p, q), k) \in Fractions
      /\ Product(Sum(p, q), k) \in Fractions
      /\ Sum(Product(p, k), Product(q, k)) \in Fractions
      /\ Plus(Product(p, k), Product(q, k)) \in Fractions
      /\ Plus(Times(p, k), Times(q, k)) \in Fractions
    BY <1>2, Values
<1>7. Same(Times(Sum(p, q), k), Product(Sum(p, q), k))
    BY <1>2, Values
<1>8. Same(Sum(Product(p, k), Product(q, k)), Plus(Product(p, k), Product(q, k)))
    BY <1>2, <1>6, Values, SameIsBoth
<1>9. Same(Times(Plus(p, q), k), Product(Sum(p, q), k))
    BY <1>3, <1>6, <1>7, SameTransitive
<1>10. Same(Times(Plus(p, q), k), Sum(Product(p, k), Product(q, k)))
    BY <1>5, <1>6, <1>9, SameTransitive
<1>11. Same(Times(Plus(p, q), k), Plus(Product(p, k), Product(q, k)))
    BY <1>6, <1>8, <1>10, SameTransitive
<1> QED
    BY <1>4, <1>6, <1>11, SameTransitive

LEMMA Commute ==
    ASSUME NEW p \in Fractions, NEW q \in Fractions
    PROVE  Same(Plus(p, q), Plus(q, p)) /\ Same(Times(p, q), Times(q, p))
<1>1. /\ p.num \in Nat /\ p.den \in Nat /\ q.num \in Nat /\ q.den \in Nat
    BY DEF Fractions
<1>2. Sum(p, q) = Sum(q, p) /\ Product(p, q) = Product(q, p)
    BY <1>1 DEF Sum, Product
<1>3. /\ Plus(p, q) \in Fractions /\ Plus(q, p) \in Fractions
      /\ Times(p, q) \in Fractions /\ Times(q, p) \in Fractions
      /\ Sum(p, q) \in Fractions /\ Product(p, q) \in Fractions
      /\ Same(Plus(p, q), Sum(p, q)) /\ Same(Plus(q, p), Sum(q, p))
      /\ Same(Times(p, q), Product(p, q)) /\ Same(Times(q, p), Product(q, p))
    BY Values
<1> QED
    BY <1>2, <1>3, SameIsBoth, SameTransitive

LEMMA PlusStrict ==
    ASSUME NEW p \in Fractions, NEW q \in Fractions, NEW r \in Fractions,
           NEW s \in Fractions, AtMost(p, r), AtMost(q, s), Less(p, r) \/ Less(q, s)
    PROVE  Less(Plus(p, q), Plus(r, s))
<1>1. CASE Less(p, r)
    BY <1>1, PlusMonotone
<1>2. CASE Less(q, s)
    <2>1. Less(Plus(q, p), Plus(s, r))
        BY <1>2, PlusMonotone
    <2>2. /\ Plus(p, q) \in Fractions /\ Plus(q, p) \in Fractions
          /\ Plus(s, r) \in Fractions /\ Plus(r, s) \in Fractions
        BY Values
    <2>3. AtMost(Plus(p, q), Plus(q, p)) /\ AtMost(Plus(s, r), Plus(r, s))
        BY <2>2, Commute, SameIsBoth
    <2>4. Less(Plus(p, q), Plus(s, r)) /\ AtMost(Plus(p, q), Plus(s, r))
        BY <2>1, <2>2, <2>3, SameIsBoth, AtMostTransitive
    <2> QED
        BY <2>2, <2>3, <2>4, AtMostTransitive
<1> QED
    BY <1>1, <1>2

\* A fraction that is no more than a number, and one that is nothing.
LEMMA WholeFraction ==
    ASSUME NEW m \in Nat
    PROVE  Fraction(m, 1) = [num |-> m, den |-> 1]
<1>1. m % 1 = 0 /\ m \div 1 = m /\ 1 \div 1 = 1
    OBVIOUS
<1>2. Gcd[<<m, 1>>] = Gcd[<<1, m % 1>>] /\ Gcd[<<1, 0>>] = 1
    BY GcdStep, GcdOfZero
<1> QED
    BY <1>1, <1>2 DEF Fraction

LEMMA NothingIsZero ==
    ASSUME NEW n \in Nat \ {0}
    PROVE  Fraction(0, n) = Zero
<1>1. 0 % n = 0 /\ 0 \div n = 0 /\ n \div n = 1
    <2>1. n * 1 = n
        OBVIOUS
    <2> QED
        BY <2>1, ExactDivision
<1>2. Gcd[<<0, n>>] = Gcd[<<n, 0 % n>>] /\ Gcd[<<n, 0>>] = n
    BY GcdRecursion
<1> QED
    BY <1>1, <1>2, ZeroValue DEF Fraction

LEMMA NoSumIsZero ==
    ASSUME NEW p \in Fractions, NEW q \in Fractions, Plus(p, q).num = 0
    PROVE  Plus(p, q) = Zero
<1> DEFINE g == Gcd[<<p.den, q.den>>]
           l == p.den * (q.den \div g)
           m == p.num * (l \div p.den) + q.num * (l \div q.den)
<1>1. /\ p.num \in Nat /\ p.den \in Nat \ {0} /\ q.num \in Nat /\ q.den \in Nat \ {0}
    BY DEF Fractions
<1>2. g \in Nat /\ Divides(g, p.den) /\ Divides(g, q.den)
    BY <1>1, GcdDivides
<1> HIDE DEF g
<1>3. PICK b \in Nat : q.den = g * b
    BY <1>2 DEF Divides
<1>4. g # 0 /\ b # 0
    BY <1>1, <1>2, <1>3
<1>5. q.den \div g = b
    BY <1>2, <1>3, <1>4, ExactDivision
<1>6. l \in Nat \ {0}
    BY <1>1, <1>4, <1>5, Positive
<1> HIDE DEF l
<1>7. l \div p.den \in Nat /\ l \div q.den \in Nat
    BY <1>1, <1>6, Remainder
<1>8. m \in Nat
    BY <1>1, <1>7
<1>9. Plus(p, q) = Fraction(m, l)
    BY DEF Plus, l, g
<1> HIDE DEF m
<1>10. Fraction(m, l) \in Fractions /\ Fraction(m, l).num * l = m * Fraction(m, l).den
    BY <1>6, <1>8, FractionValue
<1>11. m = 0
    BY <1>6, <1>8, <1>9, <1>10 DEF Fractions
<1> QED
    BY <1>6, <1>9, <1>11, NothingIsZero

LEMMA WholeSum ==
    ASSUME NEW m \in Nat, NEW n \in Nat
    PROVE  Plus(Fraction(m, 1), Fraction(n, 1)) = Fraction(m + n, 1)
<1>1. Gcd[<<1, 1>>] = 1
    <2>1. 1 % 1 = 0
        OBVIOUS
    <2>2. Gcd[<<1, 1>>] = Gcd[<<1, 1 % 1>>] /\ Gcd[<<1, 0>>] = 1
        BY GcdStep, GcdOfZero
    <2> QED
        BY <2>1, <2>2
<1>2. 1 \div 1 = 1
    OBVIOUS
<1>3. m * 1 + n * 1 = m + n /\ 1 * 1 = 1
    OBVIOUS
<1> QED
    BY <1>1, <1>2, <1>3, WholeFraction DEF Plus

-------------------------------------------------------------------------------
(* Rounding *)

\* r hundredths are q, ties going up.
Rounded(q, r) == (2 * r - 1) * q.den <= 200 * q.num /\ 200 * q.num < (2 * r + 1) * q.den

LEMMA Round2Rounds ==
    ASSUME NEW q \in Fractions
    PROVE  Round2(q) \in Nat /\ Rounded(q, Round2(q))
<1> DEFINE m == 200 * q.num + q.den
           n == 2 * q.den
           r == m \div n
<1>1. q.num \in Nat /\ q.den \in Nat \ {0} /\ m \in Nat /\ n \in Nat \ {0}
    BY DEF Fractions
<1>2. Round2(q) = r
    BY DEF Round2
<1>3. r \in Nat /\ m % n \in Nat /\ m % n < n /\ m = n * r + (m % n)
    <2> HIDE DEF m, n
    <2> QED
        BY <1>1, Remainder
<1> HIDE DEF r
<1>4. n * r <= m /\ m < n * r + n
    BY <1>1, <1>3
<1>5. (2 * r - 1) * q.den = n * r - q.den /\ (2 * r + 1) * q.den = n * r + n - q.den
    BY <1>1, <1>3
<1>6. q.num \in Nat /\ q.den \in Nat /\ n * r \in Int /\ m = 200 * q.num + q.den
    BY <1>1, <1>3
<1> HIDE DEF m, n
<1>7. n * r - q.den <= 200 * q.num /\ 200 * q.num < n * r + n - q.den
    BY <1>1, <1>4, <1>6
<1> QED
    BY <1>2, <1>3, <1>5, <1>7 DEF Rounded

LEMMA RoundedInOrder ==
    ASSUME NEW p \in Fractions, NEW q \in Fractions, NEW r \in Int, NEW t \in Int,
           Rounded(p, r), Rounded(q, t), AtMost(p, q)
    PROVE  r <= t
<1>1. /\ p.num \in Nat /\ p.den \in Nat \ {0} /\ q.num \in Nat /\ q.den \in Nat \ {0}
    BY DEF Fractions
<1> DEFINE a == 2 * r - 1
           b == 2 * t + 1
<1>2. a \in Int /\ b \in Int /\ a * p.den <= 200 * p.num /\ 200 * q.num < b * q.den
    BY DEF Rounded
<1> HIDE DEF a, b
<1>3. (a * p.den) * q.den <= (200 * p.num) * q.den
    BY <1>1, <1>2, Scale
<1>4. (200 * q.num) * p.den < (b * q.den) * p.den
    BY <1>1, <1>2, Scale
<1>5. (200 * p.num) * q.den <= (200 * q.num) * p.den
    <2>1. p.num * q.den <= q.num * p.den
        BY DEF AtMost
    <2>2. /\ (200 * p.num) * q.den = 200 * (p.num * q.den)
          /\ (200 * q.num) * p.den = 200 * (q.num * p.den)
        BY <1>1
    <2> QED
        BY <1>1, <2>1, <2>2
<1>6. (a * p.den) * q.den = a * (p.den * q.den) /\ (b * q.den) * p.den = b * (p.den * q.den)
    BY <1>1, <1>2
<1>7. a * (p.den * q.den) < b * (p.den * q.den)
    <2>1. /\ a * (p.den * q.den) \in Int /\ b * (p.den * q.den) \in Int
          /\ (200 * p.num) * q.den \in Int /\ (200 * q.num) * p.den \in Int
        BY <1>1, <1>2
    <2> QED
        BY <1>3, <1>4, <1>5, <1>6, <2>1
<1>8. p.den * q.den \in Nat \ {0}
    BY <1>1, Positive
<1>9. a < b
    BY <1>2, <1>7, <1>8, Cancel
<1> QED
    BY <1>9 DEF a, b

\* Better never rounds to less, and the same to the same.
LEMMA RoundingMonotone ==
    ASSUME NEW p \in Fractions, NEW q \in Fractions
    PROVE  /\ AtMost(p, q) => Round2(p) <= Round2(q)
           /\ Same(p, q) => Round2(p) = Round2(q)
<1>1. /\ Round2(p) \in Nat /\ Rounded(p, Round2(p))
      /\ Round2(q) \in Nat /\ Rounded(q, Round2(q))
    BY Round2Rounds
<1>2. AtMost(p, q) => Round2(p) <= Round2(q)
    BY <1>1, RoundedInOrder
<1>3. AtMost(q, p) => Round2(q) <= Round2(p)
    BY <1>1, RoundedInOrder
<1> QED
    BY <1>1, <1>2, <1>3, SameIsBoth

-------------------------------------------------------------------------------
(* Sums *)

LEMMA FirstLaws ==
    ASSUME NEW D, IsFiniteSet(D), NEW s \in SUBSET D, s # {}
    PROVE  /\ First(s) \in s /\ First(s) \in D
           /\ s \ {First(s)} \in SUBSET D
           /\ s = (s \ {First(s)}) \cup {First(s)}
           /\ Cardinality(s) \in Nat /\ Cardinality(s \ {First(s)}) \in Nat
           /\ Cardinality(s) = Cardinality(s \ {First(s)}) + 1
<1>1. First(s) \in s
    BY DEF First
<1>2. IsFiniteSet(s) /\ Cardinality(s \ {First(s)}) = Cardinality(s) - 1
    BY <1>1, FS_Subset, FS_RemoveElement
<1> QED
    BY <1>1, <1>2, FS_Subset, FS_CardinalityType

LEMMA SumsAreFractions ==
    ASSUME NEW D, IsFiniteSet(D), NEW f \in [D -> Fractions]
    PROVE  /\ \A s \in SUBSET D : SumFrom(f)[s] \in Fractions
           /\ SumOf(f) \in Fractions
           /\ SumOf(f).num = 0 => SumOf(f) = Zero
<1> DEFINE S == SumFrom(f)
           Good == {s \in SUBSET D : S[s] \in Fractions}
<1> HIDE DEF S
<1>1. /\ SumOf(f) = S[D] /\ S[{}] = Zero
      /\ \A s \in SUBSET D : s # {} => S[s] = Plus(f[First(s)], S[s \ {First(s)}])
    BY SumSteps DEF S
<1>2. {} \in Good
    BY <1>1, ZeroValue
<1>3. ASSUME NEW s \in SUBSET D, s # {}, s \ {First(s)} \in Good
      PROVE  /\ s \in Good
             /\ S[s].num = 0 => S[s] = Zero
    <2>1. First(s) \in D
        BY <1>3, FirstLaws
    <2>2. f[First(s)] \in Fractions /\ S[s \ {First(s)}] \in Fractions
        BY <1>3, <2>1
    <2>3. S[s] = Plus(f[First(s)], S[s \ {First(s)}])
        BY <1>1, <1>3
    <2> QED
        BY <2>2, <2>3, PlusValue, NoSumIsZero
<1>4. SUBSET D \subseteq Good
    <2> HIDE DEF Good
    <2> QED
        BY <1>2, <1>3, SubsetsByFirst
<1>5. S[D].num = 0 => S[D] = Zero
    <2>1. CASE D = {}
        BY <1>1, <2>1
    <2>2. CASE D # {}
        <3>1. D \in SUBSET D /\ D \ {First(D)} \in Good
            BY <1>4
        <3> QED
            BY <1>3, <2>2, <3>1
    <2> QED
        BY <2>1, <2>2
<1> QED
    BY <1>1, <1>4, <1>5 DEF S

\* One term more.
LEMMA SumOneMore ==
    ASSUME NEW D, IsFiniteSet(D), NEW f \in [D -> Fractions], NEW s \in SUBSET D, s # {}
    PROVE  /\ f[First(s)] \in Fractions /\ SumFrom(f)[s \ {First(s)}] \in Fractions
           /\ SumFrom(f)[s] = Plus(f[First(s)], SumFrom(f)[s \ {First(s)}])
<1>1. First(s) \in D /\ s \ {First(s)} \in SUBSET D
    BY FirstLaws
<1>2. SumFrom(f)[s \ {First(s)}] \in Fractions
    BY <1>1, SumsAreFractions
<1> QED
    BY <1>1, <1>2, SumSteps

\* Sums of terms that are no greater, and of some that are less.
LEMMA SumMonotone ==
    ASSUME NEW D, IsFiniteSet(D), NEW f \in [D -> Fractions], NEW g \in [D -> Fractions],
           \A x \in D : AtMost(f[x], g[x])
    PROVE  /\ AtMost(SumOf(f), SumOf(g))
           /\ (\E x \in D : Less(f[x], g[x])) => Less(SumOf(f), SumOf(g))
<1> DEFINE F == SumFrom(f)
           G == SumFrom(g)
           Good == {s \in SUBSET D :
                        /\ AtMost(F[s], G[s])
                        /\ (\E x \in s : Less(f[x], g[x])) => Less(F[s], G[s])}
<1> HIDE DEF F, G
<1>1. F[{}] = Zero /\ G[{}] = Zero /\ SumOf(f) = F[D] /\ SumOf(g) = G[D]
    BY SumSteps DEF F, G
<1>2. {} \in Good
    <2>1. AtMost(Zero, Zero)
        BY ZeroValue, SameIsBoth
    <2> QED
        BY <1>1, <2>1
<1>3. ASSUME NEW s \in SUBSET D, s # {}, s \ {First(s)} \in Good
      PROVE  s \in Good
    <2> DEFINE x == First(s)
               t == s \ {First(s)}
    <2>1. x \in D /\ s = t \cup {x}
        BY <1>3, FirstLaws
    <2>2. /\ f[x] \in Fractions /\ F[t] \in Fractions /\ F[s] = Plus(f[x], F[t])
          /\ g[x] \in Fractions /\ G[t] \in Fractions /\ G[s] = Plus(g[x], G[t])
        BY <1>3, SumOneMore DEF F, G
    <2>3. /\ AtMost(f[x], g[x]) /\ AtMost(F[t], G[t])
          /\ (\E y \in t : Less(f[y], g[y])) => Less(F[t], G[t])
        BY <1>3, <2>1
    <2> HIDE DEF x, t
    <2>4. AtMost(F[s], G[s])
        BY <2>2, <2>3, PlusMonotone
    <2>5. (\E y \in s : Less(f[y], g[y])) => Less(f[x], g[x]) \/ Less(F[t], G[t])
        BY <2>1, <2>3
    <2>6. (\E y \in s : Less(f[y], g[y])) => Less(F[s], G[s])
        BY <2>2, <2>3, <2>5, PlusStrict
    <2> QED
        BY <2>4, <2>6
<1>4. SUBSET D \subseteq Good
    <2> HIDE DEF Good
    <2> QED
        BY <1>2, <1>3, SubsetsByFirst
<1>5. D \in Good
    BY <1>4
<1> QED
    BY <1>1, <1>5

\* A factor of every term is one of the sum.
LEMMA SumScaled ==
    ASSUME NEW D, IsFiniteSet(D), NEW f \in [D -> Fractions], NEW g \in [D -> Fractions],
           NEW k \in Fractions, \A x \in D : Same(g[x], Times(f[x], k))
    PROVE  Same(SumOf(g), Times(SumOf(f), k))
<1> DEFINE F == SumFrom(f)
           G == SumFrom(g)
           Good == {s \in SUBSET D : Same(G[s], Times(F[s], k))}
<1> HIDE DEF F, G
<1>1. F[{}] = Zero /\ G[{}] = Zero /\ SumOf(f) = F[D] /\ SumOf(g) = G[D]
    BY SumSteps DEF F, G
<1>2. {} \in Good
    <2>1. Zero \in Fractions /\ Times(Zero, k) \in Fractions
        BY ZeroValue, Values
    <2>2. Same(Product(Zero, k), Zero)
        <3>1. Zero.num = 0 /\ k.num \in Nat /\ k.den \in Nat /\ Zero.den \in Nat
            BY ZeroValue DEF Fractions
        <3> QED
            BY <3>1 DEF Same, Product
    <2>3. Same(Times(Zero, k), Zero)
        BY <2>1, <2>2, Values, SameTransitive
    <2> QED
        BY <1>1, <2>1, <2>3, SameIsBoth
<1>3. ASSUME NEW s \in SUBSET D, s # {}, s \ {First(s)} \in Good
      PROVE  s \in Good
    <2> DEFINE x == First(s)
               t == s \ {First(s)}
    <2>1. x \in D
        BY <1>3, FirstLaws
    <2>2. /\ f[x] \in Fractions /\ F[t] \in Fractions /\ F[s] = Plus(f[x], F[t])
          /\ g[x] \in Fractions /\ G[t] \in Fractions /\ G[s] = Plus(g[x], G[t])
        BY <1>3, SumOneMore DEF F, G
    <2>3. Same(g[x], Times(f[x], k)) /\ Same(G[t], Times(F[t], k))
        BY <1>3, <2>1
    <2> HIDE DEF x, t
    <2>4. /\ Times(f[x], k) \in Fractions /\ Times(F[t], k) \in Fractions
          /\ Plus(f[x], F[t]) \in Fractions
        BY <2>2, Values
    <2>5. /\ Plus(Times(f[x], k), Times(F[t], k)) \in Fractions
          /\ Times(Plus(f[x], F[t]), k) \in Fractions
          /\ Plus(g[x], G[t]) \in Fractions
        BY <2>2, <2>4, Values
    <2>6. Same(Plus(g[x], G[t]), Plus(Times(f[x], k), Times(F[t], k)))
        BY <2>2, <2>3, <2>4, SameArguments
    <2>7. Same(Plus(Times(f[x], k), Times(F[t], k)), Times(Plus(f[x], F[t]), k))
        BY <2>2, <2>5, Distribute, SameIsBoth
    <2>8. Same(Plus(g[x], G[t]), Times(Plus(f[x], F[t]), k))
        BY <2>5, <2>6, <2>7, SameTransitive
    <2> QED
        BY <2>2, <2>8
<1>4. SUBSET D \subseteq Good
    <2> HIDE DEF Good
    <2> QED
        BY <1>2, <1>3, SubsetsByFirst
<1>5. D \in Good
    BY <1>4
<1> QED
    BY <1>1, <1>5

\* As many times the same.
LEMMA SumConstant ==
    ASSUME NEW D, IsFiniteSet(D), NEW f \in [D -> Fractions], NEW q \in Fractions,
           \A x \in D : Same(f[x], q)
    PROVE  /\ Cardinality(D) \in Nat
           /\ Same(SumOf(f), [num |-> Cardinality(D) * q.num, den |-> q.den])
<1> DEFINE F == SumFrom(f)
           Many(n) == [num |-> n * q.num, den |-> q.den]
           Good == {s \in SUBSET D : Same(F[s], Many(Cardinality(s)))}
<1> HIDE DEF F
<1>1. F[{}] = Zero /\ SumOf(f) = F[D]
    BY SumSteps DEF F
<1>2. q.num \in Nat /\ q.den \in Nat \ {0}
    BY DEF Fractions
<1>3. {} \in Good
    <2>1. Cardinality({}) = 0
        BY FS_EmptySet
    <2>2. 0 * q.num = 0 /\ 0 * q.den = 0 * 1
        BY <1>2
    <2> QED
        BY <1>1, <2>1, <2>2, ZeroValue DEF Same
<1>4. ASSUME NEW n \in Nat
      PROVE  Many(n) \in Fractions
    <2>1. n * q.num \in Nat
        BY <1>2
    <2> QED
        BY <1>2, <2>1 DEF Fractions
<1>5. ASSUME NEW s \in SUBSET D, s # {}, s \ {First(s)} \in Good
      PROVE  s \in Good
    <2> DEFINE x == First(s)
               t == s \ {First(s)}
               n == Cardinality(t)
    <2>1. x \in D /\ n \in Nat /\ Cardinality(s) = n + 1
        BY <1>5, FirstLaws
    <2>2. f[x] \in Fractions /\ F[t] \in Fractions /\ F[s] = Plus(f[x], F[t])
        BY <1>5, SumOneMore DEF F
    <2>3. Same(f[x], q) /\ Same(F[t], Many(n))
        BY <1>5, <2>1
    <2> HIDE DEF x, t, n
    <2>4. Many(n) \in Fractions /\ Many(n + 1) \in Fractions
        BY <1>4, <2>1
    <2>5. Same(Plus(f[x], F[t]), Plus(q, Many(n)))
        BY <2>2, <2>3, <2>4, SameArguments
    <2>6. Same(Sum(q, Many(n)), Many(n + 1))
        <3>1. (q.num * q.den + (n * q.num) * q.den) * q.den
                = ((n + 1) * q.num) * (q.den * q.den)
            BY <1>2, <2>1
        <3> QED
            BY <3>1 DEF Same, Sum
    <2> HIDE DEF Many
    <2>7. /\ Sum(q, Many(n)) \in Fractions /\ Plus(q, Many(n)) \in Fractions
          /\ Same(Plus(q, Many(n)), Sum(q, Many(n))) /\ Plus(f[x], F[t]) \in Fractions
        BY <2>2, <2>4, Values
    <2>8. Same(Plus(q, Many(n)), Many(n + 1))
        BY <2>4, <2>6, <2>7, SameTransitive
    <2>9. Same(Plus(f[x], F[t]), Many(n + 1))
        BY <2>4, <2>5, <2>7, <2>8, SameTransitive
    <2> QED
        BY <2>1, <2>2, <2>9
<1>6. SUBSET D \subseteq Good
    <2> HIDE DEF Good
    <2> QED
        BY <1>3, <1>5, SubsetsByFirst
<1>7. D \in Good
    BY <1>6
<1> QED
    BY <1>1, <1>7, FS_CardinalityType

\* A sum of numbers is a number, and zero when all of them are.
LEMMA SumOfWhole ==
    ASSUME NEW D, IsFiniteSet(D), NEW w \in [D -> Nat]
    PROVE  LET sum == SumOf([x \in D |-> Fraction(w[x], 1)]) IN
           /\ sum.num \in Nat /\ sum = Fraction(sum.num, 1)
           /\ sum.num = 0 <=> \A x \in D : w[x] = 0
<1> DEFINE f == [x \in D |-> Fraction(w[x], 1)]
           F == SumFrom(f)
           Good == {s \in SUBSET D : F[s].num \in Nat /\ F[s] = Fraction(F[s].num, 1)
                                        /\ (F[s].num = 0 <=> \A x \in s : w[x] = 0)}
<1>1. f \in [D -> Fractions]
    BY FractionValue
<1> HIDE DEF f, F
<1>2. F[{}] = Zero /\ SumOf(f) = F[D]
    BY <1>1, SumSteps DEF F
<1>3. {} \in Good
    BY <1>2, ZeroValue DEF Zero
<1>4. ASSUME NEW s \in SUBSET D, s # {}, s \ {First(s)} \in Good
      PROVE  s \in Good
    <2> DEFINE x == First(s)
               t == s \ {First(s)}
    <2>1. x \in D /\ w[x] \in Nat /\ s = t \cup {x}
        BY <1>4, FirstLaws
    <2>2. F[s] = Plus(f[x], F[t])
        BY <1>1, <1>4, SumOneMore DEF F
    <2>3. /\ F[t].num \in Nat /\ F[t] = Fraction(F[t].num, 1)
          /\ F[t].num = 0 <=> \A y \in t : w[y] = 0
        BY <1>4
    <2> HIDE DEF t
    <2>4. F[s] = Fraction(w[x] + F[t].num, 1)
        <3>1. f[x] = Fraction(w[x], 1)
            BY <2>1 DEF f
        <3> HIDE DEF x
        <3> QED
            BY <2>1, <2>2, <2>3, <3>1, WholeSum
    <2>5. w[x] + F[t].num \in Nat
        BY <2>1, <2>3
    <2>6. F[s].num = w[x] + F[t].num
        BY <2>4, <2>5, WholeFraction
    <2>7. F[s].num = 0 <=> \A y \in s : w[y] = 0
        BY <2>1, <2>3, <2>6
    <2> QED
        BY <2>4, <2>5, <2>6, <2>7
<1>5. SUBSET D \subseteq Good
    <2> HIDE DEF Good
    <2> QED
        BY <1>3, <1>4, SubsetsByFirst
<1>6. D \in Good
    BY <1>5
<1> QED
    BY <1>2, <1>6 DEF f

-------------------------------------------------------------------------------
(* What rounding loses *)

\* r hundredths are q but for n halves of a hundredth.
Near(q, r, n) ==
    -(n * q.den) <= 2 * r * q.den - 200 * q.num /\ 2 * r * q.den - 200 * q.num <= n * q.den

LEMMA RoundedIsNear ==
    ASSUME NEW q \in Fractions, NEW r \in Int, Rounded(q, r)
    PROVE  Near(q, r, 1)
<1>1. q.num \in Nat /\ q.den \in Nat
    BY DEF Fractions
<1>2. (2 * r - 1) * q.den = 2 * r * q.den - q.den /\ (2 * r + 1) * q.den = 2 * r * q.den + q.den
    BY <1>1
<1>3. 2 * r * q.den \in Int
    BY <1>1
<1> QED
    BY <1>1, <1>2, <1>3 DEF Rounded, Near

\* Near of a/b carries over to the same c/d.
LEMMA NearSame ==
    ASSUME NEW p \in Fractions, NEW q \in Fractions, NEW r \in Int, NEW n \in Nat,
           Same(p, q), Near(p, r, n)
    PROVE  Near(q, r, n)
<1>1. /\ p.num \in Nat /\ p.den \in Nat \ {0} /\ q.num \in Nat /\ q.den \in Nat \ {0}
    BY DEF Fractions
<1> DEFINE e == 2 * r * p.den - 200 * p.num
           d == 2 * r * q.den - 200 * q.num
<1>2. e \in Int /\ d \in Int /\ n * p.den \in Int /\ n * q.den \in Int
    BY <1>1
<1>3. e * q.den = d * p.den
    <2>1. p.num * q.den = q.num * p.den
        BY DEF Same
    <2>2. e * q.den = 2 * r * p.den * q.den - 200 * (p.num * q.den)
        BY <1>1
    <2>3. d * p.den = 2 * r * p.den * q.den - 200 * (q.num * p.den)
        BY <1>1
    <2> QED
        BY <2>1, <2>2, <2>3
<1>4. -(n * p.den) <= e /\ e <= n * p.den
    BY DEF Near
<1> HIDE DEF e, d
<1>5. (-(n * p.den)) * q.den <= e * q.den /\ e * q.den <= (n * p.den) * q.den
    <2>1. -(n * p.den) \in Int
        BY <1>2
    <2> QED
        BY <1>1, <1>2, <1>4, <2>1, Scale
<1>6. (-(n * p.den)) * q.den = (-(n * q.den)) * p.den /\ (n * p.den) * q.den = (n * q.den) * p.den
    BY <1>1
<1>7. (-(n * q.den)) * p.den <= d * p.den /\ d * p.den <= (n * q.den) * p.den
    BY <1>3, <1>5, <1>6
<1>8. -(n * q.den) <= d /\ d <= n * q.den
    <2>1. -(n * q.den) \in Int
        BY <1>2
    <2> QED
        BY <1>1, <1>2, <1>7, <2>1, Cancel
<1> QED
    BY <1>8 DEF Near, d

LEMMA NearSum ==
    ASSUME NEW p \in Fractions, NEW q \in Fractions, NEW r \in Int, NEW t \in Int,
           NEW m \in Nat, NEW n \in Nat, Near(p, r, m), Near(q, t, n)
    PROVE  Near(Plus(p, q), r + t, m + n)
<1>1. /\ p.num \in Nat /\ p.den \in Nat \ {0} /\ q.num \in Nat /\ q.den \in Nat \ {0}
    BY DEF Fractions
<1> DEFINE e == 2 * r * p.den - 200 * p.num
           d == 2 * t * q.den - 200 * q.num
<1>2. e \in Int /\ d \in Int /\ m * p.den \in Int /\ n * q.den \in Int
    BY <1>1
<1>3. /\ -(m * p.den) <= e /\ e <= m * p.den
      /\ -(n * q.den) <= d /\ d <= n * q.den
    BY DEF Near
<1>4. 2 * (r + t) * (p.den * q.den) - 200 * (p.num * q.den + q.num * p.den)
        = e * q.den + d * p.den
    BY <1>1
<1> HIDE DEF e, d
<1>5. /\ (-(m * p.den)) * q.den <= e * q.den /\ e * q.den <= (m * p.den) * q.den
      /\ (-(n * q.den)) * p.den <= d * p.den /\ d * p.den <= (n * q.den) * p.den
    <2>1. -(m * p.den) \in Int /\ -(n * q.den) \in Int
        BY <1>2
    <2> QED
        BY <1>1, <1>2, <1>3, <2>1, Scale
<1>6. /\ (m + n) * (p.den * q.den) = (m * p.den) * q.den + (n * q.den) * p.den
      /\ -((m + n) * (p.den * q.den)) = (-(m * p.den)) * q.den + (-(n * q.den)) * p.den
    BY <1>1
<1>7. /\ e * q.den \in Int /\ d * p.den \in Int
      /\ (m * p.den) * q.den \in Int /\ (n * q.den) * p.den \in Int
      /\ (-(m * p.den)) * q.den \in Int /\ (-(n * q.den)) * p.den \in Int
    BY <1>1, <1>2
<1>8. Near(Sum(p, q), r + t, m + n)
    <2>1. /\ -((m + n) * (p.den * q.den)) <= e * q.den + d * p.den
          /\ e * q.den + d * p.den <= (m + n) * (p.den * q.den)
        BY <1>5, <1>6, <1>7
    <2> QED
        BY <1>4, <2>1 DEF Near, Sum
<1>9. /\ Sum(p, q) \in Fractions /\ Plus(p, q) \in Fractions
      /\ Same(Sum(p, q), Plus(p, q)) /\ r + t \in Int /\ m + n \in Nat
    BY Values, SameIsBoth
<1> QED
    BY <1>8, <1>9, NearSame

\* Two numbers of hundredths near one fraction.
LEMMA NearBoth ==
    ASSUME NEW q \in Fractions, NEW r \in Int, NEW t \in Int, NEW m \in Nat, NEW n \in Nat,
           Near(q, r, m), Near(q, t, n)
    PROVE  2 * (r - t) \in -(m + n)..(m + n)
<1>1. q.num \in Nat /\ q.den \in Nat \ {0}
    BY DEF Fractions
<1>2. (2 * (r - t)) * q.den = (2 * r * q.den - 200 * q.num) - (2 * t * q.den - 200 * q.num)
    BY <1>1
<1>3. /\ (m + n) * q.den = m * q.den + n * q.den
      /\ (-(m + n)) * q.den = -(m * q.den) - n * q.den
    BY <1>1
<1>4. /\ 2 * r * q.den - 200 * q.num \in Int /\ 2 * t * q.den - 200 * q.num \in Int
      /\ m * q.den \in Int /\ n * q.den \in Int
    BY <1>1
<1>5. /\ (-(m + n)) * q.den <= (2 * (r - t)) * q.den
      /\ (2 * (r - t)) * q.den <= (m + n) * q.den
    BY <1>2, <1>3, <1>4 DEF Near
<1>6. -(m + n) \in Int /\ 2 * (r - t) \in Int /\ m + n \in Int
    OBVIOUS
<1>7. -(m + n) <= 2 * (r - t) /\ 2 * (r - t) <= m + n
    BY <1>1, <1>5, <1>6, Cancel
<1> QED
    BY <1>6, <1>7

\* a/b of q, rounded from q and not from what q was rounded to.
LEMMA NearShare ==
    ASSUME NEW q \in Fractions, NEW r \in Int, NEW t \in Int, NEW p \in Fractions,
           NEW a \in Nat, NEW b \in Nat \ {0},
           Same(p, [num |-> q.num * a, den |-> q.den * b]), Near(q, r, 1), Near(p, t, 1)
    PROVE  2 * (b * t - a * r) \in -(b + a)..(b + a)
<1>1. q.num \in Nat /\ q.den \in Nat \ {0}
    BY DEF Fractions
<1> DEFINE w == [num |-> q.num * a, den |-> q.den * b]
<1>2. w \in Fractions
    BY <1>1, Positive DEF Fractions
<1>3. Near(w, t, 1)
    BY <1>2, NearSame
<1>4. /\ -(q.den * b) <= 2 * t * (q.den * b) - 200 * (q.num * a)
      /\ 2 * t * (q.den * b) - 200 * (q.num * a) <= q.den * b
    <2>1. w.num = q.num * a /\ w.den = q.den * b /\ 1 * w.den = q.den * b
        BY <1>1
    <2> HIDE DEF w
    <2>2. -(1 * w.den) <= 2 * t * w.den - 200 * w.num /\ 2 * t * w.den - 200 * w.num <= 1 * w.den
        BY <1>3 DEF Near
    <2> QED
        BY <2>1, <2>2
<1> DEFINE e == 2 * r * q.den - 200 * q.num
           d == 2 * t * (q.den * b) - 200 * (q.num * a)
<1>5. e \in Int /\ d \in Int /\ q.den * b \in Int /\ -(q.den) \in Int /\ q.den \in Int
    BY <1>1
<1>6. -(q.den) <= e /\ e <= q.den
    BY <1>1 DEF Near
<1>7. (2 * (b * t - a * r)) * q.den = d - e * a
    BY <1>1
<1>8. -(q.den * b) <= d /\ d <= q.den * b
    BY <1>4
<1> HIDE DEF e, d
<1>9. (-(q.den)) * a <= e * a /\ e * a <= q.den * a
    BY <1>5, <1>6, Scale
<1>10. /\ (b + a) * q.den = q.den * b + q.den * a
       /\ (-(b + a)) * q.den = -(q.den * b) - q.den * a
       /\ (-(q.den)) * a = -(q.den * a)
    BY <1>1
<1>11. e * a \in Int /\ q.den * a \in Int
    BY <1>5
<1>12. /\ (-(b + a)) * q.den <= (2 * (b * t - a * r)) * q.den
       /\ (2 * (b * t - a * r)) * q.den <= (b + a) * q.den
    BY <1>5, <1>7, <1>8, <1>9, <1>10, <1>11
<1>13. -(b + a) \in Int /\ 2 * (b * t - a * r) \in Int /\ b + a \in Int
    OBVIOUS
<1>14. -(b + a) <= 2 * (b * t - a * r) /\ 2 * (b * t - a * r) <= b + a
    BY <1>1, <1>12, <1>13, Cancel
<1> QED
    BY <1>13, <1>14

\* The sums on the way of a fold of +.
NumbersFrom(f) ==
    CHOOSE it : it = [s \in SUBSET DOMAIN f |->
        IF s = {} THEN 0 ELSE f[First(s)] + it[s \ {First(s)}]]

AddsUp(it, D, f) ==
    /\ Total(f) = it[D] /\ it[{}] = 0 /\ it \in [SUBSET D -> Int]
    /\ \A s \in SUBSET D : s # {} => it[s] = f[First(s)] + it[s \ {First(s)}]

LEMMA NumberSteps ==
    ASSUME NEW D, IsFiniteSet(D), NEW f \in [D -> Int]
    PROVE  AddsUp(NumbersFrom(f), D, f)
<1> DEFINE add == [v \in Int \X Int |-> v[1] + v[2]]
<1>1. add \in [Int \X Int -> Int]
    OBVIOUS
<1>2. PICK it \in [SUBSET D -> Int] : \A s \in SUBSET D :
        it[s] = IF s = {} THEN 0 ELSE add[<<f[First(s)], it[s \ {First(s)}]>>]
    <2> DEFINE V == Int
    <2>1. add \in [V \X V -> V] /\ 0 \in V /\ f \in [D -> V]
        BY <1>1
    <2> HIDE DEF add, V
    <2>2. \E it \in [SUBSET D -> V] : IsFold(it, D, 0, f, add)
        BY <2>1, FoldExists
    <2> QED
        BY <2>2 DEF V, IsFold
<1>3. ASSUME NEW s \in SUBSET D, s # {}
      PROVE  it[s] = f[First(s)] + it[s \ {First(s)}]
    <2>1. First(s) \in D
        BY <1>3 DEF First
    <2>2. f[First(s)] \in Int /\ it[s \ {First(s)}] \in Int
        BY <2>1
    <2> QED
        BY <1>2, <1>3, <2>2
<1>4. it = [s \in SUBSET D |->
        IF s = {} THEN 0 ELSE f[First(s)] + it[s \ {First(s)}]]
    <2>1. it = [s \in SUBSET D |-> it[s]]
        OBVIOUS
    <2> HIDE DEF add
    <2> QED
        BY <1>2, <1>3, <2>1
<1>5. NumbersFrom(f) = [s \in SUBSET D |->
        IF s = {} THEN 0 ELSE f[First(s)] + NumbersFrom(f)[s \ {First(s)}]]
    <2>1. DOMAIN f = D
        OBVIOUS
    <2> QED
        BY <1>4, <2>1 DEF NumbersFrom
<1>6. Total(f) = NumbersFrom(f)[D]
    BY DEF NumbersFrom, Total, FoldFunction, FoldFunctionOnSet, MapThenFoldSet, First
<1> DEFINE N == NumbersFrom(f)
           Good == {s \in SUBSET D : N[s] \in Int}
<1> HIDE DEF N
<1>7. N[{}] = 0 /\ \A s \in SUBSET D : s # {} => N[s] = f[First(s)] + N[s \ {First(s)}]
    BY <1>5 DEF N
<1>8. {} \in Good
    BY <1>7
<1>9. ASSUME NEW s \in SUBSET D, s # {}, s \ {First(s)} \in Good
      PROVE  s \in Good
    <2>1. First(s) \in D
        BY <1>9, FirstLaws
    <2>2. f[First(s)] \in Int /\ N[s \ {First(s)}] \in Int
        BY <1>9, <2>1
    <2> QED
        BY <1>7, <1>9, <2>2
<1>10. SUBSET D \subseteq Good
    <2> HIDE DEF Good
    <2> QED
        BY <1>8, <1>9, SubsetsByFirst
<1>11. N \in [SUBSET D -> Int]
    <2>1. N = [s \in SUBSET D |-> IF s = {} THEN 0 ELSE f[First(s)] + N[s \ {First(s)}]]
        BY <1>5 DEF N
    <2>2. N = [s \in SUBSET D |-> N[s]]
        BY <1>7, <2>1
    <2> QED
        BY <1>10, <2>2
<1> QED
    BY <1>6, <1>7, <1>11 DEF N, AddsUp

\* Terms rounded one by one are as many halves off.
LEMMA RoundedTerms ==
    ASSUME NEW D, IsFiniteSet(D), NEW f \in [D -> Fractions], NEW r \in [D -> Int],
           \A x \in D : Near(f[x], r[x], 1)
    PROVE  /\ Total(r) \in Int /\ Cardinality(D) \in Nat
           /\ Near(SumOf(f), Total(r), Cardinality(D))
<1> DEFINE F == SumFrom(f)
           R == NumbersFrom(r)
           Good == {s \in SUBSET D : Near(F[s], R[s], Cardinality(s))}
<1> HIDE DEF F, R
<1>1. F[{}] = Zero /\ SumOf(f) = F[D]
    BY SumSteps DEF F
<1>2. /\ Total(r) = R[D] /\ R[{}] = 0 /\ R \in [SUBSET D -> Int]
      /\ \A s \in SUBSET D : s # {} => R[s] = r[First(s)] + R[s \ {First(s)}]
    <2>1. AddsUp(NumbersFrom(r), D, r)
        BY NumberSteps
    <2> QED
        BY <2>1 DEF R, AddsUp
<1>3. {} \in Good
    <2>1. Cardinality({}) = 0
        BY FS_EmptySet
    <2>2. Near(Zero, 0, 0)
        BY ZeroValue DEF Near
    <2> QED
        BY <1>1, <1>2, <2>1, <2>2
<1>4. ASSUME NEW s \in SUBSET D, s # {}, s \ {First(s)} \in Good
      PROVE  s \in Good
    <2> DEFINE x == First(s)
               t == s \ {First(s)}
               n == Cardinality(t)
    <2>1. x \in D /\ n \in Nat /\ Cardinality(s) = n + 1 /\ t \in SUBSET D
        BY <1>4, FirstLaws
    <2>2. f[x] \in Fractions /\ F[t] \in Fractions /\ F[s] = Plus(f[x], F[t])
        BY <1>4, SumOneMore DEF F
    <2>3. R[s] = r[x] + R[t]
        BY <1>2, <1>4
    <2>4. Near(f[x], r[x], 1) /\ Near(F[t], R[t], n)
        BY <1>4, <2>1
    <2> HIDE DEF x, t, n
    <2>5. r[x] \in Int /\ R[t] \in Int
        BY <1>2, <2>1
    <2>6. Near(Plus(f[x], F[t]), r[x] + R[t], 1 + n)
        BY <2>1, <2>2, <2>4, <2>5, NearSum
    <2>7. Cardinality(s) = 1 + n
        BY <2>1
    <2> QED
        BY <2>2, <2>3, <2>6, <2>7
<1>5. SUBSET D \subseteq Good
    <2> HIDE DEF Good
    <2> QED
        BY <1>3, <1>4, SubsetsByFirst
<1>6. D \in Good /\ R[D] \in Int
    BY <1>2, <1>5
<1> QED
    BY <1>1, <1>2, <1>6, FS_CardinalityType

-------------------------------------------------------------------------------
(* The evaluation, from what it is calculated from *)

IsInput(e) ==
    /\ IsFiniteSet(e.categories)
    /\ \A c \in e.categories : c.weight \in Nat
    /\ e.maxima \in [Items -> Nat]
    /\ e.grade \in [Items -> Nat \cup {None}]
    /\ e.blended \in Fractions \cup {None}

EvaluationOf(e) == Evaluation(e.categories, e.assigned, e.maxima, e.grade, e.blended)

ScoreIn(e, c) == CategoryScore(c, e.assigned, e.maxima, e.grade, e.blended)

\* The items the score of a category is the mean of.
ScoredItems(e, c) == {i \in Graded(c, e.assigned, e.grade) : e.maxima[i] > 0}

ItemScores(e, c) == [i \in ScoredItems(e, c) |-> Fraction(100 * e.grade[i], e.maxima[i])]

Evaluated(e) == {c \in e.categories : ScoreIn(e, c) # None}

Contributions(e) ==
    [c \in Evaluated(e) |-> Times(ScoreIn(e, c), Fraction(c.weight, 10000))]

Points(e) == SumOf(Contributions(e))

Weights(e) == [c \in Evaluated(e) |-> c.weight]

Weight(e) == SumOf([c \in Evaluated(e) |-> Fraction(Weights(e)[c], 1)])

Current(e) == Times(Points(e), Fraction(10000, Weight(e).num))

LEMMA NoFraction == None \notin Fractions /\ None \notin Int
<1>1. Fractions \subseteq [num : Int, den : Int]
    BY DEF Fractions
<1> QED
    BY <1>1, NoneAssumption

LEMMA ItemScoresLaws ==
    ASSUME NEW e, IsInput(e), NEW c
    PROVE  /\ ScoredItems(e, c) \subseteq Items /\ IsFiniteSet(ScoredItems(e, c))
           /\ \A i \in ScoredItems(e, c) : e.grade[i] \in Nat /\ e.maxima[i] \in Nat \ {0}
           /\ ItemScores(e, c) \in [ScoredItems(e, c) -> Fractions]
           /\ Cardinality(ScoredItems(e, c)) \in Nat
           /\ ScoredItems(e, c) # {} => Cardinality(ScoredItems(e, c)) # 0
<1>1. ScoredItems(e, c) \subseteq Items
    BY DEF ScoredItems, Graded, Counted
<1>2. IsFiniteSet(ScoredItems(e, c))
    BY <1>1, ItemsAssumption, FS_Subset
<1>3. \A i \in ScoredItems(e, c) : e.grade[i] \in Nat /\ e.maxima[i] \in Nat \ {0}
    BY <1>1 DEF ScoredItems, Graded, IsInput
<1>4. \A i \in ScoredItems(e, c) : Fraction(100 * e.grade[i], e.maxima[i]) \in Fractions
    BY <1>3, FractionValue
<1> QED
    BY <1>1, <1>2, <1>3, <1>4, FS_CardinalityType, FS_EmptySet DEF ItemScores

LEMMA ScoreLaws ==
    ASSUME NEW e, IsInput(e), NEW c \in e.categories
    PROVE  /\ c.blend => ScoreIn(e, c) = e.blended
           /\ ~c.blend => ScoreIn(e, c) =
                IF ScoredItems(e, c) = {} THEN None
                ELSE Times(SumOf(ItemScores(e, c)),
                           Fraction(1, Cardinality(ScoredItems(e, c))))
           /\ ~c.blend => (ScoreIn(e, c) = None <=> ScoredItems(e, c) = {})
           /\ ScoreIn(e, c) \in Fractions \cup {None}
<1>1. CASE c.blend
    BY <1>1 DEF ScoreIn, CategoryScore, IsInput
<1>2. CASE ~c.blend
    <2> DEFINE S == {i \in Graded(c, e.assigned, e.grade) :
                        NormalizeScore(e.grade[i], e.maxima[i]) # None}
    <2>1. ASSUME NEW i \in Graded(c, e.assigned, e.grade)
          PROVE  /\ e.maxima[i] > 0 => /\ NormalizeScore(e.grade[i], e.maxima[i])
                                            = Fraction(100 * e.grade[i], e.maxima[i])
                                       /\ NormalizeScore(e.grade[i], e.maxima[i]) # None
                 /\ ~(e.maxima[i] > 0) => NormalizeScore(e.grade[i], e.maxima[i]) = None
        <3>1. i \in Items /\ e.grade[i] # None
            BY DEF Graded, Counted
        <3>2. e.maxima[i] \in Nat
            BY <3>1 DEF IsInput
        <3>3. e.maxima[i] > 0 => i \in ScoredItems(e, c)
            BY DEF ScoredItems
        <3>4. e.maxima[i] > 0 => Fraction(100 * e.grade[i], e.maxima[i]) # None
            BY <3>3, ItemScoresLaws, NoFraction, FractionValue
        <3> QED
            BY <3>1, <3>2, <3>4 DEF NormalizeScore
    <2>2. S = ScoredItems(e, c)
        BY <2>1 DEF ScoredItems
    <2>3. [i \in S |-> NormalizeScore(e.grade[i], e.maxima[i])] = ItemScores(e, c)
        <3>1. \A i \in ScoredItems(e, c) :
                NormalizeScore(e.grade[i], e.maxima[i]) = Fraction(100 * e.grade[i], e.maxima[i])
            BY <2>1 DEF ScoredItems
        <3> QED
            BY <2>2, <3>1 DEF ItemScores
    <2>4. ScoreIn(e, c) =
            IF S = {} THEN None
            ELSE Times(SumOf([i \in S |-> NormalizeScore(e.grade[i], e.maxima[i])]),
                       Fraction(1, Cardinality(S)))
        BY <1>2 DEF ScoreIn, CategoryScore
    <2>5. ScoreIn(e, c) = IF ScoredItems(e, c) = {} THEN None
                          ELSE Times(SumOf(ItemScores(e, c)),
                                     Fraction(1, Cardinality(ScoredItems(e, c))))
        <3> HIDE DEF S
        <3> QED
            BY <2>2, <2>3, <2>4 DEF S
    <2>6. ScoredItems(e, c) # {} =>
            Times(SumOf(ItemScores(e, c)), Fraction(1, Cardinality(ScoredItems(e, c))))
                \in Fractions
        <3>1. SumOf(ItemScores(e, c)) \in Fractions
            BY ItemScoresLaws, SumsAreFractions
        <3>2. ScoredItems(e, c) # {} => Fraction(1, Cardinality(ScoredItems(e, c))) \in Fractions
            BY ItemScoresLaws, FractionValue
        <3> QED
            BY <3>1, <3>2, Values
    <2> HIDE DEF S
    <2> QED
        BY <1>2, <2>5, <2>6, NoFraction
<1> QED
    BY <1>1, <1>2 DEF IsInput

\* The sums of an evaluation.
LEMMA EvaluationLaws ==
    ASSUME NEW e, IsInput(e)
    PROVE  /\ IsFiniteSet(Evaluated(e)) /\ Evaluated(e) \subseteq e.categories
           /\ \A c \in Evaluated(e) : /\ ScoreIn(e, c) \in Fractions /\ c.weight \in Nat
                                      /\ Fraction(c.weight, 10000) \in Fractions
           /\ Contributions(e) \in [Evaluated(e) -> Fractions]
           /\ Weights(e) \in [Evaluated(e) -> Nat]
           /\ [c \in Evaluated(e) |-> Fraction(c.weight, 1)]
                = [c \in Evaluated(e) |-> Fraction(Weights(e)[c], 1)]
           /\ [c \in Evaluated(e) |-> Fraction(Weights(e)[c], 1)]
                \in [Evaluated(e) -> Fractions]
           /\ Points(e) \in Fractions /\ Weight(e) \in Fractions
           /\ Weight(e).num \in Nat /\ Weight(e) = Fraction(Weight(e).num, 1)
           /\ Weight(e).num = 0 <=> Weight(e) = Zero
           /\ Weight(e).num = 0 <=> \A c \in Evaluated(e) : c.weight = 0
           /\ Weight(e).num # 0 => Current(e) \in Fractions
<1>1. IsFiniteSet(Evaluated(e)) /\ Evaluated(e) \subseteq e.categories
    BY FS_Subset DEF Evaluated, IsInput
<1>2. \A c \in Evaluated(e) : /\ ScoreIn(e, c) \in Fractions /\ c.weight \in Nat
                              /\ Fraction(c.weight, 10000) \in Fractions
    BY <1>1, ScoreLaws, FractionValue DEF Evaluated, IsInput
<1>3. Contributions(e) \in [Evaluated(e) -> Fractions]
    <2>1. \A c \in Evaluated(e) : Times(ScoreIn(e, c), Fraction(c.weight, 10000)) \in Fractions
        BY <1>2, Values
    <2> QED
        BY <2>1 DEF Contributions
<1>4. /\ Weights(e) \in [Evaluated(e) -> Nat]
      /\ \A c \in Evaluated(e) : Weights(e)[c] = c.weight
    BY <1>2 DEF Weights
<1>5. Points(e) \in Fractions
    BY <1>1, <1>3, SumsAreFractions DEF Points
<1>6. /\ Weight(e).num \in Nat /\ Weight(e) = Fraction(Weight(e).num, 1)
      /\ Weight(e).num = 0 <=> \A c \in Evaluated(e) : Weights(e)[c] = 0
    BY <1>1, <1>4, SumOfWhole DEF Weight
<1>7. [c \in Evaluated(e) |-> Fraction(Weights(e)[c], 1)] \in [Evaluated(e) -> Fractions]
    BY <1>4, FractionValue
<1>8. Weight(e).num = 0 <=> Weight(e) = Zero
    BY <1>6, ZeroValue DEF Zero
<1>9. Weight(e) \in Fractions
    BY <1>6, FractionValue
<1>10. Weight(e).num # 0 => Current(e) \in Fractions
    BY <1>5, <1>6, FractionValue, Values DEF Current
<1> QED
    BY <1>1, <1>2, <1>3, <1>4, <1>5, <1>6, <1>7, <1>8, <1>9, <1>10

\* The figures of an answer.
LEMMA FiguresOf ==
    ASSUME NEW e, IsInput(e)
    PROVE  /\ EvaluationOf(e).points = Round2(Points(e))
           /\ EvaluationOf(e).weight = Weight(e).num
           /\ EvaluationOf(e).current =
                IF Weight(e).num = 0 THEN None ELSE Round2(Current(e))
           /\ EvaluationOf(e).outOfTen =
                IF Weight(e).num = 0 THEN None
                ELSE Round2(Times(Current(e), Fraction(1, 10)))
           /\ DOMAIN EvaluationOf(e).results = e.categories
           /\ \A c \in e.categories :
                /\ EvaluationOf(e).results[c].score = Round2OrNone(ScoreIn(e, c))
                /\ EvaluationOf(e).results[c].contribution =
                    IF c \in Evaluated(e) THEN Round2(Contributions(e)[c]) ELSE None
<1> DEFINE score == [c \in e.categories |-> ScoreIn(e, c)]
           evaluated == {c \in e.categories : score[c] # None}
           contribution == [c \in evaluated |-> Times(score[c], Fraction(c.weight, 10000))]
           points == SumOf(contribution)
           weight == SumOf([c \in evaluated |-> Fraction(c.weight, 1)])
           current == IF weight = Zero THEN None ELSE Times(points, Fraction(10000, weight.num))
           outOfTen == IF current = None THEN None ELSE Times(current, Fraction(1, 10))
           results == [c \in e.categories |->
            [score |-> Round2OrNone(score[c]),
             contribution |-> IF c \in evaluated THEN Round2(contribution[c]) ELSE None,
             counted |-> Cardinality(Counted(c, e.assigned)),
             graded |-> Cardinality(Graded(c, e.assigned, e.grade))]]
<1>1. EvaluationOf(e) =
        [points |-> Round2(points), weight |-> weight.num,
         current |-> Round2OrNone(current), outOfTen |-> Round2OrNone(outOfTen),
         results |-> results]
    BY DEF EvaluationOf, Evaluation, ScoreIn
<1>2. evaluated = Evaluated(e)
    BY DEF Evaluated
<1>3. contribution = Contributions(e)
    BY <1>2 DEF Contributions, Evaluated
<1>4. weight = Weight(e)
    <2>1. [c \in Evaluated(e) |-> Fraction(c.weight, 1)]
            = [c \in Evaluated(e) |-> Fraction(Weights(e)[c], 1)]
        BY EvaluationLaws
    <2> HIDE DEF evaluated
    <2>2. [c \in evaluated |-> Fraction(c.weight, 1)]
            = [c \in Evaluated(e) |-> Fraction(c.weight, 1)]
        BY <1>2
    <2> QED
        BY <2>1, <2>2 DEF Weight
<1> HIDE DEF weight, contribution, evaluated
<1>5. points = Points(e)
    BY <1>3 DEF Points
<1>6. current = IF Weight(e).num = 0 THEN None ELSE Current(e)
    BY <1>4, <1>5, EvaluationLaws DEF Current
<1> HIDE DEF points, current
<1>7. outOfTen = IF Weight(e).num = 0 THEN None ELSE Times(Current(e), Fraction(1, 10))
    BY <1>6, EvaluationLaws, NoFraction
<1>8. Weight(e).num # 0 =>
        Times(Current(e), Fraction(1, 10)) \in Fractions /\ Current(e) \in Fractions
    BY EvaluationLaws, FractionValue, Values
<1> HIDE DEF outOfTen
<1>9. /\ Round2OrNone(current) = IF Weight(e).num = 0 THEN None ELSE Round2(Current(e))
      /\ Round2OrNone(outOfTen) = IF Weight(e).num = 0 THEN None
                                  ELSE Round2(Times(Current(e), Fraction(1, 10)))
    BY <1>6, <1>7, <1>8, NoFraction DEF Round2OrNone
<1>10. /\ DOMAIN results = e.categories
       /\ \A c \in e.categories :
            /\ results[c].score = Round2OrNone(ScoreIn(e, c))
            /\ results[c].contribution =
                IF c \in Evaluated(e) THEN Round2(Contributions(e)[c]) ELSE None
    BY <1>2, <1>3
<1> HIDE DEF results, score
<1> QED
    BY <1>1, <1>4, <1>5, <1>9, <1>10

-------------------------------------------------------------------------------
(* What the figures of one answer have to do with one another *)

Raw(m, n) == [num |-> m, den |-> n]

LEMMA RawLaws ==
    ASSUME NEW m \in Nat, NEW n \in Nat \ {0}
    PROVE  /\ Raw(m, n) \in Fractions /\ Fraction(m, n) \in Fractions
           /\ Same(Fraction(m, n), Raw(m, n))
           /\ Raw(m, n).num = m /\ Raw(m, n).den = n
BY FractionValue DEF Raw, Same, Fractions

LEMMA TimesAs ==
    ASSUME NEW p \in Fractions, NEW q \in Fractions, NEW r \in Fractions,
           NEW s \in Fractions, Same(p, r), Same(q, s)
    PROVE  Same(Times(p, q), Product(r, s)) /\ Product(r, s) \in Fractions
<1>1. /\ Times(p, q) \in Fractions /\ Times(r, s) \in Fractions /\ Product(r, s) \in Fractions
      /\ Same(Times(r, s), Product(r, s))
    BY Values
<1>2. Same(Times(p, q), Times(r, s))
    BY SameArguments
<1> QED
    BY <1>1, <1>2, SameTransitive

LEMMA ShareAs ==
    ASSUME NEW p \in Fractions, NEW a \in Nat, NEW b \in Nat \ {0}
    PROVE  /\ Times(p, Fraction(a, b)) \in Fractions
           /\ Same(Times(p, Fraction(a, b)), [num |-> p.num * a, den |-> p.den * b])
<1>1. /\ Raw(a, b) \in Fractions /\ Fraction(a, b) \in Fractions
      /\ Same(Fraction(a, b), Raw(a, b)) /\ Same(p, p)
    BY RawLaws, SameIsBoth
<1>2. Same(Times(p, Fraction(a, b)), Product(p, Raw(a, b)))
    BY <1>1, TimesAs
<1>3. Times(p, Fraction(a, b)) \in Fractions
    BY <1>1, Values
<1> QED
    BY <1>2, <1>3 DEF Product, Raw

LEMMA TimesNothing ==
    ASSUME NEW p \in Fractions, NEW n \in Nat \ {0}
    PROVE  Same(Times(p, Fraction(0, n)), Zero)
<1>1. Same(Times(p, Fraction(0, n)), [num |-> p.num * 0, den |-> p.den * n])
    BY ShareAs
<1>2. p.num * 0 = 0 /\ p.den * n \in Nat \ {0}
    BY Positive DEF Fractions
<1>3. [num |-> 0, den |-> p.den * n] \in Fractions
    BY <1>2 DEF Fractions
<1>4. Same([num |-> 0, den |-> p.den * n], Zero)
    BY <1>2, ZeroValue DEF Same
<1>5. Times(p, Fraction(0, n)) \in Fractions /\ Zero \in Fractions
    <2>1. Times(p, Fraction(0, n)) \in Fractions
        BY ShareAs
    <2> QED
        BY <2>1, ZeroValue
<1> QED
    BY <1>1, <1>2, <1>3, <1>4, <1>5, SameTransitive

\* If every category had the current grade for a score, the points were the same.
Levelled(e) == [c \in Evaluated(e) |-> Times(Current(e), Fraction(c.weight, 10000))]

LEMMA LevelledIsPoints ==
    ASSUME NEW e, IsInput(e), Weight(e).num # 0
    PROVE  /\ Levelled(e) \in [Evaluated(e) -> Fractions]
           /\ Same(SumOf(Levelled(e)), Points(e))
<1> DEFINE D == Evaluated(e)
           f == [c \in D |-> Fraction(c.weight, 1)]
           g == [c \in D |-> Fraction(c.weight, 10000)]
           h == Levelled(e)
           k == Fraction(1, 10000)
           cur == Current(e)
           n == Weight(e).num
           P == Points(e)
<1>1. /\ IsFiniteSet(D) /\ \A c \in D : c.weight \in Nat
      /\ cur \in Fractions /\ P \in Fractions /\ n \in Nat \ {0}
      /\ Weight(e) = Fraction(n, 1)
    BY EvaluationLaws
<1>2. f = [c \in D |-> Fraction(Weights(e)[c], 1)]
    BY EvaluationLaws
<1>3. SumOf(f) = Fraction(n, 1) /\ SumOf(f) \in Fractions
    BY <1>1, <1>2, EvaluationLaws DEF Weight
<1>4. cur = Times(P, Fraction(10000, n))
    BY DEF Current
<1> HIDE DEF D, n, P, cur, k
<1>5. k \in Fractions /\ Same(k, Raw(1, 10000)) /\ Raw(1, 10000) \in Fractions
    BY RawLaws DEF k
<1>6. ASSUME NEW c \in D
      PROVE  /\ f[c] \in Fractions /\ g[c] \in Fractions /\ h[c] \in Fractions
             /\ Same(g[c], Times(f[c], k))
             /\ Same(h[c], Times(g[c], cur))
    <2> DEFINE w == c.weight
    <2>1. w \in Nat
        BY <1>1
    <2> HIDE DEF w
    <2>2. /\ Fraction(w, 1) \in Fractions /\ Fraction(w, 10000) \in Fractions
          /\ Raw(w, 10000) \in Fractions /\ Same(Fraction(w, 10000), Raw(w, 10000))
        BY <2>1, RawLaws
    <2>3. f[c] = Fraction(w, 1) /\ g[c] = Fraction(w, 10000) /\ h[c] = Times(cur, g[c])
        BY <1>6 DEF w, Levelled, cur, D
    <2>4. Same(h[c], Times(g[c], cur)) /\ h[c] \in Fractions
        BY <1>1, <2>2, <2>3, Commute, Values
    <2>5. /\ Times(Fraction(w, 1), k) \in Fractions
          /\ Same(Times(Fraction(w, 1), k), Raw(w, 10000))
        <3>1. Fraction(w, 1).num = w /\ Fraction(w, 1).den = 1
            BY <2>1, WholeFraction
        <3>2. w * 1 = w /\ 1 * 10000 = 10000
            BY <2>1
        <3> QED
            BY <2>2, <3>1, <3>2, ShareAs DEF k, Raw
    <2>6. Same(Raw(w, 10000), Times(Fraction(w, 1), k))
        BY <2>2, <2>5, SameIsBoth
    <2>7. Same(g[c], Times(f[c], k))
        BY <2>2, <2>3, <2>5, <2>6, SameTransitive
    <2> QED
        BY <2>2, <2>3, <2>4, <2>7
<1>7. f \in [D -> Fractions] /\ g \in [D -> Fractions] /\ h \in [D -> Fractions]
    <2>1. h = [c \in D |-> h[c]]
        BY DEF Levelled, D
    <2> HIDE DEF h
    <2> QED
        BY <1>6, <2>1
<1> HIDE DEF f, g, h
<1>8. Same(SumOf(g), Times(SumOf(f), k)) /\ Same(SumOf(h), Times(SumOf(g), cur))
    BY <1>1, <1>5, <1>6, <1>7, SumScaled
<1>9. SumOf(g) \in Fractions /\ SumOf(h) \in Fractions /\ SumOf(f) \in Fractions
    BY <1>1, <1>7, SumsAreFractions
<1>10. Same(SumOf(g), Raw(n, 10000)) /\ Raw(n, 10000) \in Fractions
    <2>1. Fraction(n, 1).num = n /\ Fraction(n, 1).den = 1
        BY <1>1, WholeFraction
    <2>2. n * 1 = n /\ 1 * 10000 = 10000
        BY <1>1
    <2>3. Times(SumOf(f), k) \in Fractions /\ Same(Times(SumOf(f), k), Raw(n, 10000))
        BY <1>3, <2>1, <2>2, ShareAs DEF k, Raw
    <2>4. Raw(n, 10000) \in Fractions
        BY <1>1, RawLaws
    <2> QED
        BY <1>8, <1>9, <2>3, <2>4, SameTransitive
<1>11. /\ Same(cur, Raw(P.num * 10000, P.den * n))
       /\ Raw(P.num * 10000, P.den * n) \in Fractions
    <2>1. P.num * 10000 \in Nat /\ P.den * n \in Nat \ {0}
        BY <1>1, Positive DEF Fractions
    <2> QED
        BY <1>1, <1>4, <2>1, ShareAs, RawLaws DEF Raw
<1> DEFINE all == Product(Raw(n, 10000), Raw(P.num * 10000, P.den * n))
<1>12. Same(Times(SumOf(g), cur), all) /\ all \in Fractions
    BY <1>1, <1>9, <1>10, <1>11, TimesAs
<1>13. Same(all, P)
    <2>1. (n * (P.num * 10000)) * P.den = P.num * (10000 * (P.den * n))
        <3>1. P.num \in Nat /\ P.den \in Nat
            BY <1>1 DEF Fractions
        <3> QED
            BY <1>1, <3>1
    <2> QED
        BY <2>1 DEF Same, Product, Raw
<1> HIDE DEF all
<1>14. Times(SumOf(g), cur) \in Fractions
    BY <1>1, <1>9, Values
<1>15. Same(Times(SumOf(g), cur), P)
    BY <1>1, <1>12, <1>13, <1>14, SameTransitive
<1>16. Same(SumOf(h), P)
    BY <1>1, <1>8, <1>9, <1>14, <1>15, SameTransitive
<1> QED
    BY <1>7, <1>16 DEF h, D, P

\* The current grade is between the scores it is the weighted mean of.
THEOREM CurrentIsBetween ==
    ASSUME NEW e, IsInput(e), Weight(e).num # 0
    PROVE  \E c, d \in Evaluated(e) :
            /\ c.weight # 0 /\ d.weight # 0
            /\ AtMost(ScoreIn(e, c), Current(e)) /\ AtMost(Current(e), ScoreIn(e, d))
<1> DEFINE D == Evaluated(e)
           f == Contributions(e)
           g == Levelled(e)
           cur == Current(e)
           Score(c) == ScoreIn(e, c)
           Share(c) == Fraction(c.weight, 10000)
<1>1. /\ IsFiniteSet(D) /\ cur \in Fractions
      /\ \A c \in D : Score(c) \in Fractions /\ c.weight \in Nat
      /\ f \in [D -> Fractions] /\ g \in [D -> Fractions]
      /\ \A c \in D : f[c] = Times(Score(c), Share(c)) /\ g[c] = Times(cur, Share(c))
    <2>1. /\ IsFiniteSet(D) /\ cur \in Fractions
          /\ \A c \in D : Score(c) \in Fractions /\ c.weight \in Nat
          /\ f \in [D -> Fractions]
        BY EvaluationLaws
    <2>2. g \in [D -> Fractions]
        BY LevelledIsPoints
    <2>3. \A c \in D : f[c] = Times(Score(c), Share(c)) /\ g[c] = Times(cur, Share(c))
        BY DEF Contributions, Levelled
    <2> QED
        BY <2>1, <2>2, <2>3
<1>2. PICK x \in D : x.weight # 0
    BY EvaluationLaws
<1>3. /\ SumOf(f) \in Fractions /\ SumOf(g) \in Fractions
      /\ ~Less(SumOf(f), SumOf(g)) /\ ~Less(SumOf(g), SumOf(f))
    <2>1. Same(SumOf(g), SumOf(f))
        BY LevelledIsPoints DEF Points
    <2>2. SumOf(f) \in Fractions /\ SumOf(g) \in Fractions
        BY <1>1, SumsAreFractions
    <2> QED
        BY <2>1, <2>2, SameIsBoth
<1> HIDE DEF D, f, g, cur, Score
<1>4. ASSUME NEW c \in D
      PROVE  /\ Share(c) \in Fractions
             /\ c.weight # 0 => Share(c).num # 0
             /\ c.weight = 0 => Same(f[c], g[c])
    <2>1. c.weight \in Nat
        BY <1>1
    <2>2. Share(c) \in Fractions /\ Same(Share(c), Raw(c.weight, 10000))
        BY <2>1, RawLaws
    <2>3. c.weight # 0 => Share(c).num # 0
        <3>1. Share(c).num * 10000 = c.weight * Share(c).den
            BY <2>1, FractionValue
        <3>2. Share(c).num \in Nat /\ Share(c).den \in Nat \ {0}
            BY <2>2 DEF Fractions
        <3> HIDE DEF Share
        <3>3. c.weight # 0 => c.weight * Share(c).den # 0
            BY <2>1, <3>2
        <3> QED
            BY <3>1, <3>2, <3>3
    <2>4. CASE c.weight = 0
        <3>1. Same(f[c], Zero) /\ Same(g[c], Zero)
            BY <1>1, <2>4, TimesNothing
        <3>2. f[c] \in Fractions /\ g[c] \in Fractions /\ Zero \in Fractions
            BY <1>1, ZeroValue
        <3>3. Same(Zero, g[c])
            BY <3>1, <3>2, SameIsBoth
        <3> QED
            BY <2>2, <2>4, <3>1, <3>2, <3>3, SameTransitive
    <2> QED
        BY <2>2, <2>3, <2>4
<1> HIDE DEF Share
<1>5. \E c \in D : c.weight # 0 /\ AtMost(Score(c), cur)
    <2>1. SUFFICES ASSUME \A c \in D : c.weight # 0 => Less(cur, Score(c))
                   PROVE  FALSE
        BY <1>1, SameIsBoth
    <2>2. ASSUME NEW c \in D
          PROVE  /\ AtMost(g[c], f[c])
                 /\ c.weight # 0 => Less(g[c], f[c])
        <3>1. /\ Share(c) \in Fractions /\ Score(c) \in Fractions
              /\ f[c] \in Fractions /\ g[c] \in Fractions
              /\ f[c] = Times(Score(c), Share(c)) /\ g[c] = Times(cur, Share(c))
            BY <1>1, <1>4
        <3>2. CASE c.weight = 0
            BY <1>4, <3>1, <3>2, SameIsBoth
        <3>3. CASE c.weight # 0
            <4>1. Less(cur, Score(c)) /\ AtMost(cur, Score(c)) /\ AtMost(Share(c), Share(c))
                BY <1>1, <2>1, <3>1, <3>3, SameIsBoth
            <4> QED
                BY <1>1, <1>4, <3>1, <3>3, <4>1, TimesMonotone
        <3> QED
            BY <3>2, <3>3
    <2>3. Less(SumOf(g), SumOf(f))
        BY <1>1, <1>2, <2>2, SumMonotone
    <2> QED
        BY <1>3, <2>3
<1>6. \E d \in D : d.weight # 0 /\ AtMost(cur, Score(d))
    <2>1. SUFFICES ASSUME \A c \in D : c.weight # 0 => Less(Score(c), cur)
                   PROVE  FALSE
        BY <1>1, SameIsBoth
    <2>2. ASSUME NEW c \in D
          PROVE  /\ AtMost(f[c], g[c])
                 /\ c.weight # 0 => Less(f[c], g[c])
        <3>1. /\ Share(c) \in Fractions /\ Score(c) \in Fractions
              /\ f[c] \in Fractions /\ g[c] \in Fractions
              /\ f[c] = Times(Score(c), Share(c)) /\ g[c] = Times(cur, Share(c))
            BY <1>1, <1>4
        <3>2. CASE c.weight = 0
            BY <1>4, <3>1, <3>2, SameIsBoth
        <3>3. CASE c.weight # 0
            <4>1. Less(Score(c), cur) /\ AtMost(Score(c), cur) /\ AtMost(Share(c), Share(c))
                BY <1>1, <2>1, <3>1, <3>3, SameIsBoth
            <4> QED
                BY <1>1, <1>4, <3>1, <3>3, <4>1, TimesMonotone
        <3> QED
            BY <3>2, <3>3
    <2>3. Less(SumOf(f), SumOf(g))
        BY <1>1, <1>2, <2>2, SumMonotone
    <2> QED
        BY <1>3, <2>3
<1> QED
    BY <1>5, <1>6 DEF D, cur, Score

\* The figures are each within half a hundredth of what they are rounded from.
LEMMA FiguresBelong ==
    ASSUME NEW e, IsInput(e)
    PROVE  /\ Cardinality(Evaluated(e)) \in Nat
           /\ 2 * (Round2(Points(e)) - Total([c \in Evaluated(e) |-> Round2(Contributions(e)[c])]))
                \in -(Cardinality(Evaluated(e)) + 1)..(Cardinality(Evaluated(e)) + 1)
           /\ \A c \in Evaluated(e) :
                ShareFits(c.weight, Round2(ScoreIn(e, c)), Round2(Contributions(e)[c]))
           /\ Weight(e).num # 0 =>
                TenthFits(Round2(Current(e)), Round2(Times(Current(e), Fraction(1, 10))))
<1> DEFINE D == Evaluated(e)
           f == Contributions(e)
           r == [c \in D |-> Round2(f[c])]
<1>1. /\ IsFiniteSet(D) /\ f \in [D -> Fractions] /\ Points(e) \in Fractions
      /\ \A c \in D : ScoreIn(e, c) \in Fractions /\ c.weight \in Nat
      /\ Weight(e).num # 0 => Current(e) \in Fractions
    BY EvaluationLaws
<1>2. \A c \in D : f[c] = Times(ScoreIn(e, c), Fraction(c.weight, 10000))
    BY DEF Contributions
<1>3. \A q \in Fractions : Round2(q) \in Nat /\ Near(q, Round2(q), 1)
    BY Round2Rounds, RoundedIsNear
<1> HIDE DEF D, f
<1>4. r \in [D -> Int] /\ \A c \in D : Near(f[c], r[c], 1)
    BY <1>1, <1>3
<1>5. 2 * (Round2(Points(e)) - Total(r)) \in -(Cardinality(D) + 1)..(Cardinality(D) + 1)
    <2>1. /\ Total(r) \in Int /\ Cardinality(D) \in Nat
          /\ Near(SumOf(f), Total(r), Cardinality(D))
        <3> HIDE DEF r
        <3> QED
            BY <1>1, <1>4, RoundedTerms
    <2>2. Round2(Points(e)) \in Int /\ Near(Points(e), Round2(Points(e)), 1)
        BY <1>1, <1>3
    <2>3. SumOf(f) = Points(e)
        BY DEF Points, f
    <2>4. 2 * (Round2(Points(e)) - Total(r)) \in -(1 + Cardinality(D))..(1 + Cardinality(D))
        <3> HIDE DEF r
        <3> QED
            BY <1>1, <2>1, <2>2, <2>3, NearBoth
    <2>5. 1 + Cardinality(D) = Cardinality(D) + 1
        BY <2>1
    <2> HIDE DEF r
    <2> QED
        BY <2>4, <2>5
<1>6. ASSUME NEW c \in D
      PROVE  ShareFits(c.weight, Round2(ScoreIn(e, c)), Round2(f[c]))
    <2> DEFINE q == ScoreIn(e, c)
               p == f[c]
               w == c.weight
    <2>1. q \in Fractions /\ p \in Fractions /\ w \in Nat /\ p = Times(q, Fraction(w, 10000))
        BY <1>1, <1>2
    <2> HIDE DEF q, p, w
    <2>2. Same(p, [num |-> q.num * w, den |-> q.den * 10000])
        BY <2>1, ShareAs
    <2>3. Round2(p) \in Int /\ Round2(q) \in Int /\ Near(q, Round2(q), 1) /\ Near(p, Round2(p), 1)
        BY <1>3, <2>1
    <2>4. 2 * (10000 * Round2(p) - w * Round2(q)) \in -(10000 + w)..(10000 + w)
        BY <2>1, <2>2, <2>3, NearShare
    <2> QED
        BY <2>4 DEF p, q, w, ShareFits
<1>7. ASSUME Weight(e).num # 0
      PROVE  TenthFits(Round2(Current(e)), Round2(Times(Current(e), Fraction(1, 10))))
    <2> DEFINE q == Current(e)
               p == Times(q, Fraction(1, 10))
    <2>1. q \in Fractions
        BY <1>1, <1>7
    <2> HIDE DEF q
    <2>2. p \in Fractions /\ Same(p, [num |-> q.num * 1, den |-> q.den * 10])
        BY <2>1, ShareAs
    <2> HIDE DEF p
    <2>3. Round2(p) \in Int /\ Round2(q) \in Int /\ Near(q, Round2(q), 1) /\ Near(p, Round2(p), 1)
        BY <1>3, <2>1, <2>2
    <2>4. 2 * (10 * Round2(p) - 1 * Round2(q)) \in -(10 + 1)..(10 + 1)
        <3> DEFINE a == 1
                   b == 10
        <3>1. a \in Nat /\ b \in Nat \ {0}
            OBVIOUS
        <3>2. Same(p, [num |-> q.num * a, den |-> q.den * b])
            BY <2>2
        <3> HIDE DEF a, b
        <3>3. 2 * (b * Round2(p) - a * Round2(q)) \in -(b + a)..(b + a)
            BY <2>1, <2>2, <2>3, <3>1, <3>2, NearShare
        <3> QED
            BY <3>3 DEF a, b
    <2>5. 1 * Round2(q) = Round2(q) /\ 10 + 1 = 11
        BY <2>3
    <2>6. 2 * (10 * Round2(p) - Round2(q)) \in -11..11
        BY <2>4, <2>5
    <2> QED
        BY <2>6 DEF p, q, TenthFits
<1>8. Cardinality(D) \in Nat
    BY <1>1, FS_CardinalityType
<1> QED
    BY <1>5, <1>6, <1>7, <1>8 DEF D, f

-------------------------------------------------------------------------------
(* Better grades *)

BetterGrades(e, h) ==
    /\ h.categories = e.categories /\ h.assigned = e.assigned /\ h.blended = e.blended
    /\ h.maxima = e.maxima
    /\ \A i \in Items : /\ e.grade[i] = None <=> h.grade[i] = None
                        /\ e.grade[i] # None => e.grade[i] <= h.grade[i]

LEMMA BetterScores ==
    ASSUME NEW e, NEW h, IsInput(e), IsInput(h), BetterGrades(e, h), NEW c \in e.categories
    PROVE  /\ ScoreIn(e, c) = None <=> ScoreIn(h, c) = None
           /\ ScoreIn(e, c) # None => AtMost(ScoreIn(e, c), ScoreIn(h, c))
<1>1. /\ c \in h.categories /\ h.assigned = e.assigned /\ h.blended = e.blended
      /\ h.maxima = e.maxima
    BY DEF BetterGrades
<1>2. CASE c.blend
    <2>1. ScoreIn(e, c) = ScoreIn(h, c) /\ ScoreIn(e, c) \in Fractions \cup {None}
        BY <1>1, <1>2, ScoreLaws
    <2> QED
        BY <2>1, SameIsBoth
<1>3. CASE ~c.blend
    <2> DEFINE S == ScoredItems(e, c)
               f == ItemScores(e, c)
               g == ItemScores(h, c)
               share == Fraction(1, Cardinality(S))
    <2>1. ScoredItems(h, c) = S
        BY <1>1 DEF ScoredItems, Graded, Counted, BetterGrades
    <2>2. /\ S \subseteq Items /\ IsFiniteSet(S) /\ f \in [S -> Fractions]
          /\ Cardinality(S) \in Nat /\ (S # {} => Cardinality(S) # 0)
          /\ \A i \in S : e.grade[i] \in Nat /\ e.maxima[i] \in Nat \ {0}
        BY ItemScoresLaws
    <2>3. g \in [S -> Fractions] /\ \A i \in S : h.grade[i] \in Nat
        BY <2>1, ItemScoresLaws
    <2>4. /\ ScoreIn(e, c) = IF S = {} THEN None ELSE Times(SumOf(f), share)
          /\ ScoreIn(h, c) = IF S = {} THEN None ELSE Times(SumOf(g), share)
          /\ ScoreIn(e, c) = None <=> S = {}
          /\ ScoreIn(h, c) = None <=> S = {}
        BY <1>1, <1>3, <2>1, ScoreLaws
    <2>5. \A i \in S : /\ f[i] = Fraction(100 * e.grade[i], e.maxima[i])
                       /\ g[i] = Fraction(100 * h.grade[i], e.maxima[i])
        BY <1>1, <2>1 DEF ItemScores
    <2>6. \A i \in S : e.grade[i] <= h.grade[i]
        BY <2>2, NoFraction DEF BetterGrades
    <2>7. S # {} => share \in Fractions
        BY <2>2, FractionValue
    <2> HIDE DEF S, f, g, share
    <2>8. ASSUME NEW i \in S
          PROVE  AtMost(f[i], g[i])
        <3> DEFINE a == e.grade[i]
                   b == h.grade[i]
                   n == e.maxima[i]
        <3>1. a \in Nat /\ b \in Nat /\ n \in Nat \ {0} /\ a <= b
            BY <2>2, <2>3, <2>6
        <3>2. f[i] = Fraction(100 * a, n) /\ g[i] = Fraction(100 * b, n)
            BY <2>5
        <3> HIDE DEF a, b, n
        <3>3. 100 * a \in Nat /\ 100 * b \in Nat /\ 100 * a <= 100 * b
            BY <3>1
        <3>4. (100 * a) * n <= (100 * b) * n
            BY <3>1, <3>3, Scale
        <3>5. /\ Same(f[i], Raw(100 * a, n)) /\ Same(g[i], Raw(100 * b, n))
              /\ Raw(100 * a, n) \in Fractions /\ Raw(100 * b, n) \in Fractions
              /\ AtMost(Raw(100 * a, n), Raw(100 * b, n))
            BY <3>1, <3>2, <3>3, <3>4, RawLaws DEF AtMost
        <3>6. f[i] \in Fractions /\ g[i] \in Fractions
            BY <2>2, <2>3
        <3>7. AtMost(f[i], Raw(100 * a, n)) /\ AtMost(Raw(100 * b, n), g[i])
            BY <3>5, <3>6, SameIsBoth
        <3>8. AtMost(f[i], Raw(100 * b, n))
            BY <3>5, <3>6, <3>7, AtMostTransitive
        <3> QED
            BY <3>5, <3>6, <3>7, <3>8, AtMostTransitive
    <2>9. AtMost(SumOf(f), SumOf(g)) /\ SumOf(f) \in Fractions /\ SumOf(g) \in Fractions
        BY <2>2, <2>3, <2>8, SumMonotone, SumsAreFractions
    <2>10. S # {} => AtMost(Times(SumOf(f), share), Times(SumOf(g), share))
        <3>1. S # {} => AtMost(share, share)
            BY <2>7, SameIsBoth
        <3> QED
            BY <2>7, <2>9, <3>1, TimesMonotone
    <2> QED
        BY <2>4, <2>10
<1> QED
    BY <1>2, <1>3

\* A better grade never lowers the current grade.
THEOREM BetterGradesHelp ==
    ASSUME NEW e, NEW h, IsInput(e), IsInput(h), BetterGrades(e, h)
    PROVE  /\ EvaluationOf(e).current = None <=> EvaluationOf(h).current = None
           /\ EvaluationOf(e).current # None =>
                /\ EvaluationOf(e).current \in Nat /\ EvaluationOf(h).current \in Nat
                /\ EvaluationOf(e).current <= EvaluationOf(h).current
<1> DEFINE D == Evaluated(e)
           f == Contributions(e)
           g == Contributions(h)
           n == Weight(e).num
           share == Fraction(10000, n)
<1>1. Evaluated(h) = D
    BY BetterScores DEF Evaluated, BetterGrades
<1>2. Weight(h) = Weight(e)
    BY <1>1 DEF Weight, Weights
<1>3. /\ IsFiniteSet(D) /\ f \in [D -> Fractions] /\ n \in Nat
      /\ \A c \in D : ScoreIn(e, c) \in Fractions /\ Fraction(c.weight, 10000) \in Fractions
      /\ D \subseteq e.categories
      /\ n # 0 => Current(e) \in Fractions
    BY EvaluationLaws
<1>4. /\ g \in [D -> Fractions] /\ \A c \in D : ScoreIn(h, c) \in Fractions
      /\ n # 0 => Current(h) \in Fractions
    BY <1>1, <1>2, EvaluationLaws
<1>5. \A c \in D : /\ f[c] = Times(ScoreIn(e, c), Fraction(c.weight, 10000))
                   /\ g[c] = Times(ScoreIn(h, c), Fraction(c.weight, 10000))
                   /\ AtMost(ScoreIn(e, c), ScoreIn(h, c))
    <2>1. \A c \in D : AtMost(ScoreIn(e, c), ScoreIn(h, c))
        BY BetterScores DEF Evaluated
    <2> QED
        BY <1>1, <2>1 DEF Contributions
<1>6. /\ Current(e) = Times(SumOf(f), share) /\ Current(h) = Times(SumOf(g), share)
    BY <1>2 DEF Current, Points
<1>7. /\ EvaluationOf(e).current = IF n = 0 THEN None ELSE Round2(Current(e))
      /\ EvaluationOf(h).current = IF n = 0 THEN None ELSE Round2(Current(h))
    BY <1>2, FiguresOf
<1> HIDE DEF D, f, g, n
<1>8. \A c \in D : AtMost(f[c], g[c])
    BY <1>3, <1>4, <1>5, SameIsBoth, TimesMonotone
<1>9. AtMost(SumOf(f), SumOf(g)) /\ SumOf(f) \in Fractions /\ SumOf(g) \in Fractions
    BY <1>3, <1>4, <1>8, SumMonotone, SumsAreFractions
<1>10. n # 0 => AtMost(Current(e), Current(h))
    <2>1. n # 0 => share \in Fractions
        BY <1>3, FractionValue
    <2> HIDE DEF share
    <2>2. n # 0 => AtMost(share, share)
        BY <2>1, SameIsBoth
    <2> QED
        BY <1>6, <1>9, <2>1, <2>2, TimesMonotone
<1>11. n # 0 => /\ Round2(Current(e)) \in Nat /\ Round2(Current(h)) \in Nat
                /\ Round2(Current(e)) <= Round2(Current(h))
    BY <1>3, <1>4, <1>10, Round2Rounds, RoundingMonotone
<1> QED
    BY <1>7, <1>11, NoFraction

-------------------------------------------------------------------------------
(* Scores, share by share *)

LEMMA RoundedSame ==
    ASSUME NEW p \in Fractions, NEW q \in Fractions, Same(p, q)
    PROVE  Round2(p) \in Nat /\ Rounded(q, Round2(p))
BY RoundingMonotone, Round2Rounds

\* a/b of a fraction m/n.
LEMMA ShareOfFraction ==
    ASSUME NEW m \in Nat, NEW n \in Nat \ {0}, NEW a \in Nat, NEW b \in Nat \ {0},
           NEW k \in Nat, NEW l \in Nat \ {0}, k * (n * b) = (m * a) * l
    PROVE  Same(Fraction(k, l), Times(Fraction(m, n), Fraction(a, b)))
<1>1. /\ Fraction(m, n) \in Fractions /\ Raw(m, n) \in Fractions
      /\ Same(Fraction(m, n), Raw(m, n))
      /\ Fraction(a, b) \in Fractions /\ Raw(a, b) \in Fractions
      /\ Same(Fraction(a, b), Raw(a, b))
      /\ Fraction(k, l) \in Fractions /\ Raw(k, l) \in Fractions
      /\ Same(Fraction(k, l), Raw(k, l))
    BY RawLaws
<1>2. /\ Same(Times(Fraction(m, n), Fraction(a, b)), Product(Raw(m, n), Raw(a, b)))
      /\ Product(Raw(m, n), Raw(a, b)) \in Fractions
      /\ Times(Fraction(m, n), Fraction(a, b)) \in Fractions
    BY <1>1, TimesAs, Values
<1>3. Same(Raw(k, l), Product(Raw(m, n), Raw(a, b)))
    BY DEF Same, Product, Raw
<1>4. Same(Product(Raw(m, n), Raw(a, b)), Times(Fraction(m, n), Fraction(a, b)))
    BY <1>2, SameIsBoth
<1>5. Same(Fraction(k, l), Product(Raw(m, n), Raw(a, b)))
    BY <1>1, <1>2, <1>3, SameTransitive
<1> QED
    BY <1>1, <1>2, <1>4, <1>5, SameTransitive

\* Every item brings its share of the mean.
LEMMA MeanOfItems ==
    ASSUME NEW e, IsInput(e), NEW c \in e.categories, ~c.blend, ScoredItems(e, c) # {}
    PROVE  LET n == Cardinality(ScoredItems(e, c))
               shares == [i \in ScoredItems(e, c) |->
                            Fraction(100 * e.grade[i], e.maxima[i] * n)] IN
           SumOf(shares) \in Fractions /\ Same(ScoreIn(e, c), SumOf(shares))
<1> DEFINE S == ScoredItems(e, c)
           n == Cardinality(S)
           f == ItemScores(e, c)
           g == [i \in S |-> Fraction(100 * e.grade[i], e.maxima[i] * n)]
           k == Fraction(1, n)
<1>1. /\ IsFiniteSet(S) /\ n \in Nat \ {0} /\ f \in [S -> Fractions]
      /\ \A i \in S : e.grade[i] \in Nat /\ e.maxima[i] \in Nat \ {0}
    BY ItemScoresLaws
<1>2. \A i \in S : f[i] = Fraction(100 * e.grade[i], e.maxima[i])
    BY DEF ItemScores
<1>3. ScoreIn(e, c) = Times(SumOf(f), k)
    BY ScoreLaws
<1> HIDE DEF S, n, f
<1>4. ASSUME NEW i \in S
      PROVE  g[i] \in Fractions /\ Same(g[i], Times(f[i], k))
    <2> DEFINE a == e.grade[i]
               b == e.maxima[i]
    <2>1. /\ a \in Nat /\ b \in Nat \ {0}
          /\ g[i] = Fraction(100 * a, b * n) /\ f[i] = Fraction(100 * a, b)
        BY <1>1, <1>2
    <2> HIDE DEF a, b, g
    <2>2. 100 * a \in Nat /\ b * n \in Nat \ {0}
        BY <1>1, <2>1, Positive
    <2>3. (100 * a) * (b * n) = ((100 * a) * 1) * (b * n)
        BY <2>2
    <2>4. Same(Fraction(100 * a, b * n), Times(Fraction(100 * a, b), k))
        <3> DEFINE one == 1
        <3>1. one \in Nat /\ (100 * a) * (b * n) = ((100 * a) * one) * (b * n)
            BY <2>3
        <3> HIDE DEF one
        <3>2. Same(Fraction(100 * a, b * n), Times(Fraction(100 * a, b), Fraction(one, n)))
            BY <1>1, <2>1, <2>2, <3>1, ShareOfFraction
        <3> QED
            BY <3>2 DEF one
    <2> QED
        BY <2>1, <2>2, <2>4, FractionValue
<1>5. g \in [S -> Fractions]
    BY <1>4
<1>6. k \in Fractions
    BY <1>1, FractionValue
<1> HIDE DEF g, k
<1>7. Same(SumOf(g), Times(SumOf(f), k)) /\ SumOf(g) \in Fractions /\ SumOf(f) \in Fractions
    BY <1>1, <1>4, <1>5, <1>6, SumScaled, SumsAreFractions
<1>8. Times(SumOf(f), k) \in Fractions
    BY <1>6, <1>7, Values
<1>9. SumOf(g) \in Fractions /\ Same(ScoreIn(e, c), SumOf(g))
    BY <1>3, <1>7, <1>8, SameIsBoth
<1> QED
    BY <1>9 DEF g, n, S

\* A blend is there when a session is CLOSED; every observation brings its share.
LEMMA BlendLaws ==
    ASSUME NEW closed \in Nat, NEW present \in Nat, NEW S, IsFiniteSet(S),
           NEW values \in [S -> Nat]
    PROVE  LET blend == Blend(AttendanceScore(closed, present), ParticipationScore(values))
               shares == [o \in S |-> Fraction(67 * values[o], 3 * Cardinality(S))] IN
           /\ closed = 0 => blend = None
           /\ closed # 0 => /\ blend \in Fractions
                            /\ SumOf(shares) \in Fractions
                            /\ Same(blend, Plus(Raw(33 * present, closed), SumOf(shares)))
<1> DEFINE A == AttendanceScore(closed, present)
           P == ParticipationScore(values)
           n == Cardinality(S)
           f == [o \in S |-> Fraction(values[o], n)]
           g == [o \in S |-> Fraction(67 * values[o], 3 * n)]
           k == Fraction(67, 3)
<1>1. DOMAIN values = S /\ n \in Nat /\ (S # {} => n # 0)
    BY FS_CardinalityType, FS_EmptySet
<1>2. P = IF S = {} THEN Zero ELSE Times(SumOf(f), Fraction(100, 3))
    BY <1>1 DEF ParticipationScore
<1> HIDE DEF n
<1>3. ASSUME NEW o \in S
      PROVE  f[o] \in Fractions /\ g[o] \in Fractions /\ Same(g[o], Times(f[o], k))
    <2> DEFINE v == values[o]
               a == 67
               b == 3
    <2>1. v \in Nat /\ n \in Nat \ {0} /\ a \in Nat /\ b \in Nat \ {0}
        BY <1>1
    <2>2. f[o] = Fraction(v, n) /\ g[o] = Fraction(a * v, b * n) /\ k = Fraction(a, b)
        OBVIOUS
    <2> HIDE DEF v, a, b, f, g, k
    <2>3. a * v \in Nat /\ b * n \in Nat \ {0}
        BY <2>1, Positive
    <2>4. (a * v) * (n * b) = (v * a) * (b * n)
        BY <2>1
    <2>5. Same(Fraction(a * v, b * n), Times(Fraction(v, n), Fraction(a, b)))
        BY <2>1, <2>3, <2>4, ShareOfFraction
    <2> QED
        BY <2>1, <2>2, <2>3, <2>5, FractionValue
<1>4. f \in [S -> Fractions] /\ g \in [S -> Fractions]
    BY <1>3
<1>5. k \in Fractions /\ Fraction(100, 3) \in Fractions
    BY FractionValue
<1> HIDE DEF f, g, k
<1>6. Same(SumOf(g), Times(SumOf(f), k)) /\ SumOf(g) \in Fractions /\ SumOf(f) \in Fractions
    BY <1>3, <1>4, <1>5, SumScaled, SumsAreFractions
<1>7. P \in Fractions
    BY <1>2, <1>5, <1>6, ZeroValue, Values
<1>8. Same(Times(P, Fraction(67, 100)), SumOf(g)) /\ Times(P, Fraction(67, 100)) \in Fractions
    <2> DEFINE u == Times(P, Fraction(67, 100))
    <2>1. u \in Fractions /\ Same(u, [num |-> P.num * 67, den |-> P.den * 100])
        BY <1>7, ShareAs
    <2>2. CASE S = {}
        <3>1. P = Zero
            BY <1>2, <2>2
        <3>2. SumOf(g) = Zero
            BY <1>4, <2>2, SumSteps
        <3>3. [num |-> Zero.num * 67, den |-> Zero.den * 100] = Raw(0, 100)
            BY ZeroValue DEF Raw
        <3>4. Same(u, Raw(0, 100)) /\ Raw(0, 100) \in Fractions
            <4>1. Raw(0, 100) \in Fractions
                BY RawLaws
            <4> HIDE DEF u
            <4> QED
                BY <2>1, <3>1, <3>3, <4>1
        <3>5. Same(Raw(0, 100), Zero)
            BY ZeroValue DEF Raw, Same
        <3> HIDE DEF u
        <3>6. Same(u, Zero)
            BY <2>1, <3>4, <3>5, ZeroValue, SameTransitive
        <3> QED
            BY <2>1, <3>2, <3>6 DEF u
    <2>3. CASE S # {}
        <3> DEFINE F == SumOf(f)
                   t == [num |-> F.num * 67, den |-> F.den * 3]
                   p == [num |-> F.num * 100, den |-> F.den * 3]
                   w == [num |-> P.num * 67, den |-> P.den * 100]
        <3>1. F \in Fractions /\ F.num \in Nat /\ F.den \in Nat \ {0}
            BY <1>6 DEF Fractions
        <3>2. P = Times(F, Fraction(100, 3))
            BY <1>2, <2>3
        <3> HIDE DEF F
        <3>3. Same(P, p)
            BY <3>1, <3>2, ShareAs
        <3>4. Same(Times(F, k), t) /\ Times(F, k) \in Fractions
            BY <3>1, ShareAs DEF k
        <3>5. t \in Fractions /\ p \in Fractions
            BY <3>1, Positive DEF Fractions
        <3>6. P.num \in Nat /\ P.den \in Nat \ {0}
            BY <1>7 DEF Fractions
        <3>7. w \in Fractions
            BY <3>6, Positive DEF Fractions
        <3>8. Same(w, t)
            <4>1. P.num * (F.den * 3) = (F.num * 100) * P.den
                BY <3>3 DEF Same
            <4>2. (P.num * 67) * (F.den * 3) = 67 * (P.num * (F.den * 3))
                BY <3>1, <3>6
            <4>3. (F.num * 67) * (P.den * 100) = 67 * ((F.num * 100) * P.den)
                BY <3>1, <3>6
            <4>4. (P.num * 67) * (F.den * 3) = (F.num * 67) * (P.den * 100)
                BY <4>1, <4>2, <4>3
            <4> QED
                BY <4>4 DEF Same
        <3>9. Same(SumOf(g), Times(F, k)) /\ SumOf(g) \in Fractions
            BY <1>6 DEF F
        <3> HIDE DEF t, p
        <3>10. Same(u, w)
            BY <2>1
        <3> HIDE DEF u, w
        <3>11. Same(u, t)
            BY <2>1, <3>5, <3>7, <3>8, <3>10, SameTransitive
        <3>12. Same(t, Times(F, k)) /\ Same(Times(F, k), SumOf(g))
            BY <3>4, <3>5, <3>9, SameIsBoth
        <3>13. Same(u, Times(F, k))
            BY <2>1, <3>4, <3>5, <3>11, <3>12, SameTransitive
        <3>14. Same(u, SumOf(g))
            BY <2>1, <3>4, <3>9, <3>12, <3>13, SameTransitive
        <3> QED
            BY <2>1, <3>14 DEF u
    <2> QED
        BY <2>1, <2>2, <2>3
<1>9. CASE closed = 0
    BY <1>9 DEF AttendanceScore, Blend
<1>10. CASE closed # 0
    <2>1. A = Fraction(100 * present, closed) /\ closed \in Nat \ {0} /\ 100 * present \in Nat
        BY <1>10 DEF AttendanceScore
    <2> HIDE DEF A, P
    <2>2. A \in Fractions
        BY <2>1, FractionValue
    <2>3. Blend(A, P) = Plus(Times(A, Fraction(33, 100)), Times(P, Fraction(67, 100)))
        BY <1>7, <2>2, NoFraction DEF Blend
    <2>4. /\ Same(Times(A, Fraction(33, 100)), Raw(33 * present, closed))
          /\ Raw(33 * present, closed) \in Fractions /\ Times(A, Fraction(33, 100)) \in Fractions
        <3> DEFINE a == 33
                   b == 100
        <3>1. a \in Nat /\ b \in Nat \ {0} /\ 33 * present \in Nat
            OBVIOUS
        <3>2. (33 * present) * (closed * b) = ((100 * present) * a) * closed
            BY <2>1
        <3>3. A = Fraction(100 * present, closed) /\ Fraction(a, b) = Fraction(33, 100)
            BY <2>1
        <3> DEFINE m == 33 * present
                   j == 100 * present
        <3>4. m \in Nat /\ j \in Nat /\ m * (closed * b) = (j * a) * closed
            BY <2>1, <3>1, <3>2
        <3> HIDE DEF a, b, m, j
        <3>5. Same(Fraction(m, closed), Times(Fraction(j, closed), Fraction(a, b)))
            BY <2>1, <3>1, <3>4, ShareOfFraction
        <3>6. /\ Raw(m, closed) \in Fractions /\ Fraction(m, closed) \in Fractions
              /\ Same(Fraction(m, closed), Raw(m, closed))
            BY <2>1, <3>4, RawLaws
        <3>7. Fraction(j, closed) \in Fractions /\ Fraction(a, b) \in Fractions
            BY <2>1, <3>1, <3>4, FractionValue
        <3>8. Times(Fraction(j, closed), Fraction(a, b)) \in Fractions
            BY <3>7, Values
        <3>9. Same(Times(Fraction(j, closed), Fraction(a, b)), Raw(m, closed))
            BY <3>5, <3>6, <3>8, SameIsBoth, SameTransitive
        <3> QED
            BY <3>3, <3>6, <3>8, <3>9 DEF m, j
    <2>5. /\ Plus(Times(A, Fraction(33, 100)), Times(P, Fraction(67, 100))) \in Fractions
          /\ Same(Plus(Times(A, Fraction(33, 100)), Times(P, Fraction(67, 100))),
                  Plus(Raw(33 * present, closed), SumOf(g)))
        BY <1>6, <1>8, <2>4, SameArguments, Values
    <2>6. /\ Blend(A, P) \in Fractions /\ SumOf(g) \in Fractions
          /\ Same(Blend(A, P), Plus(Raw(33 * present, closed), SumOf(g)))
        BY <1>6, <2>3, <2>5
    <2> QED
        BY <1>10, <2>6 DEF A, P, g, n
<1> QED
    BY <1>9, <1>10

\* w/n of a score is m/n of its contribution w/m.
LEMMA ShareOfShare ==
    ASSUME NEW p \in Fractions, NEW q \in Fractions, Same(p, q),
           NEW w \in Nat, NEW m \in Nat \ {0}, NEW n \in Nat \ {0}
    PROVE  /\ Times(q, Fraction(w, n)) \in Fractions
           /\ Same(Times(q, Fraction(w, n)),
                   Times(Times(p, Fraction(w, m)), Fraction(m, n)))
<1> DEFINE v == Times(p, Fraction(w, m))
           a == p.num * w
           b == p.den * m
           d == p.den * n
<1>1. /\ a \in Nat /\ b \in Nat \ {0} /\ d \in Nat \ {0} /\ p.den \in Nat \ {0}
      /\ b * n \in Nat \ {0} /\ a * m \in Nat
    BY Positive DEF Fractions
<1>2. v \in Fractions /\ Same(v, Raw(a, b)) /\ Raw(a, b) \in Fractions
    BY <1>1, ShareAs DEF Raw, Fractions
<1>3. a * (b * n) = (a * m) * d
    <2>1. b * n = m * d
        <3>1. (p.den * m) * n = m * (p.den * n)
            BY <1>1
        <3> QED
            BY <3>1
    <2> HIDE DEF a, b, d
    <2>2. a * (m * d) = (a * m) * d
        BY <1>1
    <2> QED
        BY <2>1, <2>2
<1>4. /\ Times(p, Fraction(w, n)) \in Fractions
      /\ Same(Times(p, Fraction(w, n)), Raw(a, d))
    BY ShareAs DEF Raw
<1>5. /\ Fraction(w, n) \in Fractions /\ Fraction(m, n) \in Fractions
      /\ Same(Fraction(m, n), Raw(m, n)) /\ Raw(m, n) \in Fractions
      /\ Same(Fraction(w, n), Fraction(w, n)) /\ Same(q, p)
    BY RawLaws, SameIsBoth DEF Same
<1>6. Times(q, Fraction(w, n)) \in Fractions
    BY <1>5, TimesValue
<1>7. Same(Times(q, Fraction(w, n)), Times(p, Fraction(w, n)))
    BY <1>5, SameArguments
<1> HIDE DEF v, a, b, d
<1>8. Times(v, Fraction(m, n)) \in Fractions
    BY <1>2, <1>5, TimesValue
<1>9. /\ Same(Times(v, Fraction(m, n)), Product(Raw(a, b), Raw(m, n)))
      /\ Product(Raw(a, b), Raw(m, n)) \in Fractions
    BY <1>2, <1>5, TimesAs
<1>10. Product(Raw(a, b), Raw(m, n)) = Raw(a * m, b * n)
    BY DEF Product, Raw
<1>11. Raw(a, d) \in Fractions /\ Raw(a * m, b * n) \in Fractions
    BY <1>1 DEF Raw, Fractions
<1>12. Same(Raw(a, d), Raw(a * m, b * n))
    BY <1>3 DEF Same, Raw
<1>13. Same(Raw(a * m, b * n), Times(v, Fraction(m, n)))
    BY <1>9, <1>10 DEF Same
<1>14. Same(Times(p, Fraction(w, n)), Times(v, Fraction(m, n)))
    BY <1>4, <1>8, <1>11, <1>12, <1>13, SameTransitive
<1> QED
    BY <1>4, <1>6, <1>7, <1>8, <1>14, SameTransitive DEF v

\* The current grade is the weighted mean of the scores it is made from.
LEMMA CurrentIsMean ==
    ASSUME NEW e, IsInput(e), Weight(e).num # 0,
           NEW q \in [Evaluated(e) -> Fractions],
           \A c \in Evaluated(e) : Same(ScoreIn(e, c), q[c])
    PROVE  LET mean == SumOf([c \in Evaluated(e) |->
                            Times(q[c], Fraction(c.weight, Weight(e).num))]) IN
           mean \in Fractions /\ Same(Current(e), mean)
<1> DEFINE D == Evaluated(e)
           n == Weight(e).num
           k == Fraction(10000, n)
           f == Contributions(e)
           g == [c \in D |-> Times(q[c], Fraction(c.weight, n))]
<1>1. /\ IsFiniteSet(D) /\ n \in Nat \ {0} /\ f \in [D -> Fractions]
      /\ \A c \in D : /\ ScoreIn(e, c) \in Fractions /\ c.weight \in Nat
                      /\ Fraction(c.weight, 10000) \in Fractions
    BY EvaluationLaws
<1>2. k \in Fractions
    BY <1>1, FractionValue
<1>3. \A c \in D : f[c] = Times(ScoreIn(e, c), Fraction(c.weight, 10000))
    BY DEF Contributions
<1>4. Current(e) = Times(SumOf(f), k) /\ \A c \in D : q[c] \in Fractions
    BY DEF Current, Points
<1> HIDE DEF D, n, k, f
<1>5. ASSUME NEW c \in D
      PROVE  g[c] \in Fractions /\ Same(g[c], Times(f[c], k))
    <2>1. /\ c.weight \in Nat /\ q[c] \in Fractions /\ ScoreIn(e, c) \in Fractions
          /\ Same(ScoreIn(e, c), q[c])
        BY <1>1, <1>4 DEF D
    <2> QED
        BY <1>1, <1>3, <2>1, ShareOfShare DEF k
<1>6. g \in [D -> Fractions] /\ \A c \in D : Same(g[c], Times(f[c], k))
    BY <1>5
<1> HIDE DEF g
<1>7. SumOf(g) \in Fractions /\ Same(SumOf(g), Times(SumOf(f), k))
    BY <1>1, <1>2, <1>6, SumScaled, SumsAreFractions
<1> QED
    BY <1>4, <1>7 DEF Same, g, D, n
===============================================================================
