---------------------------- MODULE RrdFileProofs ----------------------------
(***************************************************************************)
(* What an RRD file holds and what is fetched from it, for any number of   *)
(* archives and data sources, any numbers of rows, any readings at any     *)
(* times, and any sequence of updates and resizes:                         *)
(*   - the cyclic archives behave like lists that keep the newest rows;    *)
(*   - the preparation areas account for every second of the running step, *)
(*     and the primary data points are averages of known seconds;          *)
(*   - every row is the consolidation of the PDPs of its own time slot;    *)
(*   - a fetch returns the rows of the wished time.                        *)
(* They rest on the arithmetic of fractions in lowest terms and on sums    *)
(* over finite sets, which come first.                                     *)
(***************************************************************************)
EXTENDS RrdFetch, FiniteSetTheorems, WellFoundedInduction, NaturalsInduction, TLAPS

-----------------------------------------------------------------------------
(* Numbers: the values of a file without DNAN and the infinities           *)

(* A set of numbers that is not empty has a least one.                     *)
LEMMA NatLeast ==
    ASSUME NEW E \in SUBSET Nat, NEW i \in E
    PROVE  \E m \in E : \A j \in E : m <= j
<1>1. PICK m \in E : \A j \in E : ~(<<j, m>> \in OpToRel(<, Nat))
  BY NatLessThanWellFounded, WFMin
<1>2. ASSUME NEW j \in E PROVE m <= j
  <2>1. <<j, m>> \notin {ss \in Nat \X Nat : ss[1] < ss[2]}
    BY <1>1 DEF OpToRel
  <2> QED
    BY <2>1
<1> QED
  BY <1>2

(* Induction, about sets.                                                  *)
LEMMA NatSet ==
    ASSUME NEW S \in SUBSET Nat, 0 \in S, \A n \in S : n + 1 \in S
    PROVE  S = Nat
<1> SUFFICES ASSUME NEW x \in Nat \ S PROVE FALSE
  OBVIOUS
<1>1. PICK m \in Nat \ S : \A j \in Nat \ S : m <= j
  BY NatLeast
<1>2. m # 0 /\ m - 1 \in Nat
  BY <1>1
<1>3. m - 1 \in S
  BY <1>1, <1>2
<1> QED
  BY <1>1, <1>3

(* The same with all smaller numbers.                                      *)
LEMMA NatSetStrong ==
    ASSUME NEW S \in SUBSET Nat, \A n \in Nat : 0 .. n - 1 \subseteq S => n \in S
    PROVE  S = Nat
<1> SUFFICES ASSUME NEW x \in Nat \ S PROVE FALSE
  OBVIOUS
<1>1. PICK m \in Nat \ S : \A j \in Nat \ S : m <= j
  BY NatLeast
<1>2. 0 .. m - 1 \subseteq S
  BY <1>1
<1> QED
  BY <1>1, <1>2

(* The remainder.                                                          *)
LEMMA DivMod ==
    ASSUME NEW R \in Nat \ {0}, NEW x \in Int
    PROVE  /\ x % R \in 0 .. R - 1
           /\ x \div R \in Int
           /\ x = R * (x \div R) + (x % R)
OBVIOUS

(* The quotient of natural numbers is one.                                 *)
LEMMA DivNat ==
    ASSUME NEW R \in Nat \ {0}, NEW x \in Nat
    PROVE  x \div R \in Nat
<1> DEFINE q == x \div R
           r == x % R
<1>1. q \in Int /\ r \in 0 .. R - 1 /\ x = R * q + r
  BY DivMod
<1> HIDE DEF q, r
<1>2. q >= 0
  <2> SUFFICES ASSUME q <= -1 PROVE FALSE
    BY <1>1
  <2>1. R * q <= R * (-1)
    BY <1>1
  <2> QED
    BY <1>1, <2>1
<1> QED
  BY <1>1, <1>2 DEF q

\* Common divisors.
Divides(k, n) == \E q \in Int : n = k * q
CommonDivisors(a, b) == {k \in Nat \ {0} : Divides(k, a) /\ Divides(k, b)}

(* A step of the Euclidean algorithm keeps the common divisors.            *)
LEMMA DividesStep ==
    ASSUME NEW a \in Nat, NEW b \in Nat \ {0}
    PROVE  CommonDivisors(a, b) = CommonDivisors(b, a % b)
<1> DEFINE q == a \div b
           r == a % b
<1>1. q \in Nat /\ r \in Nat /\ a = b * q + r
  BY DivMod, DivNat
<1> HIDE DEF q, r
<1>2. ASSUME NEW k \in CommonDivisors(a, b) PROVE k \in CommonDivisors(b, r)
  <2>1. PICK x \in Int, y \in Int : a = k * x /\ b = k * y
    BY <1>2 DEF CommonDivisors, Divides
  <2>2. k \in Int /\ x - y * q \in Int
    BY <1>1, <1>2 DEF CommonDivisors
  <2>3. r = k * x - (k * y) * q
    BY <1>1, <2>1
  <2>4. k * (x - y * q) = k * x - (k * y) * q
    BY <1>1, <2>2
  <2> QED
    BY <1>2, <2>1, <2>2, <2>3, <2>4 DEF CommonDivisors, Divides
<1>3. ASSUME NEW k \in CommonDivisors(b, r) PROVE k \in CommonDivisors(a, b)
  <2>1. PICK x \in Int, y \in Int : r = k * x /\ b = k * y
    BY <1>3 DEF CommonDivisors, Divides
  <2>2. k \in Int /\ x + y * q \in Int
    BY <1>1, <1>3 DEF CommonDivisors
  <2>3. a = k * x + (k * y) * q
    BY <1>1, <2>1
  <2>4. k * (x + y * q) = k * x + (k * y) * q
    BY <1>1, <2>2
  <2> QED
    BY <1>3, <2>1, <2>2, <2>3, <2>4 DEF CommonDivisors, Divides
<1> QED
  BY <1>2, <1>3 DEF r

(* A divisor is not greater than the number it divides.                    *)
LEMMA DivisorBound ==
    ASSUME NEW n \in Nat \ {0}, NEW k \in Nat \ {0}, Divides(k, n)
    PROVE  k <= n
<1>1. PICK q \in Int : n = k * q
  BY DEF Divides
<1>2. q >= 1
  <2> SUFFICES ASSUME q <= 0 PROVE FALSE
    OBVIOUS
  <2>1. k * q <= 0
    OBVIOUS
  <2> QED
    BY <1>1, <2>1
<1>3. k * q >= k
  BY <1>2
<1> QED
  BY <1>1, <1>3

Greatest(a, b) ==
    IF a = 0 /\ b = 0 THEN 0
    ELSE CHOOSE k \in CommonDivisors(a, b) : \A j \in CommonDivisors(a, b) : j <= k

(* There is a greatest common divisor, unless both numbers are 0.          *)
LEMMA GreatestIs ==
    ASSUME NEW a \in Nat, NEW b \in Nat, ~(a = 0 /\ b = 0)
    PROVE  /\ Greatest(a, b) \in CommonDivisors(a, b)
           /\ \A j \in CommonDivisors(a, b) : j <= Greatest(a, b)
<1> DEFINE C == CommonDivisors(a, b)
           D == {i \in Nat : a + b - i \in C}
<1>1. \A k \in C : k \in Nat /\ k <= a + b
  <2> SUFFICES ASSUME NEW k \in C PROVE k <= a + b
    BY DEF CommonDivisors
  <2>1. k \in Nat \ {0} /\ Divides(k, a) /\ Divides(k, b)
    BY DEF CommonDivisors
  <2>2. CASE a # 0
    BY <2>1, <2>2, DivisorBound
  <2>3. CASE b # 0
    BY <2>1, <2>3, DivisorBound
  <2> QED
    BY <2>2, <2>3
<1>2. 1 \in C
  <2>1. a = 1 * a /\ b = 1 * b /\ a \in Int /\ b \in Int
    OBVIOUS
  <2> QED
    BY <2>1 DEF CommonDivisors, Divides
<1> HIDE DEF C
<1>3. a + b - 1 \in D
  <2>1. a + b - 1 \in Nat
    OBVIOUS
  <2>2. a + b - (a + b - 1) = 1
    OBVIOUS
  <2> QED
    BY <1>2, <2>1, <2>2
<1>4. PICK m \in D : \A j \in D : m <= j
  <2>1. D \in SUBSET Nat
    OBVIOUS
  <2> HIDE DEF D
  <2> QED
    BY <1>3, <2>1, NatLeast
<1>5. a + b - m \in C
  BY <1>4
<1>6. \A j \in C : j <= a + b - m
  <2> SUFFICES ASSUME NEW j \in C PROVE j <= a + b - m
    OBVIOUS
  <2>1. j \in Nat /\ j <= a + b
    BY <1>1
  <2>2. a + b - j \in Nat /\ a + b - (a + b - j) = j
    BY <2>1
  <2>3. a + b - j \in D
    BY <2>2
  <2>4. m \in Nat
    BY <1>4
  <2> QED
    BY <1>4, <2>1, <2>3, <2>4
<1>7. Greatest(a, b) = CHOOSE k \in C : \A j \in C : j <= k
  BY DEF Greatest, C
<1> QED
  BY <1>5, <1>6, <1>7 DEF C

(* The greatest common divisor follows the recursion of the algorithm.     *)
LEMMA GreatestRec ==
    ASSUME NEW a \in Nat, NEW b \in Nat
    PROVE  Greatest(a, b) = IF b = 0 THEN a ELSE Greatest(b, a % b)
<1>1. CASE b # 0
  <2>1. CommonDivisors(a, b) = CommonDivisors(b, a % b)
    BY <1>1, DividesStep
  <2> QED
    BY <1>1, <2>1 DEF Greatest
<1>2. CASE a = 0 /\ b = 0
  BY <1>2 DEF Greatest
<1>3. CASE a # 0 /\ b = 0
  <2>1. /\ Greatest(a, b) \in CommonDivisors(a, b)
        /\ \A j \in CommonDivisors(a, b) : j <= Greatest(a, b)
    BY <1>3, GreatestIs
  <2>2. Greatest(a, b) \in Nat \ {0} /\ Divides(Greatest(a, b), a)
    BY <2>1 DEF CommonDivisors
  <2>3. Greatest(a, b) <= a
    BY <1>3, <2>2, DivisorBound
  <2>4. a = a * 1 /\ b = a * 0 /\ a \in Nat \ {0}
    BY <1>3
  <2>5. a \in CommonDivisors(a, b)
    BY <2>4 DEF CommonDivisors, Divides
  <2>6. a <= Greatest(a, b)
    BY <2>1, <2>5
  <2> QED
    BY <1>3, <2>2, <2>3, <2>6
<1> QED
  BY <1>1, <1>2, <1>3

(* The recursive function Gcd is well defined: the second argument becomes *)
(* smaller with every call.                                                *)
LEMMA GcdUnfold ==
    \A a, b \in Nat : Gcd[<<a, b>>] = IF b = 0 THEN a ELSE Gcd[<<b, a % b>>]
<1> DEFINE Rec(G) == G = [p \in Nat \X Nat |-> IF p[2] = 0 THEN p[1] ELSE G[<<p[2], p[1] % p[2]>>]]
           W == [p \in Nat \X Nat |-> Greatest(p[1], p[2])]
<1>1. \A x, y \in Nat : y # 0 => x % y \in Nat
  BY DivMod
<1>2. Rec(W)
  <2> DEFINE F == [p \in Nat \X Nat |-> IF p[2] = 0 THEN p[1] ELSE W[<<p[2], p[1] % p[2]>>]]
  <2>1. ASSUME NEW p \in Nat \X Nat PROVE W[p] = F[p]
    <3>1. p[1] \in Nat /\ p[2] \in Nat
      OBVIOUS
    <3>2. p[2] # 0 => p[1] % p[2] \in Nat
      BY <1>1, <3>1
    <3>3. p[2] # 0 => <<p[2], p[1] % p[2]>> \in Nat \X Nat
      BY <3>1, <3>2
    <3>4. Greatest(p[1], p[2]) = IF p[2] = 0 THEN p[1] ELSE Greatest(p[2], p[1] % p[2])
      BY <3>1, GreatestRec
    <3> QED
      BY <3>3, <3>4
  <2> QED
    BY <2>1
<1>3. Gcd = CHOOSE G : Rec(G)
  BY DEF Gcd
<1> HIDE DEF Rec, W
<1>4. Rec(Gcd)
  BY <1>2, <1>3
<1>5. ASSUME NEW a \in Nat, NEW b \in Nat
      PROVE  Gcd[<<a, b>>] = IF b = 0 THEN a ELSE Gcd[<<b, a % b>>]
  <2>1. <<a, b>> \in Nat \X Nat
    OBVIOUS
  <2> QED
    BY <1>4, <2>1 DEF Rec
<1> QED
  BY <1>5

(* Gcd computes the greatest common divisor.                               *)
LEMMA GcdIs ==
    ASSUME NEW a \in Nat, NEW b \in Nat
    PROVE  Gcd[<<a, b>>] = Greatest(a, b)
<1> DEFINE S == {k \in Nat : \A x \in Nat : Gcd[<<x, k>>] = Greatest(x, k)}
<1>1. ASSUME NEW k \in Nat, 0 .. k - 1 \subseteq S PROVE k \in S
  <2> SUFFICES ASSUME NEW x \in Nat PROVE Gcd[<<x, k>>] = Greatest(x, k)
    OBVIOUS
  <2>1. Gcd[<<x, k>>] = IF k = 0 THEN x ELSE Gcd[<<k, x % k>>]
    BY GcdUnfold
  <2>2. Greatest(x, k) = IF k = 0 THEN x ELSE Greatest(k, x % k)
    BY GreatestRec
  <2>3. k # 0 => x % k \in 0 .. k - 1
    BY DivMod
  <2>4. k # 0 => Gcd[<<k, x % k>>] = Greatest(k, x % k)
    BY <1>1, <2>3
  <2> QED
    BY <2>1, <2>2, <2>4
<1>2. S = Nat
  <2>1. S \in SUBSET Nat
    OBVIOUS
  <2> HIDE DEF S
  <2> QED
    BY <1>1, <2>1, NatSetStrong
<1> QED
  BY <1>2

\* The denominators of a fraction.
Denominators(n, d) == {q \in Nat \ {0} : \E p \in Int : p * d = n * q}

(* A common factor cancels.                                                *)
LEMMA Cancel ==
    ASSUME NEW x \in Int, NEW y \in Int, NEW k \in Nat \ {0}, x * k = y * k
    PROVE  x = y
<1>1. (x - y) * k = 0
  OBVIOUS
<1>2. x - y \in Int
  OBVIOUS
<1> QED
  BY <1>1, <1>2

(* The division of a multiple is exact.                                    *)
LEMMA ExactDiv ==
    ASSUME NEW g \in Nat \ {0}, NEW a \in Int
    PROVE  (g * a) \div g = a
<1> DEFINE q == (g * a) \div g
           r == (g * a) % g
<1>1. q \in Int /\ r \in 0 .. g - 1 /\ g * a = g * q + r
  <2>1. g * a \in Int
    OBVIOUS
  <2> QED
    BY <2>1, DivMod
<1> HIDE DEF q, r
<1> DEFINE e == a - q
<1>2. e \in Int /\ g * e = r
  BY <1>1
<1> HIDE DEF e
<1>3. ~(e >= 1)
  <2>1. e >= 1 => g * e >= g
    BY <1>2
  <2> QED
    BY <1>1, <1>2, <2>1
<1>4. ~(e <= -1)
  <2>1. e <= -1 => g * e <= -g
    BY <1>2
  <2> QED
    BY <1>1, <1>2, <2>1
<1>5. e = 0
  BY <1>2, <1>3, <1>4
<1> QED
  BY <1>1, <1>5 DEF e, q

(* Fraction reduces n / d to its lowest terms.                             *)
LEMMA FractionParts ==
    ASSUME NEW n \in Int, NEW d \in Nat \ {0}
    PROVE  \E a \in Int, b \in Nat \ {0}, g \in Nat \ {0} :
              /\ Fraction(n, d) = <<a, b>> /\ n = g * a /\ d = g * b
              /\ \A h \in Nat \ {0} : Divides(h, n) /\ Divides(h, d) => h <= g
<1> DEFINE m == Abs(n)
           g == Gcd[<<m, d>>]
<1>1. m \in Nat /\ (m = n \/ m = -n)
  BY DEF Abs
<1>2. Abs(d) = d /\ Sign(d) = 1
  BY DEF Abs, Sign
<1>3. g \in CommonDivisors(m, d) /\ \A j \in CommonDivisors(m, d) : j <= g
  BY <1>1, GcdIs, GreatestIs
<1>4. Fraction(n, d) = <<1 * (n \div g), d \div g>>
  BY <1>2 DEF Fraction
<1>5. \A h \in Nat \ {0} : Divides(h, n) <=> Divides(h, m)
  <2> SUFFICES ASSUME NEW h \in Nat \ {0} PROVE Divides(h, n) <=> Divides(h, m)
    OBVIOUS
  <2>1. \A q \in Int : -q \in Int /\ h * (-q) = -(h * q)
    OBVIOUS
  <2> HIDE DEF m
  <2>2. CASE m = n
    BY <2>2
  <2>3. CASE m = -n
    <3>1. ASSUME NEW q \in Int, n = h * q PROVE Divides(h, m)
      <4>1. m = h * (-q)
        BY <2>1, <2>3, <3>1
      <4> QED
        BY <4>1, <2>1 DEF Divides
    <3>2. ASSUME NEW q \in Int, m = h * q PROVE Divides(h, n)
      <4>1. n = h * (-q)
        BY <1>1, <2>1, <2>3, <3>2
      <4> QED
        BY <4>1, <2>1 DEF Divides
    <3> QED
      BY <3>1, <3>2 DEF Divides
  <2> QED
    BY <1>1, <2>2, <2>3
<1> HIDE DEF m, g
<1>6. g \in Nat \ {0} /\ Divides(g, n) /\ Divides(g, d)
  BY <1>3, <1>5 DEF CommonDivisors
<1>7. PICK a \in Int, b \in Int : n = g * a /\ d = g * b
  BY <1>6 DEF Divides
<1>8. n \div g = a /\ d \div g = b
  BY <1>6, <1>7, ExactDiv
<1>9. b \in Nat \ {0}
  <2>1. b <= 0 => g * b <= 0
    BY <1>6
  <2> QED
    BY <1>7, <2>1
<1>10. \A h \in Nat \ {0} : Divides(h, n) /\ Divides(h, d) => h <= g
  BY <1>3, <1>5 DEF CommonDivisors
<1>11. Fraction(n, d) = <<a, b>>
  BY <1>4, <1>7, <1>8
<1> QED
  BY <1>6, <1>7, <1>9, <1>10, <1>11

(* No fraction of the same value has a smaller denominator.                *)
LEMMA FractionLowest ==
    ASSUME NEW n \in Int, NEW d \in Nat \ {0}
    PROVE  \E a \in Int, b \in Nat \ {0} :
              /\ Fraction(n, d) = <<a, b>> /\ a * d = n * b
              /\ \A q \in Denominators(n, d) : b <= q
<1>1. PICK a \in Int, b \in Nat \ {0}, g \in Nat \ {0} :
              /\ Fraction(n, d) = <<a, b>> /\ n = g * a /\ d = g * b
              /\ \A h \in Nat \ {0} : Divides(h, n) /\ Divides(h, d) => h <= g
  BY FractionParts
<1>2. a * d = n * b
  <2>1. a * (g * b) = (g * a) * b
    OBVIOUS
  <2> QED
    BY <1>1, <2>1
<1>3. b \in Denominators(n, d) /\ Denominators(n, d) \in SUBSET Nat
  BY <1>2 DEF Denominators
<1>4. PICK M \in Denominators(n, d) : \A q \in Denominators(n, d) : M <= q
  BY <1>3, NatLeast
<1>5. PICK p \in Int : p * d = n * M
  BY <1>4 DEF Denominators
<1>6. M \in Nat \ {0} /\ M <= b
  BY <1>3, <1>4 DEF Denominators
<1>7. PICK h \in Int, r \in 0 .. M - 1 : d = M * h + r
  <2>1. d % M \in 0 .. M - 1 /\ d \div M \in Int /\ d = M * (d \div M) + (d % M)
    BY <1>6, DivMod
  <2> QED
    BY <2>1
<1>8. r = 0
  <2> SUFFICES ASSUME r # 0 PROVE FALSE
    OBVIOUS
  <2>1. (n - p * h) * d = n * d - (p * d) * h
    BY <1>6, <1>7
  <2>2. (p * d) * h = n * (M * h)
    <3>1. (n * M) * h = n * (M * h)
      BY <1>6, <1>7
    <3> QED
      BY <1>5, <3>1
  <2>3. n * d - n * (M * h) = n * (d - M * h)
    BY <1>6, <1>7
  <2>4. d - M * h = r
    BY <1>6, <1>7
  <2>5. (n - p * h) * d = n * r
    BY <2>1, <2>2, <2>3, <2>4
  <2>6. n - p * h \in Int /\ r \in Nat \ {0}
    BY <1>6, <1>7
  <2>7. r \in Denominators(n, d)
    BY <2>5, <2>6 DEF Denominators
  <2> QED
    BY <1>4, <1>6, <2>7
<1>9. d = M * h
  BY <1>6, <1>7, <1>8
<1>10. h \in Nat \ {0}
  <2>1. h <= 0 => M * h <= 0
    BY <1>6, <1>7
  <2> QED
    BY <1>7, <1>9, <2>1
<1>11. n = h * p
  <2>1. (h * p) * M = p * (M * h)
    BY <1>6, <1>10
  <2>2. (h * p) * M = n * M
    BY <1>5, <1>9, <2>1
  <2>3. h * p \in Int
    BY <1>10
  <2> QED
    BY <1>6, <2>2, <2>3, Cancel
<1>12. h <= g
  <2>1. d = h * M /\ M \in Int /\ p \in Int
    BY <1>6, <1>9, <1>10
  <2> QED
    BY <1>1, <1>10, <1>11, <2>1 DEF Divides
<1>13. b <= M
  <2> SUFFICES ASSUME M + 1 <= b PROVE FALSE
    BY <1>6
  <2>1. M * h <= M * g
    BY <1>6, <1>10, <1>12
  <2>2. g * (M + 1) <= g * b
    <3>1. b - (M + 1) \in Nat
      BY <1>6
    <3>2. g * (b - (M + 1)) \in Nat
      BY <3>1
    <3>3. g * (b - (M + 1)) = g * b - g * (M + 1)
      BY <1>6
    <3>4. g * b \in Int /\ g * (M + 1) \in Int
      BY <1>6
    <3> QED
      BY <3>2, <3>3, <3>4
  <2>3. g * (M + 1) = M * g + g
    BY <1>6
  <2>4. M * g \in Nat /\ M * h \in Nat /\ g * b \in Nat
    BY <1>6, <1>10
  <2> QED
    BY <1>1, <1>9, <2>1, <2>2, <2>3, <2>4
<1> QED
  BY <1>1, <1>2, <1>4, <1>6, <1>13 DEF Denominators

(* A reduced fraction has the same value.                                  *)
LEMMA FractionTerms ==
    ASSUME NEW n \in Int, NEW d \in Nat \ {0}
    PROVE  \E a \in Int, b \in Nat \ {0} : Fraction(n, d) = <<a, b>> /\ a * d = n * b
<1>1. PICK a \in Int, b \in Nat \ {0} :
              /\ Fraction(n, d) = <<a, b>> /\ a * d = n * b
              /\ \A q \in Denominators(n, d) : b <= q
  BY FractionLowest
<1> QED
  BY <1>1

(* Fractions of the same value are the same.                               *)
LEMMA FractionEqual ==
    ASSUME NEW n \in Int, NEW d \in Nat \ {0}, NEW m \in Int, NEW e \in Nat \ {0},
           n * e = m * d
    PROVE  Fraction(n, d) = Fraction(m, e)
<1>1. PICK a \in Int, b \in Nat \ {0} :
              /\ Fraction(n, d) = <<a, b>> /\ a * d = n * b
              /\ \A q \in Denominators(n, d) : b <= q
  BY FractionLowest
<1>2. PICK u \in Int, v \in Nat \ {0} :
              /\ Fraction(m, e) = <<u, v>> /\ u * e = m * v
              /\ \A q \in Denominators(m, e) : v <= q
  BY FractionLowest
<1>3. a * e = m * b
  <2>1. (a * e) * d = (a * d) * e
    OBVIOUS
  <2>2. (n * b) * e = (n * e) * b
    OBVIOUS
  <2>3. (m * d) * b = (m * b) * d
    OBVIOUS
  <2>4. (a * e) * d = (m * b) * d /\ a * e \in Int /\ m * b \in Int
    BY <1>1, <2>1, <2>2, <2>3
  <2> QED
    BY <2>4, Cancel
<1>4. u * d = n * v
  <2>1. (u * d) * e = (u * e) * d
    OBVIOUS
  <2>2. (m * v) * d = (m * d) * v
    OBVIOUS
  <2>3. (n * e) * v = (n * v) * e
    OBVIOUS
  <2>4. (u * d) * e = (n * v) * e /\ u * d \in Int /\ n * v \in Int
    BY <1>2, <2>1, <2>2, <2>3
  <2> QED
    BY <2>4, Cancel
<1>5. b = v
  <2>1. b \in Denominators(m, e) /\ v \in Denominators(n, d)
    BY <1>3, <1>4 DEF Denominators
  <2> QED
    BY <1>1, <1>2, <2>1
<1>6. a = u
  <2>1. a * d = u * d
    BY <1>1, <1>4, <1>5
  <2> QED
    BY <2>1, Cancel
<1> QED
  BY <1>1, <1>2, <1>5, <1>6

-----------------------------------------------------------------------------
(* The numbers among the values: neither DNAN nor infinite                 *)

Numbers == {Fraction(n, d) : n \in Int, d \in Nat \ {0}}

(* A fraction is a number, in lowest terms.                                *)
LEMMA FractionNumber ==
    ASSUME NEW n \in Int, NEW d \in Nat \ {0}
    PROVE  /\ Fraction(n, d) \in Numbers
           /\ Fraction(n, d)[1] \in Int /\ Fraction(n, d)[2] \in Nat \ {0}
           /\ Fraction(n, d)[1] * d = n * Fraction(n, d)[2]
<1>1. PICK a \in Int, b \in Nat \ {0} : Fraction(n, d) = <<a, b>> /\ a * d = n * b
  BY FractionTerms
<1> QED
  BY <1>1 DEF Numbers

(* A number is a pair in lowest terms, and known.                          *)
LEMMA NumberIs ==
    ASSUME NEW x \in Numbers
    PROVE  /\ x[1] \in Int /\ x[2] \in Nat \ {0}
           /\ x = Fraction(x[1], x[2]) /\ ~IsNan(x)
           /\ x = <<x[1], x[2]>>
<1>1. PICK n \in Int, d \in Nat \ {0} : x = Fraction(n, d)
  BY DEF Numbers
<1>2. PICK a \in Int, b \in Nat \ {0} : x = <<a, b>> /\ a * d = n * b
  BY <1>1, FractionTerms
<1>3. Fraction(a, b) = Fraction(n, d)
  BY <1>2, FractionEqual
<1> QED
  BY <1>1, <1>2, <1>3 DEF IsNan, DNAN

(* Integers are numbers.                                                   *)
LEMMA NumIs ==
    ASSUME NEW k \in Int
    PROVE  Num(k) = Fraction(k, 1) /\ Num(k) \in Numbers /\ Num(k)[1] = k /\ Num(k)[2] = 1
<1> DEFINE one == 1
<1>1. one \in Nat \ {0}
  OBVIOUS
<1> HIDE DEF one
<1>2. PICK a \in Int, b \in Nat \ {0} :
              /\ Fraction(k, one) = <<a, b>> /\ a * one = k * b
              /\ \A q \in Denominators(k, one) : b <= q
  BY <1>1, FractionLowest
<1> USE DEF one
<1>3. 1 \in Denominators(k, 1)
  BY DEF Denominators
<1>4. b = 1
  BY <1>2, <1>3
<1>5. a = k
  BY <1>2, <1>4
<1>6. Num(k) = Fraction(k, 1)
  BY <1>2, <1>4, <1>5 DEF Num
<1>7. Fraction(k, 1) \in Numbers
  BY FractionNumber
<1> QED
  BY <1>6, <1>7 DEF Num

(* The sum of two fractions, reduced or not.                               *)
LEMMA PlusIs ==
    ASSUME NEW n \in Int, NEW d \in Nat \ {0}, NEW m \in Int, NEW e \in Nat \ {0}
    PROVE  Plus(Fraction(n, d), Fraction(m, e)) = Fraction(n * e + m * d, d * e)
<1>1. PICK a \in Int, b \in Nat \ {0} : Fraction(n, d) = <<a, b>> /\ a * d = n * b
  BY FractionTerms
<1>2. PICK u \in Int, v \in Nat \ {0} : Fraction(m, e) = <<u, v>> /\ u * e = m * v
  BY FractionTerms
<1>3. Plus(Fraction(n, d), Fraction(m, e)) = Fraction(a * v + u * b, b * v)
  BY <1>1, <1>2 DEF Plus
<1>4. (a * v + u * b) * (d * e) = (a * d) * (v * e) + (u * e) * (b * d)
  OBVIOUS
<1>5. (n * e + m * d) * (b * v) = (n * b) * (v * e) + (m * v) * (b * d)
  OBVIOUS
<1>6. (a * v + u * b) * (d * e) = (n * e + m * d) * (b * v)
  BY <1>1, <1>2, <1>4, <1>5
<1>7. a * v + u * b \in Int /\ n * e + m * d \in Int
  OBVIOUS
<1>8. b * v \in Nat \ {0} /\ d * e \in Nat \ {0}
  OBVIOUS
<1>9. Fraction(a * v + u * b, b * v) = Fraction(n * e + m * d, d * e)
  BY <1>6, <1>7, <1>8, FractionEqual
<1> QED
  BY <1>3, <1>9

(* A fraction times an integer.                                            *)
LEMMA TimesIs ==
    ASSUME NEW n \in Int, NEW d \in Nat \ {0}, NEW k \in Int
    PROVE  Times(Fraction(n, d), Num(k)) = Fraction(n * k, d)
<1>1. PICK a \in Int, b \in Nat \ {0} : Fraction(n, d) = <<a, b>> /\ a * d = n * b
  BY FractionTerms
<1>2. Times(Fraction(n, d), Num(k)) = Fraction(a * k, b)
  BY <1>1 DEF Times, Num
<1>3. (a * k) * d = (a * d) * k
  OBVIOUS
<1>4. (n * k) * b = (n * b) * k
  OBVIOUS
<1>5. (a * k) * d = (n * k) * b /\ a * k \in Int /\ n * k \in Int
  BY <1>1, <1>3, <1>4
<1>6. Fraction(a * k, b) = Fraction(n * k, d)
  BY <1>5, FractionEqual
<1> QED
  BY <1>2, <1>6

(* A fraction divided by an integer.                                       *)
LEMMA OverIs ==
    ASSUME NEW n \in Int, NEW d \in Nat \ {0}, NEW k \in Nat \ {0}
    PROVE  Over(Fraction(n, d), Num(k)) = Fraction(n, d * k)
<1>1. PICK a \in Int, b \in Nat \ {0} : Fraction(n, d) = <<a, b>> /\ a * d = n * b
  BY FractionTerms
<1>2. Over(Fraction(n, d), Num(k)) = Fraction(a, b * k)
  BY <1>1 DEF Over, Num
<1>3. a * (d * k) = (a * d) * k
  OBVIOUS
<1>4. n * (b * k) = (n * b) * k
  OBVIOUS
<1>5. a * (d * k) = n * (b * k) /\ b * k \in Nat \ {0} /\ d * k \in Nat \ {0}
  BY <1>1, <1>3, <1>4
<1>6. Fraction(a, b * k) = Fraction(n, d * k)
  BY <1>5, FractionEqual
<1> QED
  BY <1>2, <1>6

-----------------------------------------------------------------------------
(* Laws                                                                    *)

(* The sum of numbers is a number.                                         *)
LEMMA PlusNumber ==
    ASSUME NEW x \in Numbers, NEW y \in Numbers
    PROVE  Plus(x, y) \in Numbers
<1>1. x[1] \in Int /\ x[2] \in Nat \ {0} /\ y[1] \in Int /\ y[2] \in Nat \ {0}
  BY NumberIs
<1>2. x[1] * y[2] + y[1] * x[2] \in Int /\ x[2] * y[2] \in Nat \ {0}
  BY <1>1
<1> QED
  BY <1>2, FractionNumber DEF Plus

(* Addition commutes.                                                      *)
LEMMA PlusCommutes ==
    ASSUME NEW x \in Numbers, NEW y \in Numbers
    PROVE  Plus(x, y) = Plus(y, x)
<1>1. x[1] \in Int /\ x[2] \in Nat \ {0} /\ y[1] \in Int /\ y[2] \in Nat \ {0}
  BY NumberIs
<1>2. x[1] * y[2] + y[1] * x[2] = y[1] * x[2] + x[1] * y[2] /\ x[2] * y[2] = y[2] * x[2]
  BY <1>1
<1> QED
  BY <1>2 DEF Plus

(* Addition associates.                                                    *)
LEMMA PlusAssociates ==
    ASSUME NEW x \in Numbers, NEW y \in Numbers, NEW z \in Numbers
    PROVE  Plus(Plus(x, y), z) = Plus(x, Plus(y, z))
<1>1. PICK a \in Int, b \in Nat \ {0} : x = Fraction(a, b)
  BY DEF Numbers
<1>2. PICK c \in Int, d \in Nat \ {0} : y = Fraction(c, d)
  BY DEF Numbers
<1>3. PICK e \in Int, f \in Nat \ {0} : z = Fraction(e, f)
  BY DEF Numbers
<1> DEFINE p == a * d + c * b
           q == b * d
           r == c * f + e * d
           s == d * f
<1>4. p \in Int /\ q \in Nat \ {0} /\ r \in Int /\ s \in Nat \ {0}
  OBVIOUS
<1>5. Plus(x, y) = Fraction(p, q) /\ Plus(y, z) = Fraction(r, s)
  <2>1. Plus(Fraction(a, b), Fraction(c, d)) = Fraction(p, q)
    BY PlusIs, Zenon
  <2>2. Plus(Fraction(c, d), Fraction(e, f)) = Fraction(r, s)
    BY PlusIs, Zenon
  <2> HIDE DEF p, q, r, s
  <2> QED
    BY <1>1, <1>2, <1>3, <2>1, <2>2
<1> HIDE DEF p, q, r, s
<1>6. Plus(Plus(x, y), z) = Fraction(p * f + e * q, q * f)
  BY <1>3, <1>4, <1>5, PlusIs
<1>7. Plus(x, Plus(y, z)) = Fraction(a * s + r * b, b * s)
  BY <1>1, <1>4, <1>5, PlusIs
<1> USE DEF p, q, r, s
<1>8. (b * d) * f = b * (d * f)
  OBVIOUS
<1>9. (a * d + c * b) * f + e * (b * d) = a * (d * f) + (c * f + e * d) * b
  OBVIOUS
<1> QED
  BY <1>6, <1>7, <1>8, <1>9

(* Nothing added.                                                          *)
LEMMA PlusZero ==
    ASSUME NEW x \in Numbers
    PROVE  Plus(x, Num(0)) = x /\ Plus(Num(0), x) = x
<1>1. x[1] \in Int /\ x[2] \in Nat \ {0} /\ x = Fraction(x[1], x[2])
  BY NumberIs
<1>2. x[1] * 1 + 0 * x[2] = x[1] /\ x[2] * 1 = x[2]
  BY <1>1
<1>3. 0 * x[2] + x[1] * 1 = x[1] /\ 1 * x[2] = x[2]
  BY <1>1
<1> QED
  BY <1>1, <1>2, <1>3 DEF Plus, Num

(* An integral multiple of a number is a number.                           *)
LEMMA TimesNumber ==
    ASSUME NEW x \in Numbers, NEW k \in Int
    PROVE  Times(x, Num(k)) \in Numbers
<1>1. PICK n \in Int, d \in Nat \ {0} : x = Fraction(n, d)
  BY DEF Numbers
<1>2. n * k \in Int
  OBVIOUS
<1> QED
  BY <1>1, <1>2, TimesIs, FractionNumber

(* A number divided by a count is a number.                                *)
LEMMA OverNumber ==
    ASSUME NEW x \in Numbers, NEW k \in Nat \ {0}
    PROVE  Over(x, Num(k)) \in Numbers
<1>1. PICK n \in Int, d \in Nat \ {0} : x = Fraction(n, d)
  BY DEF Numbers
<1>2. d * k \in Nat \ {0}
  OBVIOUS
<1> QED
  BY <1>1, <1>2, OverIs, FractionNumber

(* Zero times.                                                             *)
LEMMA TimesZero ==
    ASSUME NEW x \in Numbers
    PROVE  Times(x, Num(0)) = Num(0)
<1>1. PICK n \in Int, d \in Nat \ {0} : x = Fraction(n, d)
  BY DEF Numbers
<1>2. Times(x, Num(0)) = Fraction(n * 0, d)
  BY <1>1, TimesIs
<1>3. (n * 0) * 1 = 0 * d /\ n * 0 \in Int
  OBVIOUS
<1>4. Fraction(n * 0, d) = Fraction(0, 1)
  BY <1>3, FractionEqual
<1> QED
  BY <1>2, <1>4, NumIs

(* Once.                                                                   *)
LEMMA TimesOne ==
    ASSUME NEW x \in Numbers
    PROVE  Times(x, Num(1)) = x
<1>1. PICK n \in Int, d \in Nat \ {0} : x = Fraction(n, d)
  BY DEF Numbers
<1>2. Times(x, Num(1)) = Fraction(n * 1, d)
  BY <1>1, TimesIs
<1> QED
  BY <1>1, <1>2

(* Multiplication distributes over the sum of two counts.                  *)
LEMMA TimesSum ==
    ASSUME NEW x \in Numbers, NEW j \in Int, NEW k \in Int
    PROVE  Times(x, Num(j + k)) = Plus(Times(x, Num(j)), Times(x, Num(k)))
<1>1. PICK n \in Int, d \in Nat \ {0} : x = Fraction(n, d)
  BY DEF Numbers
<1>2. Times(x, Num(j + k)) = Fraction(n * (j + k), d)
  BY <1>1, TimesIs
<1>3. Times(x, Num(j)) = Fraction(n * j, d) /\ Times(x, Num(k)) = Fraction(n * k, d)
  BY <1>1, TimesIs
<1>4. n * j \in Int /\ n * k \in Int /\ n * (j + k) \in Int
  OBVIOUS
<1>5. Plus(Times(x, Num(j)), Times(x, Num(k))) = Fraction((n * j) * d + (n * k) * d, d * d)
  BY <1>3, <1>4, PlusIs
<1>6. (n * (j + k)) * (d * d) = ((n * j) * d + (n * k) * d) * d
  OBVIOUS
<1>7. (n * j) * d + (n * k) * d \in Int /\ d * d \in Nat \ {0}
  OBVIOUS
<1> QED
  BY <1>2, <1>4, <1>5, <1>6, <1>7, FractionEqual

(* A rate times a part of the interval, and the part of the whole.         *)
LEMMA RateTimes ==
    ASSUME NEW x \in Numbers, NEW j \in Int, NEW k \in Nat \ {0}
    PROVE  /\ Times(Over(x, Num(k)), Num(j)) = Over(Times(x, Num(j)), Num(k))
           /\ Times(Over(x, Num(k)), Num(k)) = x
           /\ Over(Times(x, Num(k)), Num(k)) = x
<1>1. PICK n \in Int, d \in Nat \ {0} : x = Fraction(n, d)
  BY DEF Numbers
<1>2. d * k \in Nat \ {0} /\ n * j \in Int /\ n * k \in Int /\ k \in Int
  OBVIOUS
<1>3. Over(x, Num(k)) = Fraction(n, d * k)
  BY <1>1, OverIs
<1>4. \A i \in Int : Times(Over(x, Num(k)), Num(i)) = Fraction(n * i, d * k)
  BY <1>2, <1>3, TimesIs
<1>5. \A i \in Int : Over(Times(x, Num(i)), Num(k)) = Fraction(n * i, d * k)
  <2> SUFFICES ASSUME NEW i \in Int PROVE Over(Times(x, Num(i)), Num(k)) = Fraction(n * i, d * k)
    OBVIOUS
  <2>1. n * i \in Int
    OBVIOUS
  <2>2. Times(x, Num(i)) = Fraction(n * i, d)
    BY <1>1, TimesIs
  <2> QED
    BY <2>1, <2>2, OverIs
<1>6. (n * k) * d = n * (d * k)
  OBVIOUS
<1>7. Fraction(n * k, d * k) = Fraction(n, d)
  BY <1>2, <1>6, FractionEqual
<1> QED
  BY <1>1, <1>2, <1>4, <1>5, <1>7

-----------------------------------------------------------------------------
(* Sums over finite sets                                                   *)

\* Some member of a set, the one Total takes first.
Some(T) == CHOOSE x \in T : TRUE

\* What Total makes of a set s, given the totals of smaller sets.
TotalStep(f, g, s) == IF s = {} THEN Num(0) ELSE Plus(f[Some(s)], g[s \ {Some(s)}])

\* The subsets of X with at most n members.
Small(X, n) == {s \in SUBSET X : Cardinality(s) <= n}

(* A set that is not empty is one member and a smaller set.                *)
LEMMA SmallStep ==
    ASSUME NEW X, IsFiniteSet(X), NEW s \in SUBSET X, s # {}
    PROVE  /\ Some(s) \in s /\ IsFiniteSet(s) /\ s \ {Some(s)} \in SUBSET X
           /\ Cardinality(s) \in Nat \ {0}
           /\ Cardinality(s \ {Some(s)}) = Cardinality(s) - 1
<1>1. Some(s) \in s
  BY DEF Some
<1>2. IsFiniteSet(s)
  BY FS_Subset
<1>3. Cardinality(s) \in Nat /\ Cardinality(s) # 0
  BY <1>2, FS_CardinalityType, FS_EmptySet
<1> QED
  BY <1>1, <1>2, <1>3, FS_RemoveElement

(* The recursion that Total follows has a solution on the subsets of a     *)
(* finite set: by induction over their size.                               *)
LEMMA TotalExists ==
    ASSUME NEW X, IsFiniteSet(X), NEW f
    PROVE  \E g : g = [s \in SUBSET X |-> TotalStep(f, g, s)]
<1> DEFINE Ok(n) == \E g : g = [s \in Small(X, n) |-> TotalStep(f, g, s)]
           N == {n \in Nat : Ok(n)}
<1>1. \A s \in SUBSET X : IsFiniteSet(s) /\ Cardinality(s) \in Nat
  BY FS_Subset, FS_CardinalityType
<1>2. Ok(0)
  <2> DEFINE g == [s \in Small(X, 0) |-> Num(0)]
  <2>1. \A s \in Small(X, 0) : s = {}
    BY <1>1, FS_EmptySet DEF Small
  <2>2. \A s \in Small(X, 0) : g[s] = TotalStep(f, g, s)
    BY <2>1 DEF TotalStep
  <2>3. g = [s \in Small(X, 0) |-> TotalStep(f, g, s)]
    BY <2>2
  <2> QED
    BY <2>3
<1>3. ASSUME NEW n \in Nat, Ok(n) PROVE Ok(n + 1)
  <2>1. PICK g : g = [s \in Small(X, n) |-> TotalStep(f, g, s)]
    BY <1>3
  <2> DEFINE h == [s \in Small(X, n + 1) |-> TotalStep(f, g, s)]
  <2>2. ASSUME NEW s \in Small(X, n + 1), s # {}
        PROVE  s \ {Some(s)} \in Small(X, n)
    <3>1. s \in SUBSET X /\ Cardinality(s) <= n + 1
      BY DEF Small
    <3>2. /\ s \ {Some(s)} \in SUBSET X
          /\ Cardinality(s) \in Nat \ {0}
          /\ Cardinality(s \ {Some(s)}) = Cardinality(s) - 1
      BY <2>2, <3>1, SmallStep
    <3> QED
      BY <3>1, <3>2 DEF Small
  <2>3. \A s \in Small(X, n) : s \in Small(X, n + 1) /\ h[s] = g[s]
    <3>1. \A s \in Small(X, n) : s \in Small(X, n + 1)
      BY <1>1 DEF Small
    <3>2. \A s \in Small(X, n) : g[s] = TotalStep(f, g, s)
      BY <2>1
    <3> QED
      BY <3>1, <3>2
  <2>4. ASSUME NEW s \in Small(X, n + 1) PROVE h[s] = TotalStep(f, h, s)
    <3>1. CASE s = {}
      BY <3>1 DEF TotalStep
    <3>2. CASE s # {}
      <4>1. h[s \ {Some(s)}] = g[s \ {Some(s)}]
        BY <2>2, <2>3, <3>2
      <4> QED
        BY <3>2, <4>1 DEF TotalStep
    <3> QED
      BY <3>1, <3>2
  <2>5. h = [s \in Small(X, n + 1) |-> TotalStep(f, h, s)]
    <3>1. \A s \in Small(X, n + 1) : h[s] = TotalStep(f, h, s)
      BY <2>4
    <3>2. h = [s \in Small(X, n + 1) |-> h[s]]
      OBVIOUS
    <3> HIDE DEF h
    <3> QED
      BY <3>1, <3>2
  <2> QED
    BY <2>5
<1>4. N = Nat
  <2>1. N \in SUBSET Nat /\ 0 \in N /\ \A n \in N : n + 1 \in N
    <3> HIDE DEF Ok
    <3> QED
      BY <1>2, <1>3
  <2> HIDE DEF N
  <2> QED
    BY <2>1, NatSet
<1>5. Cardinality(X) \in Nat
  BY FS_CardinalityType
<1>6. Small(X, Cardinality(X)) = SUBSET X
  BY FS_Subset DEF Small
<1>7. Ok(Cardinality(X))
  <2> HIDE DEF Ok
  <2> QED
    BY <1>4, <1>5
<1> QED
  BY <1>6, <1>7

\* g is the table of the totals of the subsets of X.
Table(f, X, g) == g = [s \in SUBSET X |-> TotalStep(f, g, s)]

(* Two tables agree where both are defined.                                *)
LEMMA TablesAgree ==
    ASSUME NEW X, IsFiniteSet(X), NEW V \in SUBSET X, NEW f, NEW g, NEW h,
           Table(f, X, g), Table(f, V, h)
    PROVE  \A s \in SUBSET V : h[s] = g[s]
<1> DEFINE N == {n \in Nat : \A s \in SUBSET V : Cardinality(s) = n => h[s] = g[s]}
<1>1. \A s \in SUBSET V : s \in SUBSET X /\ IsFiniteSet(s) /\ Cardinality(s) \in Nat
  BY FS_Subset, FS_CardinalityType
<1>2. IsFiniteSet(V)
  BY FS_Subset
<1>3. \A s \in SUBSET V : h[s] = TotalStep(f, h, s) /\ g[s] = TotalStep(f, g, s)
  BY <1>1 DEF Table
<1>4. 0 \in N
  <2> SUFFICES ASSUME NEW s \in SUBSET V, Cardinality(s) = 0 PROVE h[s] = g[s]
    OBVIOUS
  <2>1. s = {}
    BY <1>1, FS_EmptySet
  <2> QED
    BY <1>3, <2>1 DEF TotalStep
<1>5. ASSUME NEW n \in N PROVE n + 1 \in N
  <2> SUFFICES ASSUME NEW s \in SUBSET V, Cardinality(s) = n + 1 PROVE h[s] = g[s]
    OBVIOUS
  <2>1. n \in Nat /\ n + 1 # 0
    OBVIOUS
  <2>2. s # {}
    BY <2>1, FS_EmptySet
  <2> DEFINE r == s \ {Some(s)}
  <2>3. r \in SUBSET V /\ Cardinality(r) = n
    BY <1>2, <2>2, SmallStep
  <2>4. h[r] = g[r]
    BY <2>3
  <2> QED
    BY <1>3, <2>2, <2>4 DEF TotalStep
<1>6. N = Nat
  <2>1. N \in SUBSET Nat
    OBVIOUS
  <2> HIDE DEF N
  <2> QED
    BY <1>4, <1>5, <2>1, NatSet
<1> QED
  BY <1>1, <1>6

(* Total is what the table says.                                           *)
LEMMA TotalTable ==
    ASSUME NEW X, IsFiniteSet(X), NEW f
    PROVE  \E g : Table(f, X, g) /\ Total(f, X) = g[X]
<1> DEFINE iter == CHOOSE g : Table(f, X, g)
<1>1. Table(f, X, iter)
  BY TotalExists DEF Table
<1>2. Total(f, X) = iter[X]
  BY DEF Total, MapThenFoldSet, Table, TotalStep, Some
<1> HIDE DEF iter
<1> QED
  BY <1>1, <1>2

(* The recursion of Total.                                                 *)
LEMMA TotalEmpty ==
    ASSUME NEW f
    PROVE  Total(f, {}) = Num(0)
<1>1. PICK g : Table(f, {}, g) /\ Total(f, {}) = g[{}]
  BY FS_EmptySet, TotalTable
<1> QED
  BY <1>1 DEF Table, TotalStep

(* The recursion of Total.                                                 *)
LEMMA TotalRec ==
    ASSUME NEW X, IsFiniteSet(X), NEW f, X # {}
    PROVE  Total(f, X) = Plus(f[Some(X)], Total(f, X \ {Some(X)}))
<1> DEFINE V == X \ {Some(X)}
<1>1. PICK g : Table(f, X, g) /\ Total(f, X) = g[X]
  BY TotalTable
<1>2. IsFiniteSet(V) /\ V \in SUBSET X
  BY FS_Subset
<1>3. PICK h : Table(f, V, h) /\ Total(f, V) = h[V]
  BY <1>2, TotalTable
<1>4. h[V] = g[V]
  BY <1>1, <1>2, <1>3, TablesAgree
<1>5. g[X] = Plus(f[Some(X)], g[V])
  BY <1>1 DEF Table, TotalStep
<1> QED
  BY <1>1, <1>3, <1>4, <1>5

(* Induction over the subsets of a finite set.                             *)
LEMMA SubsetInduction ==
    ASSUME NEW X, IsFiniteSet(X), NEW A \in SUBSET SUBSET X, {} \in A,
           \A s \in A : \A x \in X \ s : s \cup {x} \in A
    PROVE  A = SUBSET X
<1> DEFINE N == {n \in Nat : \A s \in SUBSET X : Cardinality(s) = n => s \in A}
<1>1. \A s \in SUBSET X : IsFiniteSet(s) /\ Cardinality(s) \in Nat
  BY FS_Subset, FS_CardinalityType
<1>2. 0 \in N
  BY <1>1, FS_EmptySet
<1>3. ASSUME NEW n \in N PROVE n + 1 \in N
  <2> SUFFICES ASSUME NEW s \in SUBSET X, Cardinality(s) = n + 1 PROVE s \in A
    OBVIOUS
  <2>1. n \in Nat /\ n + 1 # 0
    OBVIOUS
  <2>2. s # {}
    BY <2>1, FS_EmptySet
  <2> DEFINE r == s \ {Some(s)}
  <2>3. r \in SUBSET X /\ Cardinality(r) = n /\ Some(s) \in s
    BY <2>2, SmallStep
  <2>4. r \in A /\ Some(s) \in X \ r /\ s = r \cup {Some(s)}
    BY <2>3
  <2> QED
    BY <2>4
<1>4. N = Nat
  <2>1. N \in SUBSET Nat
    OBVIOUS
  <2> HIDE DEF N
  <2> QED
    BY <1>2, <1>3, <2>1, NatSet
<1> QED
  BY <1>1, <1>4

(* The total of numbers is a number.                                       *)
LEMMA TotalNumber ==
    ASSUME NEW X, IsFiniteSet(X), NEW f, \A x \in X : f[x] \in Numbers
    PROVE  Total(f, X) \in Numbers
<1> DEFINE N == {n \in Nat : \A s \in SUBSET X : Cardinality(s) = n => Total(f, s) \in Numbers}
<1>1. \A s \in SUBSET X : IsFiniteSet(s) /\ Cardinality(s) \in Nat
  BY FS_Subset, FS_CardinalityType
<1>2. 0 \in N
  <2> SUFFICES ASSUME NEW s \in SUBSET X, Cardinality(s) = 0 PROVE Total(f, s) \in Numbers
    OBVIOUS
  <2>1. s = {}
    BY <1>1, FS_EmptySet
  <2> QED
    BY <2>1, TotalEmpty, NumIs
<1>3. ASSUME NEW n \in N PROVE n + 1 \in N
  <2> SUFFICES ASSUME NEW s \in SUBSET X, Cardinality(s) = n + 1 PROVE Total(f, s) \in Numbers
    OBVIOUS
  <2>1. s # {}
    BY FS_EmptySet
  <2> DEFINE r == s \ {Some(s)}
  <2>2. r \in SUBSET X /\ Cardinality(r) = n /\ Some(s) \in s
    BY <2>1, SmallStep
  <2>3. Total(f, s) = Plus(f[Some(s)], Total(f, r))
    BY <1>1, <2>1, TotalRec
  <2> HIDE DEF r
  <2>4. Total(f, r) \in Numbers /\ f[Some(s)] \in Numbers
    BY <2>2
  <2> QED
    BY <2>3, <2>4, PlusNumber
<1>4. N = Nat
  <2>1. N \in SUBSET Nat
    OBVIOUS
  <2> HIDE DEF N
  <2> QED
    BY <1>2, <1>3, <2>1, NatSet
<1> QED
  BY <1>1, <1>4

(* Any member may be taken first: Total does not depend on the order.      *)
LEMMA TotalRemove ==
    ASSUME NEW X, IsFiniteSet(X), NEW f, \A x \in X : f[x] \in Numbers, NEW x \in X
    PROVE  Total(f, X) = Plus(f[x], Total(f, X \ {x}))
<1> DEFINE P(s, y) == Total(f, s) = Plus(f[y], Total(f, s \ {y}))
           N == {n \in Nat : \A s \in SUBSET X : \A y \in s : Cardinality(s) = n => P(s, y)}
<1>1. \A s \in SUBSET X : IsFiniteSet(s) /\ Cardinality(s) \in Nat
  BY FS_Subset, FS_CardinalityType
<1>2. 0 \in N
  BY <1>1, FS_EmptySet
<1>3. ASSUME NEW n \in N PROVE n + 1 \in N
  <2> SUFFICES ASSUME NEW s \in SUBSET X, NEW y \in s, Cardinality(s) = n + 1 PROVE P(s, y)
    OBVIOUS
  <2> DEFINE c == Some(s)
             r == s \ {c}
             t == s \ {y}
             u == r \ {y}
  <2>1. r \in SUBSET X /\ Cardinality(r) = n /\ c \in s
    BY SmallStep
  <2>2. Total(f, s) = Plus(f[c], Total(f, r))
    BY <1>1, TotalRec
  <2>3. CASE c = y
    BY <2>2, <2>3
  <2>4. CASE c # y
    <3>1. t \in SUBSET X /\ Cardinality(t) = n
      BY <1>1, FS_RemoveElement
    <3>2. y \in r /\ c \in t /\ t \ {c} = u /\ u \in SUBSET X
      BY <2>1, <2>4
    <3>3. f[c] \in Numbers /\ f[y] \in Numbers
      BY <2>1
    <3>4. P(r, y) /\ P(t, c)
      BY <2>1, <3>1, <3>2
    <3>5. Total(f, u) \in Numbers
      BY <1>1, <3>2, TotalNumber
    <3>6. Total(f, r) = Plus(f[y], Total(f, u)) /\ Total(f, t) = Plus(f[c], Total(f, u))
      BY <3>2, <3>4
    <3> HIDE DEF c, r, t, u
    <3>7. Plus(f[c], Plus(f[y], Total(f, u))) = Plus(f[y], Plus(f[c], Total(f, u)))
      <4>1. Plus(Plus(f[c], f[y]), Total(f, u)) = Plus(f[c], Plus(f[y], Total(f, u)))
        BY <3>3, <3>5, PlusAssociates
      <4>2. Plus(Plus(f[y], f[c]), Total(f, u)) = Plus(f[y], Plus(f[c], Total(f, u)))
        BY <3>3, <3>5, PlusAssociates
      <4>3. Plus(f[c], f[y]) = Plus(f[y], f[c])
        BY <3>3, PlusCommutes
      <4> QED
        BY <4>1, <4>2, <4>3
    <3> QED
      BY <2>2, <3>6, <3>7 DEF t
  <2> QED
    BY <2>3, <2>4
<1>4. N = Nat
  <2>1. N \in SUBSET Nat
    OBVIOUS
  <2> HIDE DEF N
  <2> QED
    BY <1>2, <1>3, <2>1, NatSet
<1> QED
  BY <1>1, <1>4

(* The total with one more member.                                         *)
LEMMA TotalAdd ==
    ASSUME NEW X, IsFiniteSet(X), NEW f, \A y \in X : f[y] \in Numbers,
           NEW x, f[x] \in Numbers, x \notin X
    PROVE  Total(f, X \cup {x}) = Plus(f[x], Total(f, X))
<1> DEFINE V == X \cup {x}
<1>1. IsFiniteSet(V) /\ x \in V /\ V \ {x} = X /\ \A y \in V : f[y] \in Numbers
  BY FS_AddElement
<1> HIDE DEF V
<1>2. Total(f, V) = Plus(f[x], Total(f, V \ {x}))
  BY <1>1, TotalRemove
<1> QED
  BY <1>1, <1>2 DEF V

(* The total of two sets without common members.                           *)
LEMMA TotalUnion ==
    ASSUME NEW S, NEW X, IsFiniteSet(S), IsFiniteSet(X), NEW f,
           \A y \in S \cup X : f[y] \in Numbers, S \cap X = {}
    PROVE  Total(f, S \cup X) = Plus(Total(f, S), Total(f, X))
<1> DEFINE A == {s \in SUBSET X : Total(f, S \cup s) = Plus(Total(f, S), Total(f, s))}
<1>1. \A s \in SUBSET X : IsFiniteSet(s) /\ IsFiniteSet(S \cup s)
  BY FS_Subset, FS_Union
<1>2. Total(f, S) \in Numbers
  BY TotalNumber
<1>3. {} \in A
  <2>1. S \cup {} = S
    OBVIOUS
  <2> QED
    BY <1>2, <2>1, TotalEmpty, PlusZero
<1>4. ASSUME NEW s \in A, NEW x \in X \ s PROVE s \cup {x} \in A
  <2>1. IsFiniteSet(s) /\ IsFiniteSet(S \cup s) /\ x \notin S \cup s /\ f[x] \in Numbers
        /\ \A y \in S \cup s : f[y] \in Numbers
    BY <1>1
  <2>2. Total(f, s) \in Numbers
    BY <2>1, TotalNumber
  <2>3. Total(f, s \cup {x}) = Plus(f[x], Total(f, s))
    BY <2>1, TotalAdd
  <2>4. Total(f, (S \cup s) \cup {x}) = Plus(f[x], Total(f, S \cup s))
    BY <2>1, TotalAdd
  <2>5. (S \cup s) \cup {x} = S \cup (s \cup {x})
    OBVIOUS
  <2>6. Total(f, S \cup s) = Plus(Total(f, S), Total(f, s))
    OBVIOUS
  <2>7. Plus(f[x], Plus(Total(f, S), Total(f, s))) = Plus(Total(f, S), Plus(f[x], Total(f, s)))
    <3>1. Plus(Plus(f[x], Total(f, S)), Total(f, s)) = Plus(f[x], Plus(Total(f, S), Total(f, s)))
      BY <1>2, <2>1, <2>2, PlusAssociates
    <3>2. Plus(Plus(Total(f, S), f[x]), Total(f, s)) = Plus(Total(f, S), Plus(f[x], Total(f, s)))
      BY <1>2, <2>1, <2>2, PlusAssociates
    <3>3. Plus(f[x], Total(f, S)) = Plus(Total(f, S), f[x])
      BY <1>2, <2>1, PlusCommutes
    <3> QED
      BY <3>1, <3>2, <3>3
  <2>8. Total(f, S \cup (s \cup {x})) = Plus(Total(f, S), Total(f, s \cup {x}))
    BY <2>3, <2>4, <2>5, <2>6, <2>7
  <2> QED
    BY <2>8
<1>5. A = SUBSET X
  <2>1. A \in SUBSET SUBSET X
    OBVIOUS
  <2> HIDE DEF A
  <2> QED
    BY <1>3, <1>4, <2>1, SubsetInduction
<1> QED
  BY <1>5

(* The total of equal numbers.                                             *)
LEMMA TotalEqual ==
    ASSUME NEW X, IsFiniteSet(X), NEW f, NEW r \in Numbers, \A y \in X : f[y] = r
    PROVE  Total(f, X) = Times(r, Num(Cardinality(X)))
<1> DEFINE A == {s \in SUBSET X : Total(f, s) = Times(r, Num(Cardinality(s)))}
<1>1. {} \in A
  BY TotalEmpty, FS_EmptySet, TimesZero
<1>2. ASSUME NEW s \in A, NEW x \in X \ s PROVE s \cup {x} \in A
  <2>1. IsFiniteSet(s) /\ x \notin s /\ f[x] = r /\ \A y \in s : f[y] \in Numbers
    BY FS_Subset
  <2>2. Total(f, s \cup {x}) = Plus(r, Total(f, s))
    BY <2>1, TotalAdd
  <2> DEFINE c == Cardinality(s)
  <2>3. Cardinality(s \cup {x}) = c + 1 /\ c \in Nat
    BY <2>1, FS_AddElement, FS_CardinalityType
  <2>4. Total(f, s) = Times(r, Num(c))
    OBVIOUS
  <2> HIDE DEF c
  <2>5. Times(r, Num(1 + c)) = Plus(Times(r, Num(1)), Times(r, Num(c)))
    BY <2>3, TimesSum
  <2>6. 1 + c = c + 1
    BY <2>3
  <2> QED
    BY <2>2, <2>3, <2>4, <2>5, <2>6, TimesOne
<1>3. A = SUBSET X
  <2>1. A \in SUBSET SUBSET X
    OBVIOUS
  <2> HIDE DEF A
  <2> QED
    BY <1>1, <1>2, <2>1, SubsetInduction
<1> QED
  BY <1>3

(* The total depends only on the values in the set.                        *)
LEMMA TotalSame ==
    ASSUME NEW X, IsFiniteSet(X), NEW f, NEW g, \A y \in X : f[y] = g[y],
           \A y \in X : f[y] \in Numbers
    PROVE  Total(f, X) = Total(g, X)
<1> DEFINE A == {s \in SUBSET X : Total(f, s) = Total(g, s)}
<1>1. {} \in A
  BY TotalEmpty
<1>2. ASSUME NEW s \in A, NEW x \in X \ s PROVE s \cup {x} \in A
  <2>1. IsFiniteSet(s) /\ x \notin s /\ f[x] = g[x] /\ f[x] \in Numbers
        /\ \A y \in s : f[y] \in Numbers /\ g[y] \in Numbers
    BY FS_Subset
  <2>2. Total(f, s \cup {x}) = Plus(f[x], Total(f, s))
    BY <2>1, TotalAdd
  <2>3. Total(g, s \cup {x}) = Plus(g[x], Total(g, s))
    BY <2>1, TotalAdd
  <2> QED
    BY <2>1, <2>2, <2>3
<1>3. A = SUBSET X
  <2>1. A \in SUBSET SUBSET X
    OBVIOUS
  <2> HIDE DEF A
  <2> QED
    BY <1>1, <1>2, <2>1, SubsetInduction
<1> QED
  BY <1>3

-----------------------------------------------------------------------------
(* One archive                                                             *)

\* The rows of an archive of n rows.
RowsOf(f, n) == f = [r \in 0..(n - 1) |-> f[r]]

(* The length of the list is the number of rows.                           *)
LEMMA NewestFirstLen ==
    ASSUME NEW f, NEW n \in Nat, NEW cur
    PROVE  Len(NewestFirst(f, cur, n)) = n
BY DEF NewestFirst

\* The rows after the next one has been written.
WrittenRows(f, cur, n, row) == [f EXCEPT ![NextRow(cur, n)] = row]

(* Writing the next row puts it in front of the list.                      *)
LEMMA WriteIsPush ==
    ASSUME NEW n \in Nat \ {0}, NEW cur \in 0..(n - 1), NEW f, RowsOf(f, n), NEW row
    PROVE  LET g == WrittenRows(f, cur, n, row)
               next == NextRow(cur, n)
           IN  /\ next \in 0..(n - 1)
               /\ RowsOf(g, n)
               /\ NewestFirst(g, next, n) = RR!Pushed(NewestFirst(f, cur, n), row)
               /\ NewestFirst(g, next, n)[1] = row
<1> DEFINE next == NextRow(cur, n)
           g == [f EXCEPT ![next] = row]
<1>1. next \in 0..(n - 1)
  BY DEF NextRow
<1>2. RowsOf(g, n)
  BY <1>1 DEF RowsOf
<1>3. \A r \in 0..(n - 1) : g[r] = IF r = next THEN row ELSE f[r]
  BY <1>1 DEF RowsOf
<1>4. NewestFirst(g, next, n) = RR!Pushed(NewestFirst(f, cur, n), row)
  <2> DEFINE list == NewestFirst(f, cur, n)
             P(k) == IF k = 1 THEN row ELSE list[k - 1]
  <2>1. RR!Pushed(list, row) = [k \in 1..n |-> P(k)]
    BY NewestFirstLen DEF RR!Pushed
  <2>2. \A k \in 1..n : NewestFirst(g, next, n)[k] = P(k)
    <3> SUFFICES ASSUME NEW k \in 1..n
                 PROVE  NewestFirst(g, next, n)[k] = P(k)
      OBVIOUS
    <3>1. CASE k = 1
      BY <1>1, <1>3, <3>1 DEF NewestFirst
    <3>2. CASE k # 1
      BY <1>3, <3>2 DEF NewestFirst, NextRow
    <3> QED BY <3>1, <3>2
  <2>3. NewestFirst(g, next, n) = [k \in 1..n |-> NewestFirst(g, next, n)[k]]
    BY DEF NewestFirst
  <2> HIDE DEF P
  <2> QED BY <2>1, <2>2, <2>3
<1>5. NewestFirst(g, next, n)[1] = row
  BY <1>1, <1>3 DEF NewestFirst
<1> QED BY <1>1, <1>2, <1>4, <1>5 DEF WrittenRows

(* Growing adds unknown rows at the end of the list.                       *)
LEMMA GrowIsGrown ==
    ASSUME NEW n \in Nat \ {0}, NEW cur \in 0..(n - 1), NEW f, RowsOf(f, n),
           NEW m \in Nat \ {0}
    PROVE  LET g == GrownRows(f, cur, n, m, UnknownRow)
           IN  /\ RowsOf(g, n + m)
               /\ NewestFirst(g, cur, n + m) = RR!Grown(NewestFirst(f, cur, n), m)
<1> DEFINE g == GrownRows(f, cur, n, m, UnknownRow)
           list == NewestFirst(f, cur, n)
           P(k) == IF k <= n THEN list[k] ELSE UnknownRow
<1>1. RowsOf(g, n + m)
  BY DEF RowsOf, GrownRows
<1>2. \A r \in 0..(n + m - 1) : g[r] = IF r <= cur THEN f[r]
                                        ELSE IF r <= cur + m THEN UnknownRow
                                        ELSE f[r - m]
  BY DEF GrownRows
<1>3. RR!Grown(list, m) = [k \in 1..(n + m) |-> P(k)]
  BY NewestFirstLen DEF RR!Grown
<1>4. \A k \in 1..(n + m) : NewestFirst(g, cur, n + m)[k] = P(k)
  <2> HIDE DEF g
  <2> SUFFICES ASSUME NEW k \in 1..(n + m)
               PROVE  NewestFirst(g, cur, n + m)[k] = P(k)
    OBVIOUS
  <2>1. CASE k - 1 <= cur
    BY <1>2, <2>1 DEF NewestFirst
  <2>2. CASE k - 1 > cur /\ k <= n
    BY <1>2, <2>2 DEF NewestFirst
  <2>3. CASE k > n
    BY <1>2, <2>3 DEF NewestFirst
  <2> QED BY <2>1, <2>2, <2>3
<1>5. NewestFirst(g, cur, n + m) = [k \in 1..(n + m) |-> NewestFirst(g, cur, n + m)[k]]
  BY DEF NewestFirst
<1> HIDE DEF P
<1> QED BY <1>1, <1>3, <1>4, <1>5

(* Shrinking drops the end of the list, also when the rows to remove wrap  *)
(* around the end of the archive.                                          *)
LEMMA ShrinkIsShrunk ==
    ASSUME NEW n \in Nat \ {0}, NEW cur \in 0..(n - 1), NEW f, RowsOf(f, n),
           NEW m \in 1..(n - 1)
    PROVE  LET g == ShrunkRows(f, cur, n, m)
               c == ShrunkCur(cur, n, m)
           IN  /\ c \in 0..(n - m - 1)
               /\ RowsOf(g, n - m)
               /\ NewestFirst(g, c, n - m) = RR!Shrunk(NewestFirst(f, cur, n), m)
<1> DEFINE g == ShrunkRows(f, cur, n, m)
           c == ShrunkCur(cur, n, m)
           front == RemovedInFront(cur, n, m)
           list == NewestFirst(f, cur, n)
<1>1. /\ cur + m >= n => front = cur + m - n + 1
      /\ cur + m < n => front = 0
      /\ c = cur - front
  BY DEF RemovedInFront, Wrap, ShrunkCur
<1>2. c \in 0..(n - m - 1) /\ front \in Nat
  BY <1>1
<1>3. RowsOf(g, n - m)
  BY DEF RowsOf, ShrunkRows
<1>4. \A r \in 0..(n - m - 1) : g[r] = IF r <= c THEN f[r + front] ELSE f[r + m]
  BY DEF ShrunkRows
<1>5. RR!Shrunk(list, m) = [k \in 1..(n - m) |-> list[k]]
  BY NewestFirstLen DEF RR!Shrunk
<1>6. \A k \in 1..(n - m) : NewestFirst(g, c, n - m)[k] = list[k]
  <2> HIDE DEF g, c, front
  <2> SUFFICES ASSUME NEW k \in 1..(n - m)
               PROVE  NewestFirst(g, c, n - m)[k] = list[k]
    OBVIOUS
  <2>1. CASE k - 1 <= c
    <3>1. NewestFirst(g, c, n - m)[k] = g[c - (k - 1)]
      BY <2>1 DEF NewestFirst
    <3>2. c - (k - 1) \in 0..(n - m - 1) /\ c - (k - 1) <= c
      BY <1>2, <2>1
    <3>3. c - (k - 1) + front = cur - (k - 1) /\ k - 1 <= cur
      BY <1>1, <1>2, <2>1
    <3>4. list[k] = f[cur - (k - 1)]
      BY <3>3 DEF NewestFirst
    <3> QED BY <1>4, <3>1, <3>2, <3>3, <3>4
  <2>2. CASE k - 1 > c
    <3>1. NewestFirst(g, c, n - m)[k] = g[c - (k - 1) + (n - m)]
      BY <1>2, <2>2 DEF NewestFirst
    <3>2. c = cur /\ k - 1 > cur
      BY <1>1, <1>2, <2>2
    <3>3. /\ c - (k - 1) + (n - m) \in 0..(n - m - 1)
          /\ ~(c - (k - 1) + (n - m) <= c)
          /\ c - (k - 1) + (n - m) + m = cur - (k - 1) + n
      BY <1>2, <2>2, <3>2
    <3>4. list[k] = f[cur - (k - 1) + n]
      BY <3>2 DEF NewestFirst
    <3> QED BY <1>4, <3>1, <3>3, <3>4
  <2> QED BY <1>2, <2>1, <2>2
<1>7. NewestFirst(g, c, n - m) = [k \in 1..(n - m) |-> NewestFirst(g, c, n - m)[k]]
  BY DEF NewestFirst
<1> HIDE DEF list
<1> QED BY <1>2, <1>3, <1>5, <1>6, <1>7 DEF list

-----------------------------------------------------------------------------
(* The archives of a file                                                  *)

\* The current row lies in the archive, and the archive has all its rows.
RingInv ==
    /\ row_cnt \in [RRAs -> Nat \ {0}]
    /\ cur_row \in [RRAs -> Nat]
    /\ rows = [i \in RRAs |-> rows[i]]
    /\ \A i \in RRAs : /\ cur_row[i] \in 0..(row_cnt[i] - 1)
                       /\ RowsOf(rows[i], row_cnt[i])

(* A new file has unknown rows only.                                       *)
LEMMA FileInit == Init => RingInv /\ RR!Init
<1> SUFFICES ASSUME Init PROVE RingInv /\ RR!Init
  OBVIOUS
<1>1. row_cnt \in [RRAs -> Nat \ {0}]
  <2> DEFINE Definition == [cf : {"AVERAGE", "MINIMUM", "MAXIMUM", "LAST"},
                            pdp_cnt : Nat \ {0}, row_cnt : Nat \ {0},
                            xff : Nat \X (Nat \ {0})]
  <2>1. Archives \in Seq(Definition)
    BY FileAssumption
  <2>2. \A a \in Definition : a.row_cnt \in Nat \ {0}
    OBVIOUS
  <2> HIDE DEF Definition
  <2>3. \A i \in RRAs : Archives[i] \in Definition
    BY <2>1 DEF RRAs
  <2>4. \A i \in RRAs : Archives[i].row_cnt \in Nat \ {0}
    BY <2>2, <2>3
  <2> QED BY <2>4 DEF Init
<1>2. cur_row \in [RRAs -> Nat] /\ \A i \in RRAs : cur_row[i] \in 0..(row_cnt[i] - 1)
  <2>1. PICK random \in [RRAs -> Random] : cur_row = [i \in RRAs |-> random[i] % row_cnt[i]]
    BY DEF Init
  <2>2. \A a \in Nat, b \in Nat \ {0} : a % b \in 0..(b - 1)
    OBVIOUS
  <2>3. \A i \in RRAs : random[i] \in Nat /\ row_cnt[i] \in Nat \ {0}
    BY <1>1, FileAssumption
  <2>4. \A i \in RRAs : cur_row[i] \in 0..(row_cnt[i] - 1) /\ cur_row[i] \in Nat
    <3> SUFFICES ASSUME NEW i \in RRAs
                 PROVE  cur_row[i] \in 0..(row_cnt[i] - 1) /\ cur_row[i] \in Nat
      OBVIOUS
    <3>1. cur_row[i] = random[i] % row_cnt[i]
      BY <2>1
    <3>2. cur_row[i] \in 0..(row_cnt[i] - 1)
      BY <2>2, <2>3, <3>1
    <3> QED BY <2>3, <3>2
  <2> QED BY <2>1, <2>4
<1>3. /\ rows = [i \in RRAs |-> rows[i]]
      /\ \A i \in RRAs : /\ RowsOf(rows[i], row_cnt[i])
                         /\ \A r \in 0..(row_cnt[i] - 1) : rows[i][r] = UnknownRow
  BY DEF Init, RowsOf
<1>4. RR!Init
  <2> SUFFICES ASSUME NEW i \in RRAs, NEW k \in 1..Len(Lists[i])
               PROVE  Lists[i][k] = UnknownRow
    BY DEF RR!Init
  <2>1. Lists[i] = NewestFirst(rows[i], cur_row[i], row_cnt[i])
    BY DEF Lists
  <2>2. k \in 1..row_cnt[i]
    BY <1>1, <2>1, NewestFirstLen
  <2>3. /\ row_cnt[i] \in Nat \ {0} /\ cur_row[i] \in 0..(row_cnt[i] - 1)
        /\ \A r \in 0..(row_cnt[i] - 1) : rows[i][r] = UnknownRow
    BY <1>1, <1>2, <1>3
  <2>4. CASE k - 1 <= cur_row[i]
    <3>1. cur_row[i] - (k - 1) \in 0..(row_cnt[i] - 1)
      BY <2>2, <2>3, <2>4
    <3>2. Lists[i][k] = rows[i][cur_row[i] - (k - 1)]
      BY <2>1, <2>2, <2>4 DEF NewestFirst
    <3> QED BY <2>3, <3>1, <3>2
  <2>5. CASE k - 1 > cur_row[i]
    <3>1. cur_row[i] - (k - 1) + row_cnt[i] \in 0..(row_cnt[i] - 1)
      BY <2>2, <2>3, <2>5
    <3>2. Lists[i][k] = rows[i][cur_row[i] - (k - 1) + row_cnt[i]]
      BY <2>1, <2>2, <2>3, <2>5 DEF NewestFirst
    <3> QED BY <2>3, <3>1, <3>2
  <2> QED BY <2>2, <2>3, <2>4, <2>5
<1> QED BY <1>1, <1>2, <1>3, <1>4 DEF RingInv

(* A step that leaves the archives alone.                                  *)
LEMMA RingUnchanged ==
    ASSUME RingInv, UNCHANGED ringVars
    PROVE  RingInv' /\ UNCHANGED Lists
BY DEF RingInv, ringVars, Lists, RowsOf

\* In this step archive i, and no other, gets the n rows f.
ArchiveBecomes(i, f, cur, n) ==
    /\ i \in RRAs /\ n \in Nat \ {0} /\ cur \in 0..(n - 1) /\ RowsOf(f, n)
    /\ rows' = [rows EXCEPT ![i] = f] /\ cur_row' = [cur_row EXCEPT ![i] = cur]
    /\ row_cnt' = [row_cnt EXCEPT ![i] = n]

(* A step that changes one archive changes one list.                       *)
LEMMA OneArchive ==
    ASSUME RingInv, NEW i, NEW f, NEW cur, NEW n, ArchiveBecomes(i, f, cur, n)
    PROVE  /\ RingInv'
           /\ Lists' = [Lists EXCEPT ![i] = NewestFirst(f, cur, n)]
<1> USE DEF ArchiveBecomes
<1>1. /\ rows'[i] = f /\ cur_row'[i] = cur /\ row_cnt'[i] = n
      /\ \A j \in RRAs \ {i} : /\ rows'[j] = rows[j] /\ cur_row'[j] = cur_row[j]
                               /\ row_cnt'[j] = row_cnt[j]
  BY DEF RingInv
<1>2. RingInv'
  <2>1. cur \in Nat
    OBVIOUS
  <2>2. /\ row_cnt' \in [RRAs -> Nat \ {0}] /\ cur_row' \in [RRAs -> Nat]
        /\ rows' = [j \in RRAs |-> rows'[j]]
    BY <2>1 DEF RingInv
  <2>3. \A j \in RRAs : /\ cur_row'[j] \in 0..(row_cnt'[j] - 1)
                        /\ RowsOf(rows'[j], row_cnt'[j])
    BY <1>1 DEF RingInv
  <2> QED BY <2>2, <2>3 DEF RingInv, RowsOf
<1>3. Lists' = [Lists EXCEPT ![i] = NewestFirst(f, cur, n)]
  <2>1. Lists' = [j \in RRAs |-> NewestFirst(rows'[j], cur_row'[j], row_cnt'[j])]
    BY DEF Lists
  <2>2. \A j \in RRAs : NewestFirst(rows'[j], cur_row'[j], row_cnt'[j]) =
            IF j = i THEN NewestFirst(f, cur, n)
            ELSE NewestFirst(rows[j], cur_row[j], row_cnt[j])
    BY <1>1
  <2> QED BY <2>1, <2>2 DEF Lists
<1> QED BY <1>2, <1>3

(* A row that is written becomes the first one of its list.                *)
LEMMA WriteLists ==
    ASSUME RingInv, NEW i \in RRAs, NEW row,
           cur_row' = [cur_row EXCEPT ![i] = NextRow(cur_row[i], row_cnt[i])],
           rows' = [rows EXCEPT ![i] = [@ EXCEPT ![NextRow(cur_row[i], row_cnt[i])] = row]],
           row_cnt' = row_cnt
    PROVE  /\ RingInv' /\ Lists' = [Lists EXCEPT ![i] = RR!Pushed(Lists[i], row)]
           /\ Lists'[i][1] = row
<1> DEFINE n == row_cnt[i]
           next == NextRow(cur_row[i], n)
           g == WrittenRows(rows[i], cur_row[i], n, row)
<1>1. n \in Nat \ {0} /\ cur_row[i] \in 0..(n - 1) /\ RowsOf(rows[i], n)
  BY DEF RingInv
<1>2. Lists[i] = NewestFirst(rows[i], cur_row[i], n)
  BY DEF Lists
<1>3. /\ rows' = [rows EXCEPT ![i] = g] /\ cur_row' = [cur_row EXCEPT ![i] = next]
      /\ row_cnt' = [row_cnt EXCEPT ![i] = n]
  BY DEF RingInv, WrittenRows
<1>4. /\ next \in 0..(n - 1) /\ RowsOf(g, n)
      /\ NewestFirst(g, next, n) = RR!Pushed(Lists[i], row)
      /\ NewestFirst(g, next, n)[1] = row
  BY <1>1, <1>2, WriteIsPush
<1> HIDE DEF n, next, g
<1>5. ArchiveBecomes(i, g, next, n)
  BY <1>1, <1>3, <1>4 DEF ArchiveBecomes
<1>6. RingInv' /\ Lists' = [Lists EXCEPT ![i] = NewestFirst(g, next, n)]
  BY <1>5, OneArchive
<1>7. Lists'[i] = NewestFirst(g, next, n)
  BY <1>6 DEF Lists
<1> QED BY <1>4, <1>6, <1>7

(* Rows that are added are the last ones of their list.                    *)
LEMMA GrowLists ==
    ASSUME RingInv, NEW i \in RRAs, NEW m \in Nat \ {0},
           rows' = [rows EXCEPT ![i] = GrownRows(@, cur_row[i], row_cnt[i], m, UnknownRow)],
           row_cnt' = [row_cnt EXCEPT ![i] = @ + m], cur_row' = cur_row
    PROVE  /\ RingInv' /\ Lists' = [Lists EXCEPT ![i] = RR!Grown(Lists[i], m)]
           /\ m \in 1..Len(Lists'[i])
<1> DEFINE n == row_cnt[i]
           total == n + m
           g == GrownRows(rows[i], cur_row[i], n, m, UnknownRow)
<1>1. n \in Nat \ {0} /\ cur_row[i] \in 0..(n - 1) /\ RowsOf(rows[i], n)
  BY DEF RingInv
<1>2. total \in Nat \ {0} /\ cur_row[i] \in 0..(total - 1) /\ m \in 1..total
  BY <1>1
<1>3. RowsOf(g, total) /\ NewestFirst(g, cur_row[i], total) = RR!Grown(Lists[i], m)
  BY <1>1, GrowIsGrown DEF Lists
<1>4. /\ rows' = [rows EXCEPT ![i] = g] /\ cur_row' = [cur_row EXCEPT ![i] = cur_row[i]]
      /\ row_cnt' = [row_cnt EXCEPT ![i] = total]
  BY DEF RingInv
<1> HIDE DEF n, g, total
<1>5. ArchiveBecomes(i, g, cur_row[i], total)
  BY <1>2, <1>3, <1>4 DEF ArchiveBecomes
<1>6. RingInv' /\ Lists' = [Lists EXCEPT ![i] = NewestFirst(g, cur_row[i], total)]
  BY <1>5, OneArchive
<1>7. m \in 1..Len(Lists'[i])
  <2>1. Lists'[i] = NewestFirst(g, cur_row[i], total)
    BY <1>6 DEF Lists
  <2> QED BY <1>2, <2>1, NewestFirstLen
<1> QED BY <1>3, <1>6, <1>7

(* Rows that are removed are the last ones of their list.                  *)
LEMMA ShrinkLists ==
    ASSUME RingInv, NEW i \in RRAs, NEW m \in Nat \ {0}, m < row_cnt[i],
           rows' = [rows EXCEPT ![i] = ShrunkRows(@, cur_row[i], row_cnt[i], m)],
           cur_row' = [cur_row EXCEPT ![i] = ShrunkCur(@, row_cnt[i], m)],
           row_cnt' = [row_cnt EXCEPT ![i] = @ - m]
    PROVE  /\ RingInv' /\ Lists' = [Lists EXCEPT ![i] = RR!Shrunk(Lists[i], m)]
           /\ m \in 1..(Len(Lists[i]) - 1)
<1> DEFINE n == row_cnt[i]
           g == ShrunkRows(rows[i], cur_row[i], n, m)
           c == ShrunkCur(cur_row[i], n, m)
<1>1. /\ n \in Nat \ {0} /\ cur_row[i] \in 0..(n - 1) /\ RowsOf(rows[i], n)
      /\ m \in 1..(n - 1) /\ n - m \in Nat \ {0}
  BY DEF RingInv
<1>2. /\ c \in 0..(n - m - 1) /\ RowsOf(g, n - m)
      /\ NewestFirst(g, c, n - m) = RR!Shrunk(Lists[i], m)
  BY <1>1, ShrinkIsShrunk DEF Lists
<1>3. /\ rows' = [rows EXCEPT ![i] = g] /\ cur_row' = [cur_row EXCEPT ![i] = c]
      /\ row_cnt' = [row_cnt EXCEPT ![i] = n - m]
  BY DEF RingInv
<1>4. Len(Lists[i]) = n
  BY <1>1, NewestFirstLen DEF Lists
<1> HIDE DEF n, g, c
<1>5. ArchiveBecomes(i, g, c, n - m)
  BY <1>1, <1>2, <1>3 DEF ArchiveBecomes
<1>6. RingInv' /\ Lists' = [Lists EXCEPT ![i] = NewestFirst(g, c, n - m)]
  BY <1>5, OneArchive
<1> QED BY <1>1, <1>2, <1>4, <1>6

(* Every step of the file keeps the archives in order and is a step of the *)
(* lists, or leaves them as they are.                                      *)
LEMMA FileStep ==
    ASSUME RingInv, [Next]_vars
    PROVE  RingInv' /\ [RR!Next]_Lists
<1>1. CASE ArgFails \/ ArgWithinStep \/ ArgCompletesPdps \/ UNCHANGED vars
  <2>1. UNCHANGED ringVars
    BY <1>1 DEF ArgFails, ArgWithinStep, ArgCompletesPdps, vars
  <2> QED BY <2>1, RingUnchanged
<1>2. CASE WriteRow
  <2>1. PICK i \in RRAs :
          /\ cur_row' = [cur_row EXCEPT ![i] = NextRow(cur_row[i], row_cnt[i])]
          /\ \E row : rows' = [rows EXCEPT ![i] =
                                  [@ EXCEPT ![NextRow(cur_row[i], row_cnt[i])] = row]]
          /\ row_cnt' = row_cnt
    BY <1>2 DEF WriteRow
  <2>2. PICK row : rows' = [rows EXCEPT ![i] =
                              [@ EXCEPT ![NextRow(cur_row[i], row_cnt[i])] = row]]
    BY <2>1
  <2>3. RingInv' /\ Lists' = [Lists EXCEPT ![i] = RR!Pushed(Lists[i], row)] /\ Lists'[i][1] = row
    BY <2>1, <2>2, WriteLists
  <2>4. Lists' = [Lists EXCEPT ![i] = RR!Pushed(Lists[i], Lists'[i][1])]
    BY <2>3
  <2> QED BY <2>3, <2>4 DEF RR!Next, RR!Push, RR!Becomes
<1>3. CASE Grow
  <2>1. PICK i \in RRAs, m \in 1..MaxResize :
          /\ rows' = [rows EXCEPT ![i] =
                        GrownRows(@, cur_row[i], row_cnt[i], m, UnknownRow)]
          /\ row_cnt' = [row_cnt EXCEPT ![i] = @ + m]
          /\ cur_row' = cur_row
    BY <1>3 DEF Grow
  <2>2. m \in Nat \ {0}
    BY FileAssumption
  <2>3. /\ RingInv' /\ Lists' = [Lists EXCEPT ![i] = RR!Grown(Lists[i], m)]
        /\ m \in 1..Len(Lists'[i])
    BY <2>1, <2>2, GrowLists
  <2> QED BY <2>3 DEF RR!Next, RR!Grow, RR!Becomes
<1>4. CASE Shrink
  <2>1. PICK i \in RRAs, m \in 1..MaxResize :
          /\ m < row_cnt[i]
          /\ rows' = [rows EXCEPT ![i] = ShrunkRows(@, cur_row[i], row_cnt[i], m)]
          /\ cur_row' = [cur_row EXCEPT ![i] = ShrunkCur(@, row_cnt[i], m)]
          /\ row_cnt' = [row_cnt EXCEPT ![i] = @ - m]
    BY <1>4 DEF Shrink
  <2>2. m \in Nat \ {0}
    BY FileAssumption
  <2>3. /\ RingInv' /\ Lists' = [Lists EXCEPT ![i] = RR!Shrunk(Lists[i], m)]
        /\ m \in 1..(Len(Lists[i]) - 1)
    BY <2>1, <2>2, ShrinkLists
  <2> QED BY <2>3 DEF RR!Next, RR!Shrink, RR!Becomes
<1> QED BY <1>1, <1>2, <1>3, <1>4 DEF Next

(* The archives of a file, written cyclically by write_to_rras and resized *)
(* by rrd_resize, implement lists that keep the newest rows.               *)
THEOREM FileKeepsNewestRows == Spec => KeepsNewestRows
<1>1. Init => RingInv /\ RR!Init
  BY FileInit
<1>2. RingInv /\ [Next]_vars => RingInv' /\ [RR!Next]_Lists
  BY FileStep
<1> QED BY <1>1, <1>2, PTL DEF Spec, KeepsNewestRows, RR!Spec

-----------------------------------------------------------------------------
(* Steps and seconds                                                       *)

\* How many PDPs are complete at time t.
Done(t) == t \div PdpStep

(* Division is monotonic.                                                  *)
LEMMA DivMono ==
    ASSUME NEW R \in Nat \ {0}, NEW x \in Int, NEW y \in Int, x <= y
    PROVE  x \div R <= y \div R
<1> DEFINE p == x \div R
           q == y \div R
           r == x % R
           s == y % R
<1>1. p \in Int /\ r \in 0 .. R - 1 /\ x = R * p + r
  BY DivMod
<1>2. q \in Int /\ s \in 0 .. R - 1 /\ y = R * q + s
  BY DivMod
<1> HIDE DEF p, q, r, s
<1>3. ~(p >= q + 1)
  <2> SUFFICES ASSUME p >= q + 1 PROVE FALSE
    OBVIOUS
  <2>1. R * p >= R * (q + 1)
    <3>1. p - (q + 1) \in Nat
      BY <1>1, <1>2
    <3>2. R * (p - (q + 1)) \in Nat
      BY <3>1
    <3>3. R * (p - (q + 1)) = R * p - R * (q + 1)
      BY <1>1, <1>2
    <3>4. R * p \in Int /\ R * (q + 1) \in Int
      BY <1>1, <1>2
    <3> QED
      BY <3>2, <3>3, <3>4
  <2>2. R * (q + 1) = R * q + R
    BY <1>2
  <2>3. R * q \in Int /\ R * p \in Int
    BY <1>1, <1>2
  <2> QED
    BY <1>1, <1>2, <2>1, <2>2, <2>3
<1> QED
  BY <1>1, <1>2, <1>3 DEF p, q

(* The start of the running step, in full steps.                           *)
LEMMA PdpStartIs ==
    ASSUME NEW t \in Nat
    PROVE  /\ Done(t) \in Nat /\ PdpStart(t) = PdpStep * Done(t)
           /\ PdpStart(t) \in Nat /\ PdpStart(t) <= t /\ t < PdpStart(t) + PdpStep
           /\ t % PdpStep \in Nat /\ t % PdpStep = t - PdpStart(t)
<1> DEFINE p == t \div PdpStep
           r == t % PdpStep
<1>1. PdpStep \in Nat \ {0}
  BY FileAssumption
<1>2. p \in Nat /\ r \in 0 .. PdpStep - 1 /\ t = PdpStep * p + r
  <2>1. t \in Int
    OBVIOUS
  <2>2. r \in 0 .. PdpStep - 1 /\ t = PdpStep * p + r
    BY <1>1, <2>1, DivMod
  <2> QED
    BY <1>1, <2>2, DivNat
<1> HIDE DEF p, r
<1>3. PdpStep * p \in Nat
  BY <1>1, <1>2
<1>4. PdpStart(t) = t - r /\ Done(t) = p
  BY DEF PdpStart, Done, p, r
<1> QED
  BY <1>1, <1>2, <1>3, <1>4 DEF r

\* The steps between two updates.
Steps(a, t) == (PdpStart(t) - PdpStart(a)) \div PdpStep

(* The steps between two updates are the PDPs they complete.               *)
LEMMA StepsIs ==
    ASSUME NEW a \in Nat, NEW t \in Nat, a <= t
    PROVE  /\ Steps(a, t) = Done(t) - Done(a) /\ Steps(a, t) \in Nat
           /\ PdpStep * Steps(a, t) = PdpStart(t) - PdpStart(a)
           /\ PdpStart(a) <= PdpStart(t)
           /\ Steps(a, t) = 0 => PdpStart(t) = PdpStart(a)
           /\ Steps(a, t) > 0 => a < PdpStart(t)
<1>1. PdpStep \in Nat \ {0}
  BY FileAssumption
<1> DEFINE p == Done(a)
           q == Done(t)
<1>2. p \in Nat /\ q \in Nat /\ PdpStart(a) = PdpStep * p /\ PdpStart(t) = PdpStep * q
      /\ a < PdpStart(a) + PdpStep /\ PdpStart(a) \in Nat /\ PdpStart(t) \in Nat
  BY PdpStartIs
<1>3. p <= q
  BY <1>1, DivMono DEF Done
<1> HIDE DEF p, q
<1>4. PdpStep * (q - p) = PdpStart(t) - PdpStart(a)
  BY <1>1, <1>2
<1>5. Steps(a, t) = q - p
  <2>1. q - p \in Int
    BY <1>2
  <2>2. (PdpStep * (q - p)) \div PdpStep = q - p
    BY <1>1, <2>1, ExactDiv
  <2> QED
    BY <1>4, <2>2 DEF Steps
<1>6. q - p > 0 => PdpStep * (q - p) >= PdpStep
  BY <1>1, <1>2
<1>7. PdpStep * (q - p) \in Nat
  BY <1>1, <1>2, <1>3
<1>8. q - p = 0 => PdpStart(t) = PdpStart(a)
  BY <1>2
<1> QED
  BY <1>1, <1>2, <1>3, <1>4, <1>5, <1>6, <1>7, <1>8 DEF p, q

-----------------------------------------------------------------------------
(* Values and their types                                                  *)

Values == Numbers \cup {DNAN}

(* The members of a sequence.                                              *)
LEMMA SeqMember ==
    ASSUME NEW S, NEW s \in Seq(S), NEW i \in DOMAIN s
    PROVE  s[i] \in S
OBVIOUS

(* What rrd_create guarantees of every data source and archive.            *)
LEMMA Declared ==
    /\ \A d \in DS : /\ DataSources[d].type \in {"GAUGE", "COUNTER", "DERIVE", "ABSOLUTE"}
                     /\ DataSources[d].mrhb \in Nat
    /\ \A i \in RRAs : /\ Archives[i].cf \in {"AVERAGE", "MINIMUM", "MAXIMUM", "LAST"}
                       /\ Archives[i].pdp_cnt \in Nat \ {0} /\ Archives[i].row_cnt \in Nat \ {0}
                       /\ Archives[i].xff \in Nat \X (Nat \ {0})
<1> DEFINE D == [type : {"GAUGE", "COUNTER", "DERIVE", "ABSOLUTE"},
                 mrhb : Nat, min : Int \X Nat, max : Int \X Nat]
           A == [cf : {"AVERAGE", "MINIMUM", "MAXIMUM", "LAST"},
                 pdp_cnt : Nat \ {0}, row_cnt : Nat \ {0}, xff : Nat \X (Nat \ {0})]
<1>1. DataSources \in Seq(D) /\ Archives \in Seq(A)
  BY FileAssumption
<1> HIDE DEF D, A
<1>2. \A d \in DS : DataSources[d] \in D
  BY <1>1, SeqMember DEF DS
<1>3. \A i \in RRAs : Archives[i] \in A
  BY <1>1, SeqMember DEF RRAs
<1>4. \A x \in D : x.type \in {"GAUGE", "COUNTER", "DERIVE", "ABSOLUTE"} /\ x.mrhb \in Nat
  BY DEF D
<1>5. \A x \in A : /\ x.cf \in {"AVERAGE", "MINIMUM", "MAXIMUM", "LAST"}
                  /\ x.pdp_cnt \in Nat \ {0} /\ x.row_cnt \in Nat \ {0}
                  /\ x.xff \in Nat \X (Nat \ {0})
  BY DEF A
<1> QED
  BY <1>2, <1>3, <1>4, <1>5

(* The unknown stays unknown when it is divided.                           *)
LEMMA NanOver ==
    ASSUME NEW k \in Int
    PROVE  Over(DNAN, Num(k)) = DNAN
<1>1. Over(DNAN, Num(k)) = Fraction(0 * 1, 0 * k)
  BY DEF Over, DNAN, Num
<1> QED
  BY <1>1 DEF Fraction, Sign, DNAN

(* The unknown stays unknown when it is multiplied.                        *)
LEMMA NanTimes ==
    ASSUME NEW k \in Int
    PROVE  Times(DNAN, Num(k)) = DNAN
<1>1. Times(DNAN, Num(k)) = Fraction(0 * k, 0 * 1)
  BY DEF Times, DNAN, Num
<1> QED
  BY <1>1 DEF Fraction, Sign, DNAN

(* An average of nothing is unknown.                                       *)
LEMMA ZeroOverZero == Over(Num(0), Num(0)) = DNAN
<1>1. Over(Num(0), Num(0)) = Fraction(0 * 1, 1 * 0)
  BY DEF Over, Num
<1> QED
  BY <1>1 DEF Fraction, Sign, DNAN

(* A value is a number or unknown, never both.                             *)
LEMMA NanIsNoNumber == DNAN \notin Numbers /\ \A x \in Values : IsNan(x) <=> x \notin Numbers
<1>1. \A x \in Numbers : ~IsNan(x)
  BY NumberIs
<1> QED
  BY <1>1 DEF Values, IsNan

Prep == [last_ds : Reading, unkn : Nat, val : Values]

FileTyped ==
    /\ last_up \in Nat /\ now \in Nat /\ last_up <= now /\ (Idle => now = last_up)
    /\ todo \in [RRAs -> Nat]
    /\ pdp_prep \in [DS -> Prep]
    /\ seconds \in [DS -> [1..MaxTime -> Values]]
    /\ pdps \in [DS -> [1..(MaxTime \div PdpStep) -> Values]]

\* PdpPrepSound at any time, also while rows are written: last_up then lags behind.
PrepSound ==
    \A d \in DS :
        LET since == (PdpStart(now) + 1)..now
            known == KnownSeconds(d, since)
        IN  /\ pdp_prep[d].unkn = Cardinality(since) - Cardinality(known)
            /\ IfNan(pdp_prep[d].val, Num(0)) = Total(seconds[d], known)

(* What update_pdp_prep makes of a reading is an integer or unknown.       *)
LEMMA NewIs ==
    ASSUME pdp_prep \in [DS -> Prep], NEW d \in DS, NEW reading \in Reading,
           NEW interval \in Nat
    PROVE  PdpNew(d, reading, interval) \in {DNAN} \cup {Num(k) : k \in Int}
<1>1. \A x \in Int : CounterDiff(x) \in Int
  BY FileAssumption DEF CounterDiff
<1>2. reading.num \in Int
  BY DEF Reading
<1>3. pdp_prep[d].last_ds.num \in Int
  BY DEF Prep, Reading
<1>4. DataSources[d].type \in {"GAUGE", "COUNTER", "DERIVE", "ABSOLUTE"}
  BY Declared
<1> DEFINE diff == reading.num - pdp_prep[d].last_ds.num
<1>5. diff \in Int /\ CounterDiff(diff) \in Int /\ reading.num * interval \in Int
  BY <1>1, <1>2, <1>3
<1> HIDE DEF diff
<1>6. Amount(d, reading, interval) \in {DNAN} \cup {Num(k) : k \in Int}
  <2> DEFINE num == reading.num
             more == CounterDiff(diff)
             total == num * interval
             same == Comparable(reading, pdp_prep[d].last_ds)
  <2>1. CASE DataSources[d].type = "GAUGE"
    <3>1. Amount(d, reading, interval) = Num(total)
      BY <2>1 DEF Amount
    <3> QED
      BY <1>5, <3>1
  <2>2. CASE DataSources[d].type = "ABSOLUTE"
    <3>1. Amount(d, reading, interval) = Num(num)
      BY <2>2 DEF Amount
    <3> QED
      BY <1>2, <3>1
  <2>3. CASE DataSources[d].type = "COUNTER"
    <3>1. Amount(d, reading, interval) = IF same THEN Num(more) ELSE DNAN
      BY <2>3 DEF Amount, diff
    <3> QED
      BY <1>5, <3>1
  <2>4. CASE DataSources[d].type = "DERIVE"
    <3>1. Amount(d, reading, interval) = IF same THEN Num(diff) ELSE DNAN
      BY <2>4 DEF Amount, diff
    <3> QED
      BY <1>5, <3>1
  <2> QED
    BY <1>4, <2>1, <2>2, <2>3, <2>4
<1> QED
  BY <1>6 DEF PdpNew

-----------------------------------------------------------------------------
(* The known among a stretch of seconds                                    *)

KnownIn(f, S) == {s \in S : s \in DOMAIN f /\ ~IsNan(f[s])}

\* f with the value r from a + 1 to t.
Painted(f, a, t, r) == [s \in DOMAIN f |-> IF s \in (a + 1)..t THEN r ELSE f[s]]

(* A stretch of seconds or PDPs is finite.                                 *)
LEMMA Stretch ==
    ASSUME NEW a \in Int, NEW b \in Int, a <= b
    PROVE  IsFiniteSet((a + 1)..b) /\ Cardinality((a + 1)..b) = b - a
<1> DEFINE c == a + 1
<1>1. c \in Int
  OBVIOUS
<1> HIDE DEF c
<1>2. IsFiniteSet(c..b) /\ Cardinality(c..b) = IF c > b THEN 0 ELSE b - c + 1
  BY <1>1, FS_Interval
<1> QED
  BY <1>2 DEF c

(* The known values of a stretch are finitely many numbers.                *)
LEMMA KnownNumbers ==
    ASSUME NEW n \in Nat, NEW f \in [1..n -> Values], NEW a \in Int, NEW b \in Int, a <= b
    PROVE  LET K == KnownIn(f, (a + 1)..b)
           IN  /\ IsFiniteSet(K) /\ Cardinality(K) \in Nat
               /\ \A s \in K : f[s] \in Numbers
               /\ Total(f, K) \in Numbers
<1> DEFINE S == (a + 1)..b
           K == KnownIn(f, S)
<1>1. IsFiniteSet(S)
  BY Stretch
<1> HIDE DEF S
<1>2. K \in SUBSET S
  BY DEF KnownIn
<1>3. IsFiniteSet(K) /\ Cardinality(K) \in Nat
  BY <1>1, <1>2, FS_Subset, FS_CardinalityType
<1>4. \A s \in K : f[s] \in Numbers
  BY NanIsNoNumber DEF KnownIn
<1> HIDE DEF K
<1>5. Total(f, K) \in Numbers
  BY <1>3, <1>4, TotalNumber
<1> QED
  BY <1>3, <1>4, <1>5 DEF K, S

(* What is known of a stretch that an update reaches the end of: what was  *)
(* known, and the new value if it is known.                                *)
LEMMA KnownPainted ==
    ASSUME NEW n \in Nat, NEW f \in [1..n -> Values], NEW r \in Values,
           NEW b \in Nat, NEW a \in Nat, NEW e \in Nat, NEW t \in Nat,
           b <= a, a <= e, e <= t, t <= n
    PROVE  LET g == Painted(f, a, t, r)
               old == KnownIn(f, (b + 1)..a)
               new == KnownIn(g, (b + 1)..e)
           IN  /\ g \in [1..n -> Values]
               /\ Cardinality(new) = Cardinality(old) + (IF IsNan(r) THEN 0 ELSE e - a)
               /\ Total(g, new) = Plus(Total(f, old),
                                       IF IsNan(r) THEN Num(0) ELSE Times(r, Num(e - a)))
<1> DEFINE g == Painted(f, a, t, r)
           old == KnownIn(f, (b + 1)..a)
           new == KnownIn(g, (b + 1)..e)
           add == IF IsNan(r) THEN {} ELSE (a + 1)..e
<1>1. g \in [1..n -> Values] /\ \A s \in 1..n : g[s] = IF s \in (a + 1)..t THEN r ELSE f[s]
  BY DEF Painted
<1>2. IsFiniteSet(old) /\ Cardinality(old) \in Nat /\ Total(f, old) \in Numbers
      /\ \A s \in old : f[s] \in Numbers
  BY KnownNumbers
<1>3. old \in SUBSET ((b + 1)..a)
  BY DEF KnownIn
<1>4. IsFiniteSet((a + 1)..e) /\ Cardinality((a + 1)..e) = e - a
  BY Stretch
<1>5. IsFiniteSet(add) /\ Cardinality(add) = IF IsNan(r) THEN 0 ELSE e - a
  BY <1>4, FS_EmptySet
<1>6. new = old \cup add
  <2>1. DOMAIN f = 1..n /\ DOMAIN g = 1..n
    BY <1>1
  <2> HIDE DEF g
  <2>2. \A s \in (b + 1)..e : s \in 1..n
    OBVIOUS
  <2>3. \A s \in (b + 1)..a : g[s] = f[s] /\ s \in (b + 1)..e
    BY <1>1
  <2>4. \A s \in (a + 1)..e : g[s] = r /\ s \in (b + 1)..e
    BY <1>1
  <2>5. \A s \in (b + 1)..e : s \in (b + 1)..a \/ s \in (a + 1)..e
    OBVIOUS
  <2> QED
    BY <2>1, <2>2, <2>3, <2>4, <2>5 DEF KnownIn
<1>7. old \cap add = {}
  BY <1>3
<1>8. \A s \in old : g[s] = f[s]
  BY <1>1, <1>3
<1>9. \A s \in add : g[s] = r
  BY <1>1
<1>10. add # {} => r \in Numbers
  BY NanIsNoNumber
<1>11. (IF IsNan(r) THEN 0 ELSE e - a) \in Nat
  OBVIOUS
<1> HIDE DEF g, old, new
<1>12. Cardinality(new) = Cardinality(old) + Cardinality(add)
  <2>1. Cardinality(old \cup add) = Cardinality(old) + Cardinality(add) - Cardinality(old \cap add)
    BY <1>2, <1>5, FS_Union
  <2>2. Cardinality(old \cap add) = 0
    BY <1>7, FS_EmptySet
  <2> QED
    BY <1>2, <1>5, <1>6, <1>11, <2>1, <2>2
<1>13. Total(g, old) = Total(f, old)
  BY <1>2, <1>8, TotalSame
<1>14. \A s \in old \cup add : g[s] \in Numbers
  BY <1>2, <1>8, <1>9, <1>10
<1>15. Total(g, new) = Plus(Total(f, old), Total(g, add))
  <2> HIDE DEF add
  <2> QED
    BY <1>2, <1>5, <1>6, <1>7, <1>13, <1>14, TotalUnion
<1>16. Total(g, add) = IF IsNan(r) THEN Num(0) ELSE Times(r, Num(e - a))
  <2>1. CASE IsNan(r)
    BY <2>1, TotalEmpty
  <2>2. CASE ~IsNan(r)
    <3>1. r \in Numbers
      BY <2>2, NanIsNoNumber
    <3>2. Total(g, add) = Times(r, Num(Cardinality(add)))
      <4> HIDE DEF add
      <4> QED
        BY <1>5, <1>9, <3>1, TotalEqual
    <3> QED
      BY <1>5, <2>2, <3>2
  <2> QED
    BY <2>1, <2>2
<1> QED
  BY <1>1, <1>5, <1>12, <1>15, <1>16 DEF g, old, new

(* What is known of a stretch that lies within an update: the new value,   *)
(* if it is known.                                                         *)
LEMMA KnownFresh ==
    ASSUME NEW n \in Nat, NEW f \in [1..n -> Values], NEW r \in Values,
           NEW a \in Nat, NEW b \in Nat, NEW e \in Nat, NEW t \in Nat,
           a <= b, b <= e, e <= t, t <= n
    PROVE  LET g == Painted(f, a, t, r)
               new == KnownIn(g, (b + 1)..e)
           IN  /\ Cardinality(new) = IF IsNan(r) THEN 0 ELSE e - b
               /\ Total(g, new) = IF IsNan(r) THEN Num(0) ELSE Times(r, Num(e - b))
<1> DEFINE g == Painted(f, a, t, r)
           new == KnownIn(g, (b + 1)..e)
<1>1. \A s \in 1..n : g[s] = IF s \in (a + 1)..t THEN r ELSE f[s]
  BY DEF Painted
<1>2. DOMAIN g = 1..n
  BY DEF Painted
<1> HIDE DEF g
<1>3. new = IF IsNan(r) THEN {} ELSE (b + 1)..e
  <2>1. \A s \in (b + 1)..e : s \in 1..n /\ s \in (a + 1)..t
    OBVIOUS
  <2> QED
    BY <1>1, <1>2, <2>1 DEF KnownIn
<1>4. IsFiniteSet((b + 1)..e) /\ Cardinality((b + 1)..e) = e - b
  BY Stretch
<1>5. \A s \in (b + 1)..e : g[s] = r
  BY <1>1
<1> HIDE DEF new
<1>6. CASE IsNan(r)
  BY <1>3, <1>6, TotalEmpty, FS_EmptySet DEF new, g
<1>7. CASE ~IsNan(r)
  <2>1. r \in Numbers
    BY <1>7, NanIsNoNumber
  <2>2. Total(g, (b + 1)..e) = Times(r, Num(Cardinality((b + 1)..e)))
    BY <1>4, <1>5, <2>1, TotalEqual
  <2> QED
    BY <1>3, <1>4, <1>7, <2>2 DEF new, g
<1> QED
  BY <1>6, <1>7

-----------------------------------------------------------------------------
(* What an update makes of the preparation area of a data source           *)

\* The rate of d from last_up to t.
Rate(new, t) == Over(new, Num(t - last_up))

\* The seconds of d, with the rate since last_up.
After(d, new, t) == Painted(seconds[d], last_up, t, Rate(new, t))

\* prep accounts for the seconds f since the last full step before t.
Accounts(prep, f, t) ==
    LET since == (PdpStart(t) + 1)..t
        known == KnownIn(f, since)
    IN  /\ prep.unkn = Cardinality(since) - Cardinality(known)
        /\ IfNan(prep.val, Num(0)) = Total(f, known)

(* PrepSound, data source by data source.                                  *)
LEMMA PrepSoundIs == PrepSound <=> \A d \in DS : Accounts(pdp_prep[d], seconds[d], now)
BY DEF PrepSound, Accounts, KnownSeconds, KnownIn

\* new is what PdpNew may return.
NewValues == {DNAN} \cup {Num(k) : k \in Int}

(* The rate of an update, and the share of it that falls into a part of    *)
(* the interval.                                                           *)
LEMMA RateIs ==
    ASSUME last_up \in Nat, NEW t \in Nat, last_up < t, NEW new \in NewValues
    PROVE  /\ new \in Values /\ Rate(new, t) \in Values /\ (IsNan(Rate(new, t)) <=> IsNan(new))
           /\ ~IsNan(new) => /\ new \in Numbers
                             /\ Times(Rate(new, t), Num(t - last_up)) = new
                             /\ \A j \in Int : Times(Rate(new, t), Num(j))
                                                 = Share(new, t - last_up, j)
<1> DEFINE k == t - last_up
<1>1. k \in Nat \ {0} /\ k \in Int
  OBVIOUS
<1> HIDE DEF k
<1>2. CASE IsNan(new)
  <2>1. new = DNAN
    BY <1>2 DEF IsNan
  <2>2. Over(new, Num(k)) = DNAN
    BY <1>1, <2>1, NanOver
  <2> QED
    BY <1>2, <2>1, <2>2 DEF Rate, Values, IsNan, k
<1>3. CASE ~IsNan(new)
  <2>1. new \in Numbers
    <3>1. PICK j \in Int : new = Num(j)
      BY <1>3 DEF NewValues, IsNan
    <3> QED
      BY <3>1, NumIs
  <2>2. Over(new, Num(k)) \in Numbers
    BY <1>1, <2>1, OverNumber
  <2>3. ~IsNan(Over(new, Num(k)))
    BY <2>2, NumberIs
  <2>4. Times(Over(new, Num(k)), Num(k)) = new
    BY <1>1, <2>1, RateTimes
  <2>5. \A j \in Int : Times(Over(new, Num(k)), Num(j)) = Over(Times(new, Num(j)), Num(k))
    BY <1>1, <2>1, RateTimes
  <2> QED
    BY <1>3, <2>1, <2>2, <2>3, <2>4, <2>5 DEF Rate, Values, Share, k
<1> QED
  BY <1>2, <1>3

(* simple_update accounts for the seconds since the last update.           *)
LEMMA WithinStepAccounts ==
    ASSUME FileTyped, now = last_up, NEW d \in DS, Accounts(pdp_prep[d], seconds[d], last_up),
           NEW t \in (last_up + 1)..MaxTime, NEW new \in NewValues, Elapsed(t) = 0
    PROVE  LET prep == SimpleUpdate(d, new, t - last_up)
           IN  /\ Accounts(prep, After(d, new, t), t)
               /\ prep \in Prep
<1> DEFINE prep == SimpleUpdate(d, new, t - last_up)
           old == pdp_prep[d]
           k == t - last_up
           b == PdpStart(t)
           r == Rate(new, t)
           f == seconds[d]
           g == Painted(f, last_up, t, r)
           was == KnownIn(f, (b + 1)..last_up)
           is == KnownIn(g, (b + 1)..t)
<1>1. last_up \in Nat /\ t \in Nat /\ last_up < t /\ t <= MaxTime /\ MaxTime \in Nat
      /\ k \in Nat \ {0} /\ f \in [1..MaxTime -> Values]
  BY FileAssumption DEF FileTyped
<1>2. old.unkn \in Nat /\ old.val \in Values /\ old \in Prep
  BY DEF FileTyped, Prep
<1>3. b = PdpStart(last_up) /\ b \in Nat /\ b <= last_up
  <2>1. Steps(last_up, t) = 0
    BY DEF Steps, Elapsed
  <2>2. PdpStart(t) = PdpStart(last_up)
    BY <1>1, <2>1, StepsIs
  <2> QED
    BY <1>1, <2>2, PdpStartIs
<1>4. new \in Values /\ r \in Values /\ (IsNan(r) <=> IsNan(new))
      /\ (~IsNan(new) => new \in Numbers /\ Times(r, Num(k)) = new)
  BY <1>1, RateIs
<1> HIDE DEF k, b, r, f
<1>5. Cardinality(is) = Cardinality(was) + (IF IsNan(r) THEN 0 ELSE k)
      /\ Total(g, is) = Plus(Total(f, was), IF IsNan(r) THEN Num(0) ELSE Times(r, Num(k)))
  <2> DEFINE a == last_up
             n == MaxTime
  <2>1. n \in Nat /\ a \in Nat /\ t \in Nat /\ b \in Nat /\ b <= a /\ a <= t /\ t <= t /\ t <= n
        /\ f \in [1..n -> Values] /\ r \in Values
    BY <1>1, <1>3, <1>4
  <2>2. k = t - a
    BY DEF k
  <2> HIDE DEF a, n
  <2>3. /\ Cardinality(KnownIn(Painted(f, a, t, r), (b + 1)..t))
            = Cardinality(KnownIn(f, (b + 1)..a)) + (IF IsNan(r) THEN 0 ELSE t - a)
        /\ Total(Painted(f, a, t, r), KnownIn(Painted(f, a, t, r), (b + 1)..t))
            = Plus(Total(f, KnownIn(f, (b + 1)..a)),
                   IF IsNan(r) THEN Num(0) ELSE Times(r, Num(t - a)))
    BY <2>1, KnownPainted
  <2> QED
    BY <2>2, <2>3 DEF a
<1>6. old.unkn = Cardinality((b + 1)..last_up) - Cardinality(was)
      /\ IfNan(old.val, Num(0)) = Total(f, was)
  BY <1>3 DEF Accounts, f
<1>7. Cardinality(was) \in Nat /\ Total(f, was) \in Numbers
  BY <1>1, <1>3, KnownNumbers
<1>8. Cardinality((b + 1)..last_up) = last_up - b /\ Cardinality((b + 1)..t) = t - b
  BY <1>1, <1>3, Stretch
<1>9. Num(0) \in Numbers
  BY NumIs
<1> HIDE DEF was, is, g
<1>10. CASE IsNan(new)
  <2>1. prep = [old EXCEPT !.unkn = @ + k]
    BY <1>10 DEF SimpleUpdate, k
  <2>2. prep.unkn = old.unkn + k /\ prep.val = old.val /\ prep \in Prep
    BY <1>1, <1>2, <2>1 DEF Prep
  <2>3. Total(g, is) = Total(f, was)
    BY <1>4, <1>5, <1>7, <1>10, PlusZero
  <2>4. prep.unkn = Cardinality((b + 1)..t) - Cardinality(is)
    BY <1>1, <1>3, <1>4, <1>5, <1>6, <1>7, <1>8, <1>10, <2>2 DEF k
  <2>5. IfNan(prep.val, Num(0)) = Total(g, is)
    BY <1>6, <2>2, <2>3
  <2> HIDE DEF prep
  <2> QED
    BY <2>2, <2>4, <2>5 DEF Accounts, After, b, r, f, g, is, prep
<1>11. CASE ~IsNan(new)
  <2> DEFINE v == IF IsNan(old.val) THEN new ELSE Plus(old.val, new)
  <2>1. prep = [old EXCEPT !.val = v]
    BY <1>11 DEF SimpleUpdate
  <2>2. v \in Numbers /\ v = Plus(Total(f, was), new)
    <3>1. CASE IsNan(old.val)
      <4>1. Total(f, was) = Num(0)
        BY <1>6, <3>1 DEF IfNan
      <4> QED
        BY <1>4, <1>11, <3>1, <4>1, PlusZero
    <3>2. CASE ~IsNan(old.val)
      <4>1. Total(f, was) = old.val
        BY <1>6, <3>2 DEF IfNan
      <4> QED
        BY <1>4, <1>7, <1>11, <3>2, <4>1, PlusNumber
    <3> QED
      BY <3>1, <3>2
  <2> HIDE DEF v
  <2>3. prep.unkn = old.unkn /\ prep.val = v /\ prep \in Prep
    BY <1>2, <2>1, <2>2 DEF Prep, Values
  <2>4. Total(g, is) = v
    BY <1>4, <1>5, <1>11, <2>2
  <2>5. prep.unkn = Cardinality((b + 1)..t) - Cardinality(is)
    BY <1>1, <1>3, <1>4, <1>5, <1>6, <1>7, <1>8, <1>11, <2>3 DEF k
  <2>6. IfNan(prep.val, Num(0)) = Total(g, is)
    BY <2>2, <2>3, <2>4, NumberIs DEF IfNan
  <2> HIDE DEF prep
  <2> QED
    BY <2>3, <2>5, <2>6 DEF Accounts, After, b, r, f, g, is, prep
<1> QED
  BY <1>10, <1>11

(* process_pdp_st makes the area account for the seconds of the step that  *)
(* is not complete.                                                        *)
LEMMA CompletesAccounts ==
    ASSUME FileTyped, now = last_up, NEW d \in DS,
           NEW t \in (last_up + 1)..MaxTime, NEW new \in NewValues, Elapsed(t) > 0
    PROVE  LET prep == PdpCarried(d, new, t - last_up, t)
           IN  /\ Accounts(prep, After(d, new, t), t)
               /\ prep \in Prep
<1> DEFINE prep == PdpCarried(d, new, t - last_up, t)
           old == pdp_prep[d]
           b == PdpStart(t)
           r == Rate(new, t)
           f == seconds[d]
           a == last_up
           n == MaxTime
           g == Painted(f, a, t, r)
           is == KnownIn(g, (b + 1)..t)
           post == t % PdpStep
           share == Share(new, t - last_up, post)
<1>1. a \in Nat /\ t \in Nat /\ a <= t /\ a < t /\ t <= t /\ t <= n /\ n \in Nat
      /\ f \in [1..n -> Values]
  BY FileAssumption DEF FileTyped
<1>2. old \in Prep
  BY DEF FileTyped
<1>3. b \in Nat /\ a <= b /\ b <= t
  <2>1. Steps(last_up, t) > 0
    BY DEF Steps, Elapsed
  <2>2. last_up < PdpStart(t)
    BY <1>1, <2>1, StepsIs
  <2> QED
    BY <1>1, <2>2, PdpStartIs
<1>4. post \in Nat /\ post = t - b
  BY <1>1, PdpStartIs
<1>5. new \in Values /\ r \in Values /\ (IsNan(r) <=> IsNan(new))
      /\ (~IsNan(new) => new \in Numbers /\ Times(r, Num(post)) = share)
  BY <1>1, <1>4, RateIs
<1> HIDE DEF b, r, f, a, n, share
<1>6. /\ Cardinality(is) = IF IsNan(r) THEN 0 ELSE t - b
      /\ Total(g, is) = IF IsNan(r) THEN Num(0) ELSE Times(r, Num(t - b))
  <2>1. /\ Cardinality(KnownIn(Painted(f, a, t, r), (b + 1)..t)) = IF IsNan(r) THEN 0 ELSE t - b
        /\ Total(Painted(f, a, t, r), KnownIn(Painted(f, a, t, r), (b + 1)..t))
            = IF IsNan(r) THEN Num(0) ELSE Times(r, Num(t - b))
    BY <1>1, <1>3, <1>5, KnownFresh
  <2> QED
    BY <2>1
<1>7. Cardinality((b + 1)..t) = t - b
  BY <1>1, <1>3, Stretch
<1>8. g = After(d, new, t)
  BY DEF After, f, a, r
<1> HIDE DEF is, g, post
<1>9. prep = [old EXCEPT !.unkn = IF IsNan(new) THEN post ELSE 0,
                          !.val = IF IsNan(new) THEN DNAN ELSE share]
  BY DEF PdpCarried, post, share
<1>10. share \in Numbers \/ IsNan(new)
  BY <1>4, <1>5, TimesNumber, NanIsNoNumber
<1>11. prep.unkn = (IF IsNan(new) THEN post ELSE 0)
       /\ prep.val = (IF IsNan(new) THEN DNAN ELSE share) /\ prep \in Prep
  <2> DEFINE u == IF IsNan(new) THEN post ELSE 0
             v == IF IsNan(new) THEN DNAN ELSE share
  <2>1. u \in Nat /\ v \in Values
    BY <1>4, <1>10 DEF Values
  <2>2. prep = [old EXCEPT !.unkn = u, !.val = v]
    BY <1>9
  <2> HIDE DEF u, v, prep
  <2>3. prep.unkn = u /\ prep.val = v /\ prep \in Prep
    BY <1>2, <2>1, <2>2 DEF Prep
  <2> QED
    BY <2>3 DEF u, v
<1> HIDE DEF prep
<1>12. prep.unkn = Cardinality((b + 1)..t) - Cardinality(is)
  BY <1>1, <1>3, <1>4, <1>5, <1>6, <1>7, <1>11
<1>13. IfNan(prep.val, Num(0)) = Total(g, is)
  <2>1. CASE IsNan(new)
    BY <1>5, <1>6, <1>11, <2>1 DEF IfNan, IsNan
  <2>2. CASE ~IsNan(new)
    <3>1. ~IsNan(share)
      BY <1>10, <2>2, NumberIs
    <3> QED
      BY <1>4, <1>5, <1>6, <1>11, <2>2, <3>1 DEF IfNan
  <2> QED
    BY <2>1, <2>2
<1>14. Accounts(prep, g, t)
  BY <1>12, <1>13 DEF Accounts, b, is
<1> QED
  BY <1>8, <1>11, <1>14 DEF prep

(* The rate process_pdp_st computes is unknown, or the average of the      *)
(* known seconds since the last full step.                                 *)
LEMMA TempIsMean ==
    ASSUME FileTyped, now = last_up, NEW d \in DS, Accounts(pdp_prep[d], seconds[d], last_up),
           NEW t \in (last_up + 1)..MaxTime, NEW new \in NewValues, Elapsed(t) > 0
    PROVE  LET temp == PdpTemp(d, new, t - last_up, t)
               f == After(d, new, t)
           IN  /\ temp \in Values
               /\ \/ IsNan(temp)
                  \/ temp = Mean(f, KnownIn(f, (PdpStart(last_up) + 1)..PdpStart(t)))
<1> DEFINE temp == PdpTemp(d, new, t - last_up, t)
           old == pdp_prep[d]
           b == PdpStart(last_up)
           e == PdpStart(t)
           r == Rate(new, t)
           f == seconds[d]
           a == last_up
           n == MaxTime
           g == Painted(f, a, t, r)
           was == KnownIn(f, (b + 1)..a)
           is == KnownIn(g, (b + 1)..e)
           pre == e - a
           share == Share(new, t - last_up, pre)
<1>1. a \in Nat /\ t \in Nat /\ a <= t /\ a < t /\ t <= n /\ n \in Nat
      /\ f \in [1..n -> Values]
  BY FileAssumption DEF FileTyped
<1>2. old \in Prep /\ old.unkn \in Nat /\ old.val \in Values
  BY DEF FileTyped, Prep
<1>3. b \in Nat /\ e \in Nat /\ b <= a /\ a <= e /\ e <= t /\ b <= e
      /\ Elapsed(t) * PdpStep = e - b
  <2>1. Steps(last_up, t) > 0 /\ Elapsed(t) = Steps(last_up, t)
    BY DEF Steps, Elapsed
  <2>2. last_up < PdpStart(t) /\ PdpStep * Steps(last_up, t) = PdpStart(t) - PdpStart(last_up)
        /\ Steps(last_up, t) \in Nat
    BY <1>1, <2>1, StepsIs
  <2>3. PdpStep \in Nat
    BY FileAssumption
  <2>4. b \in Nat /\ b <= a /\ e \in Nat /\ e <= t
    BY <1>1, PdpStartIs
  <2> HIDE DEF b, e, a
  <2>5. Elapsed(t) * PdpStep = PdpStep * Steps(last_up, t)
    BY <2>1, <2>2, <2>3
  <2> QED
    BY <1>1, <2>2, <2>4, <2>5 DEF b, e, a
<1>4. pre \in Nat
  BY <1>1, <1>3
<1>5. new \in Values /\ r \in Values /\ (IsNan(r) <=> IsNan(new))
      /\ (~IsNan(new) => new \in Numbers /\ Times(r, Num(pre)) = share)
  <2>1. pre \in Int
    BY <1>4
  <2> QED
    BY <1>1, <2>1, RateIs
<1>6. Accounts(old, f, a)
  OBVIOUS
<1> HIDE DEF b, e, r, f, a, n
<1>7. /\ g \in [1..n -> Values]
      /\ Cardinality(is) = Cardinality(was) + (IF IsNan(r) THEN 0 ELSE e - a)
      /\ Total(g, is) = Plus(Total(f, was), IF IsNan(r) THEN Num(0) ELSE Times(r, Num(e - a)))
  <2>1. Painted(f, a, t, r) \in [1..n -> Values]
    BY <1>1, <1>5 DEF Painted
  <2>2. /\ Cardinality(KnownIn(Painted(f, a, t, r), (b + 1)..e))
            = Cardinality(KnownIn(f, (b + 1)..a)) + (IF IsNan(r) THEN 0 ELSE e - a)
        /\ Total(Painted(f, a, t, r), KnownIn(Painted(f, a, t, r), (b + 1)..e))
            = Plus(Total(f, KnownIn(f, (b + 1)..a)),
                   IF IsNan(r) THEN Num(0) ELSE Times(r, Num(e - a)))
    <3>1. n \in Nat /\ a \in Nat /\ t \in Nat /\ b \in Nat /\ e \in Nat
          /\ b <= a /\ a <= e /\ e <= t /\ t <= n
          /\ f \in [1..n -> Values] /\ r \in Values
      BY <1>1, <1>3, <1>5
    <3> QED
      BY <3>1, KnownPainted
  <2> QED
    BY <2>1, <2>2
<1>8. Cardinality(was) \in Nat /\ Total(f, was) \in Numbers
  <2>1. Cardinality(KnownIn(f, (b + 1)..a)) \in Nat /\ Total(f, KnownIn(f, (b + 1)..a)) \in Numbers
    BY <1>1, <1>3, KnownNumbers
  <2> QED
    BY <2>1
<1>9. g = After(d, new, t)
  BY DEF After, f, a, r
<1> HIDE DEF g
<1>10. Cardinality(is) \in Nat /\ Total(g, is) \in Numbers /\ IsFiniteSet(is)
  BY <1>1, <1>3, <1>7, KnownNumbers
<1>11. Cardinality((b + 1)..a) = a - b
  BY <1>1, <1>3, Stretch
<1>12. old.unkn = (a - b) - Cardinality(was) /\ IfNan(old.val, Num(0)) = Total(f, was)
  BY <1>6, <1>11 DEF Accounts, b, was, a
<1> HIDE DEF is, was, share
<1> DEFINE val == IF IsNan(new) THEN old.val ELSE Plus(IfNan(old.val, Num(0)), share)
           cnt == Elapsed(t) * PdpStep - old.unkn - (IF IsNan(new) THEN pre ELSE 0)
<1>13. temp = DNAN \/ temp = Over(val, Num(cnt))
  BY DEF PdpTemp, e, a, share
<1>14. cnt = Cardinality(is)
  BY <1>1, <1>2, <1>3, <1>5, <1>7, <1>8, <1>12
<1> HIDE DEF pre
<1>15. val = DNAN \/ val = Total(g, is)
  <2>1. CASE IsNan(new)
    <3>1. Total(g, is) = Total(f, was)
      BY <1>5, <1>7, <1>8, <2>1, PlusZero
    <3> QED
      BY <1>12, <2>1, <3>1 DEF IfNan, IsNan
  <2>2. CASE ~IsNan(new)
    BY <1>5, <1>7, <1>12, <2>2 DEF pre
  <2> QED
    BY <2>1, <2>2
<1> HIDE DEF val, cnt
<1>16. cnt \in Int
  BY <1>10, <1>14
<1>17. temp = DNAN \/ temp = Over(Total(g, is), Num(Cardinality(is)))
  BY <1>13, <1>14, <1>15, <1>16, NanOver
<1>18. temp \in Values
  <2>1. CASE Cardinality(is) = 0
    <3>1. is = {}
      BY <1>10, <2>1, FS_EmptySet
    <3>2. Total(g, is) = Num(0)
      BY <3>1, TotalEmpty
    <3> QED
      BY <1>17, <2>1, <3>2, ZeroOverZero DEF Values
  <2>2. CASE Cardinality(is) # 0
    <3>1. Cardinality(is) \in Nat \ {0}
      BY <1>10, <2>2
    <3>2. Over(Total(g, is), Num(Cardinality(is))) \in Numbers
      BY <1>10, <3>1, OverNumber
    <3> QED
      BY <1>17, <3>2 DEF Values
  <2> QED
    BY <2>1, <2>2
<1>19. is = KnownIn(g, (b + 1)..e)
  BY DEF is
<1> HIDE DEF temp
<1>20. IsNan(temp) \/ temp = Mean(g, KnownIn(g, (b + 1)..e))
  BY <1>17, <1>19 DEF IsNan, Mean
<1> QED
  BY <1>9, <1>18, <1>20 DEF b, e, temp

-----------------------------------------------------------------------------
(* The preparation areas                                                   *)

PrepInv == FileTyped /\ PrepSound

(* rrd_create accounts for the seconds before the file was created.        *)
LEMMA PrepInit == Init => PrepInv
<1> SUFFICES ASSUME Init PROVE PrepInv
  OBVIOUS
<1>1. PdpStep \in Nat \ {0} /\ MaxTime \in Nat /\ StartTimes \subseteq Nat
  BY FileAssumption
<1>2. last_up \in Nat /\ now = last_up
  BY <1>1 DEF Init
<1>3. last_up % PdpStep \in Nat /\ PdpStart(last_up) \in Nat /\ PdpStart(last_up) <= last_up
      /\ last_up % PdpStep = last_up - PdpStart(last_up)
  BY <1>2, PdpStartIs
<1>4. Num(0) \in Values /\ ~IsNan(Num(0))
  BY NumIs, NumberIs DEF Values
<1>5. pdp_prep \in [DS -> Prep]
  <2>1. U \in Reading
    BY DEF U, Reading
  <2> QED
    BY <1>3, <1>4, <2>1 DEF Init, Prep
<1>6. seconds \in [DS -> [1..MaxTime -> Values]]
      /\ pdps \in [DS -> [1..(MaxTime \div PdpStep) -> Values]]
  BY DEF Init, Values
<1>7. todo \in [RRAs -> Nat]
  BY DEF Init
<1>8. FileTyped
  BY <1>2, <1>5, <1>6, <1>7 DEF FileTyped
<1>9. ASSUME NEW d \in DS PROVE Accounts(pdp_prep[d], seconds[d], now)
  <2> DEFINE a == last_up
             b == PdpStart(last_up)
             f == seconds[d]
  <2>1. KnownIn(f, (b + 1)..a) = {}
    BY DEF Init, KnownIn, IsNan
  <2>2. a \in Nat /\ b \in Nat /\ b <= a
    BY <1>2, <1>3
  <2>3. pdp_prep[d].unkn = a - b /\ pdp_prep[d].val = Num(0)
    BY <1>3 DEF Init
  <2> HIDE DEF a, b, f
  <2>4. Cardinality((b + 1)..a) = a - b
    BY <2>2, Stretch
  <2>5. Cardinality(KnownIn(f, (b + 1)..a)) = 0
    BY <2>1, FS_EmptySet
  <2>6. Total(f, {}) = Num(0) /\ Cardinality({}) = 0
    BY TotalEmpty, FS_EmptySet
  <2>7. pdp_prep[d].unkn = Cardinality((b + 1)..a) - Cardinality(KnownIn(f, (b + 1)..a))
    BY <2>2, <2>3, <2>4, <2>5
  <2>8. IfNan(pdp_prep[d].val, Num(0)) = Total(f, KnownIn(f, (b + 1)..a))
    BY <1>4, <2>1, <2>3, <2>6 DEF IfNan
  <2> QED
    BY <1>2, <2>7, <2>8 DEF Accounts, a, b, f
<1> QED
  BY <1>8, <1>9, PrepSoundIs DEF PrepInv

(* The history after an update.                                            *)
LEMMA RememberIs ==
    ASSUME FileTyped, NEW t \in (last_up + 1)..MaxTime,
           NEW new \in [DS -> NewValues], NEW temp \in [DS -> Values],
           Remember(new, t - last_up, t, temp)
    PROVE  /\ seconds' = [d \in DS |-> After(d, new[d], t)]
           /\ seconds' \in [DS -> [1..MaxTime -> Values]]
           /\ pdps' \in [DS -> [1..(MaxTime \div PdpStep) -> Values]]
<1>1. \A d \in DS : DOMAIN seconds[d] = 1..MaxTime
  BY DEF FileTyped
<1>2. seconds' = [d \in DS |-> After(d, new[d], t)]
  BY <1>1 DEF Remember, After, Painted, Rate
<1>3. last_up \in Nat /\ t \in Nat /\ last_up < t
  BY FileAssumption DEF FileTyped
<1>4. \A d \in DS : After(d, new[d], t) \in [1..MaxTime -> Values]
  <2> SUFFICES ASSUME NEW d \in DS PROVE After(d, new[d], t) \in [1..MaxTime -> Values]
    OBVIOUS
  <2> DEFINE r == Rate(new[d], t)
             x == new[d]
  <2>1. x \in NewValues
    OBVIOUS
  <2> HIDE DEF x
  <2>2. Rate(x, t) \in Values
    BY <1>3, <2>1, RateIs
  <2>3. r \in Values
    BY <2>2 DEF x
  <2> HIDE DEF r
  <2>4. seconds[d] \in [1..MaxTime -> Values]
    BY DEF FileTyped
  <2>5. Painted(seconds[d], last_up, t, r) \in [1..MaxTime -> Values]
    BY <2>3, <2>4 DEF Painted
  <2> QED
    BY <2>5 DEF After, r
<1>5. seconds' \in [DS -> [1..MaxTime -> Values]]
  BY <1>2, <1>4
<1>6. pdps' \in [DS -> [1..(MaxTime \div PdpStep) -> Values]]
  <2> DEFINE P == 1..(MaxTime \div PdpStep)
  <2>1. pdps \in [DS -> [P -> Values]]
    BY DEF FileTyped
  <2>2. pdps' = [d \in DS |-> [p \in P |->
                   IF p * PdpStep \in (PdpStart(last_up) + 1)..t THEN temp[d]
                   ELSE pdps[d][p]]]
    BY DEF Remember
  <2> HIDE DEF P
  <2>3. pdps' \in [DS -> [P -> Values]]
    BY <2>1, <2>2
  <2> QED
    BY <2>3 DEF P
<1> QED
  BY <1>2, <1>5, <1>6

(* What is accounted for does not depend on the last reading.              *)
LEMMA ReadingAside ==
    ASSUME NEW prep \in Prep, NEW u \in Reading, NEW f, NEW t
    PROVE  LET p == [prep EXCEPT !.last_ds = u]
           IN  p \in Prep /\ (Accounts(prep, f, t) => Accounts(p, f, t))
<1> DEFINE p == [prep EXCEPT !.last_ds = u]
<1>1. p \in Prep /\ p.unkn = prep.unkn /\ p.val = prep.val
  BY DEF Prep
<1> HIDE DEF p
<1> QED
  BY <1>1 DEF Accounts, p

\* What an update at time t computes for the data sources from the readings u.
Computed(t, u, new, temp, prep) ==
    /\ t \in (last_up + 1)..MaxTime /\ u \in Inputs
    /\ new = [d \in DS |-> PdpNew(d, u[d], t - last_up)]
    /\ \/ /\ Elapsed(t) = 0 /\ temp = new
          /\ prep = [d \in DS |-> SimpleUpdate(d, new[d], t - last_up)]
       \/ /\ Elapsed(t) > 0
          /\ temp = [d \in DS |-> PdpTemp(d, new[d], t - last_up, t)]
          /\ prep = [d \in DS |-> PdpCarried(d, new[d], t - last_up, t)]

\* What it does with it.
Stored(t, u, new, temp, prep) ==
    /\ pdp_prep' = [d \in DS |-> [prep[d] EXCEPT !.last_ds = u[d]]]
    /\ Remember(new, t - last_up, t, temp)
    /\ now' = t

(* What an update makes of the preparation areas and the seconds.          *)
LEMMA ArgPrep ==
    ASSUME PrepInv, Idle, NEW t, NEW u, NEW new, NEW temp, NEW prep,
           Computed(t, u, new, temp, prep), Stored(t, u, new, temp, prep)
    PROVE  /\ new \in [DS -> NewValues] /\ temp \in [DS -> Values]
           /\ pdp_prep' \in [DS -> Prep]
           /\ seconds' = [d \in DS |-> After(d, new[d], t)]
           /\ seconds' \in [DS -> [1..MaxTime -> Values]]
           /\ pdps' \in [DS -> [1..(MaxTime \div PdpStep) -> Values]]
           /\ PrepSound'
<1> USE DEF Computed, Stored
<1>1. FileTyped /\ now = last_up /\ last_up \in Nat /\ t \in Nat /\ last_up < t
      /\ t - last_up \in Nat /\ pdp_prep \in [DS -> Prep]
  BY FileAssumption DEF PrepInv, FileTyped
<1>2. u \in [DS -> Reading]
  BY FileAssumption
<1>3. new \in [DS -> NewValues]
  <2> DEFINE k == t - last_up
  <2>1. k \in Nat
    BY <1>1
  <2> HIDE DEF k
  <2>2. \A d \in DS : u[d] \in Reading
    BY <1>2
  <2>3. \A d \in DS : PdpNew(d, u[d], k) \in NewValues
    BY <1>1, <2>1, <2>2, NewIs DEF NewValues
  <2> QED
    BY <2>3 DEF k
<1>4. \A d \in DS : Accounts(pdp_prep[d], seconds[d], last_up)
  BY <1>1, PrepSoundIs DEF PrepInv
<1>5. ASSUME NEW d \in DS
      PROVE  /\ prep[d] \in Prep /\ temp[d] \in Values
             /\ Accounts(prep[d], After(d, new[d], t), t)
  <2> DEFINE x == new[d]
  <2>1. x \in NewValues /\ x \in Values
    BY <1>1, <1>3, RateIs
  <2>2. CASE Elapsed(t) = 0
    <3>1. prep[d] = SimpleUpdate(d, x, t - last_up) /\ temp[d] = x
      BY <2>2
    <3> HIDE DEF x
    <3>2. SimpleUpdate(d, x, t - last_up) \in Prep
          /\ Accounts(SimpleUpdate(d, x, t - last_up), After(d, x, t), t)
      BY <1>1, <1>4, <2>1, <2>2, WithinStepAccounts
    <3> QED
      BY <2>1, <3>1, <3>2 DEF x
  <2>3. CASE Elapsed(t) > 0
    <3>1. prep[d] = PdpCarried(d, x, t - last_up, t) /\ temp[d] = PdpTemp(d, x, t - last_up, t)
      BY <2>3
    <3> HIDE DEF x
    <3>2. PdpCarried(d, x, t - last_up, t) \in Prep
          /\ Accounts(PdpCarried(d, x, t - last_up, t), After(d, x, t), t)
      BY <1>1, <2>1, <2>3, CompletesAccounts
    <3>3. PdpTemp(d, x, t - last_up, t) \in Values
      BY <1>1, <1>4, <2>1, <2>3, TempIsMean
    <3> QED
      BY <3>1, <3>2, <3>3 DEF x
  <2> QED
    BY <2>2, <2>3
<1>6. temp \in [DS -> Values]
  <2>1. temp = [d \in DS |-> temp[d]]
    BY <1>3
  <2> QED
    BY <1>5, <2>1
<1>7. /\ seconds' = [d \in DS |-> After(d, new[d], t)]
      /\ seconds' \in [DS -> [1..MaxTime -> Values]]
      /\ pdps' \in [DS -> [1..(MaxTime \div PdpStep) -> Values]]
  BY <1>1, <1>3, <1>6, RememberIs
<1>8. ASSUME NEW d \in DS
      PROVE  pdp_prep'[d] \in Prep /\ Accounts(pdp_prep'[d], seconds'[d], t)
  <2> DEFINE p == prep[d]
             v == u[d]
             g == After(d, new[d], t)
  <2>1. p \in Prep /\ v \in Reading /\ Accounts(p, g, t)
    BY <1>2, <1>5
  <2>2. pdp_prep'[d] = [p EXCEPT !.last_ds = v] /\ seconds'[d] = g
    BY <1>7
  <2> HIDE DEF p, v, g
  <2>3. [p EXCEPT !.last_ds = v] \in Prep /\ Accounts([p EXCEPT !.last_ds = v], g, t)
    BY <2>1, ReadingAside
  <2> QED
    BY <2>2, <2>3
<1>9. pdp_prep' \in [DS -> Prep]
  <2>1. pdp_prep' = [d \in DS |-> pdp_prep'[d]]
    OBVIOUS
  <2> QED
    BY <1>8, <2>1
<1>10. PrepSound'
  <2>1. \A d \in DS : Accounts(pdp_prep[d], seconds[d], now)'
    BY <1>8 DEF Accounts
  <2>2. PrepSound' <=> \A d \in DS : Accounts(pdp_prep[d], seconds[d], now)'
    BY DEF PrepSound, Accounts, KnownSeconds, KnownIn
  <2> QED
    BY <2>1, <2>2
<1> QED
  BY <1>3, <1>6, <1>7, <1>9, <1>10

(* A reading that cannot be converted changes nothing that is accounted    *)
(* for.                                                                    *)
LEMMA ArgFailsPrep == PrepInv /\ ArgFails => PrepInv'
<1> SUFFICES ASSUME PrepInv, ArgFails PROVE PrepInv'
  OBVIOUS
<1> USE DEF PrepInv
<1>1. PICK t \in (last_up + 1)..MaxTime, u \in Inputs, bad \in SUBSET DS :
        /\ pdp_prep' = [d \in DS |-> IF \E b \in bad : b <= d THEN pdp_prep[d]
                                     ELSE [pdp_prep[d] EXCEPT !.last_ds = u[d]]]
        /\ UNCHANGED <<last_up, loopVars, histVars>>
  <2>1. PICK t \in (last_up + 1)..MaxTime, u \in Inputs : ArgFails!(t, u)
    BY DEF ArgFails
  <2> DEFINE B == {d \in DS : Rejected(d, u[d], t - last_up)}
  <2>2. /\ pdp_prep' = [d \in DS |-> IF \E b \in B : b <= d THEN pdp_prep[d]
                                     ELSE [pdp_prep[d] EXCEPT !.last_ds = u[d]]]
        /\ UNCHANGED <<last_up, loopVars, histVars>>
    BY <2>1
  <2>3. B \in SUBSET DS
    OBVIOUS
  <2> HIDE DEF B
  <2> QED
    BY <2>2, <2>3
<1>2. pdp_prep \in [DS -> Prep]
  BY DEF FileTyped
<1>3. u \in [DS -> Reading]
  BY FileAssumption
<1>4. UNCHANGED <<last_up, todo, begun, now, seconds, pdps>>
  BY <1>1 DEF loopVars, histVars
<1>5. ASSUME NEW d \in DS
      PROVE  pdp_prep'[d] \in Prep /\ Accounts(pdp_prep'[d], seconds[d], now)
  <2> DEFINE p == pdp_prep[d]
             v == u[d]
             g == seconds[d]
  <2>1. p \in Prep /\ v \in Reading /\ Accounts(p, g, now)
    BY <1>2, <1>3, PrepSoundIs
  <2>2. pdp_prep'[d] = p \/ pdp_prep'[d] = [p EXCEPT !.last_ds = v]
    BY <1>1
  <2> HIDE DEF p, v, g
  <2>3. [p EXCEPT !.last_ds = v] \in Prep /\ Accounts([p EXCEPT !.last_ds = v], g, now)
    BY <2>1, ReadingAside
  <2>4. pdp_prep'[d] \in Prep /\ Accounts(pdp_prep'[d], g, now)
    BY <2>1, <2>2, <2>3
  <2> QED
    BY <2>4 DEF g
<1>6. pdp_prep' \in [DS -> Prep]
  <2>1. pdp_prep' = [d \in DS |-> pdp_prep'[d]]
    BY <1>1
  <2> QED
    BY <1>5, <2>1
<1>7. PrepSound'
  <2>1. \A d \in DS : Accounts(pdp_prep[d], seconds[d], now)'
    BY <1>4, <1>5 DEF Accounts
  <2>2. PrepSound' <=> \A d \in DS : Accounts(pdp_prep[d], seconds[d], now)'
    BY DEF PrepSound, Accounts, KnownSeconds, KnownIn
  <2> QED
    BY <2>1, <2>2
<1>8. FileTyped'
  BY <1>4, <1>6 DEF FileTyped, Idle
<1> QED
  BY <1>7, <1>8

(* An update within a step.                                                *)
LEMMA ArgWithinStepPrep == PrepInv /\ ArgWithinStep => PrepInv'
<1> SUFFICES ASSUME PrepInv, ArgWithinStep PROVE PrepInv'
  OBVIOUS
<1>1. PICK t \in (last_up + 1)..MaxTime, u \in Inputs : ArgWithinStep!(t, u)
  BY DEF ArgWithinStep
<1> DEFINE new == [d \in DS |-> PdpNew(d, u[d], t - last_up)]
           prep == [d \in DS |-> SimpleUpdate(d, new[d], t - last_up)]
<1>2. /\ Idle /\ Elapsed(t) = 0 /\ last_up' = t /\ now' = t /\ todo' = todo
      /\ pdp_prep' = [d \in DS |-> [SimpleUpdate(d, new[d], t - last_up) EXCEPT !.last_ds = u[d]]]
      /\ Remember(new, t - last_up, t, new)
  BY <1>1
<1>3. pdp_prep' = [d \in DS |-> [prep[d] EXCEPT !.last_ds = u[d]]]
  BY <1>2
<1>4. new = [d \in DS |-> PdpNew(d, u[d], t - last_up)]
      /\ prep = [d \in DS |-> SimpleUpdate(d, new[d], t - last_up)]
  OBVIOUS
<1> HIDE DEF new, prep
<1>5. Computed(t, u, new, new, prep) /\ Stored(t, u, new, new, prep)
  BY <1>2, <1>3, <1>4 DEF Computed, Stored
<1>6. /\ pdp_prep' \in [DS -> Prep]
      /\ seconds' \in [DS -> [1..MaxTime -> Values]]
      /\ pdps' \in [DS -> [1..(MaxTime \div PdpStep) -> Values]]
      /\ PrepSound'
  BY <1>2, <1>5, ArgPrep
<1>7. t \in Nat
  BY DEF PrepInv, FileTyped
<1> QED
  BY <1>2, <1>6, <1>7 DEF PrepInv, FileTyped

(* The number of rows to be written is a number.                           *)
LEMMA StepCntIs ==
    ASSUME last_up \in Nat, NEW i \in RRAs, NEW elapsed \in Nat
    PROVE  RraStepCnt(i, elapsed) \in Nat
<1> DEFINE cnt == Archives[i].pdp_cnt
           x == PdpStart(last_up) \div PdpStep
           o == StartPdpOffset(i)
<1>1. cnt \in Nat \ {0}
  BY Declared
<1>2. x \in Int
  <2>1. PdpStep \in Nat \ {0} /\ PdpStart(last_up) \in Int
    BY FileAssumption, PdpStartIs
  <2> QED
    BY <2>1, DivMod
<1> HIDE DEF x
<1>3. x % cnt \in 0 .. cnt - 1
  BY <1>1, <1>2, DivMod
<1>4. o = cnt - (x % cnt)
  BY DEF StartPdpOffset, x
<1>5. o \in Nat
  BY <1>1, <1>3, <1>4
<1> HIDE DEF o
<1>6. CASE o <= elapsed
  <2> DEFINE y == elapsed - o
  <2>1. y \in Nat
    BY <1>5, <1>6
  <2> HIDE DEF y
  <2>2. y \div cnt \in Nat
    BY <1>1, <2>1, DivNat
  <2>3. RraStepCnt(i, elapsed) = y \div cnt + 1
    BY <1>6 DEF RraStepCnt, o, y
  <2> QED
    BY <2>2, <2>3
<1>7. CASE ~(o <= elapsed)
  BY <1>7 DEF RraStepCnt, o
<1> QED
  BY <1>6, <1>7

(* An update that completes PDPs.                                          *)
LEMMA ArgCompletesPrep == PrepInv /\ ArgCompletesPdps => PrepInv'
<1> SUFFICES ASSUME PrepInv, ArgCompletesPdps PROVE PrepInv'
  OBVIOUS
<1>1. PICK t \in (last_up + 1)..MaxTime, u \in Inputs : ArgCompletesPdps!(t, u)
  BY DEF ArgCompletesPdps
<1> DEFINE new == [d \in DS |-> PdpNew(d, u[d], t - last_up)]
           temp == [d \in DS |-> PdpTemp(d, new[d], t - last_up, t)]
           prep == [d \in DS |-> PdpCarried(d, new[d], t - last_up, t)]
<1>2. /\ Idle /\ Elapsed(t) > 0 /\ now' = t
      /\ pdp_prep' = [d \in DS |-> [PdpCarried(d, new[d], t - last_up, t) EXCEPT !.last_ds = u[d]]]
      /\ todo' = [i \in RRAs |-> RraStepCnt(i, Elapsed(t))]
      /\ last_up' = IF \A i \in RRAs : todo'[i] = 0 THEN t ELSE last_up
      /\ Remember(new, t - last_up, t, temp)
  BY <1>1
<1>3. pdp_prep' = [d \in DS |-> [prep[d] EXCEPT !.last_ds = u[d]]]
  BY <1>2
<1>4. new = [d \in DS |-> PdpNew(d, u[d], t - last_up)]
      /\ temp = [d \in DS |-> PdpTemp(d, new[d], t - last_up, t)]
      /\ prep = [d \in DS |-> PdpCarried(d, new[d], t - last_up, t)]
  OBVIOUS
<1> HIDE DEF new, prep, temp
<1>5. Computed(t, u, new, temp, prep) /\ Stored(t, u, new, temp, prep)
  BY <1>2, <1>3, <1>4 DEF Computed, Stored
<1>6. /\ pdp_prep' \in [DS -> Prep]
      /\ seconds' \in [DS -> [1..MaxTime -> Values]]
      /\ pdps' \in [DS -> [1..(MaxTime \div PdpStep) -> Values]]
      /\ PrepSound'
  BY <1>2, <1>5, ArgPrep
<1>7. t \in Nat /\ last_up \in Nat /\ last_up <= t
  BY DEF PrepInv, FileTyped
<1>8. Elapsed(t) \in Nat
  <2>1. Steps(last_up, t) \in Nat
    BY <1>7, StepsIs
  <2> QED
    BY <2>1 DEF Steps, Elapsed
<1>9. todo' \in [RRAs -> Nat]
  BY <1>2, <1>7, <1>8, StepCntIs
<1>10. last_up' \in Nat /\ last_up' <= t /\ (Idle' => last_up' = t)
  BY <1>2, <1>7 DEF Idle
<1> QED
  BY <1>2, <1>6, <1>7, <1>9, <1>10 DEF PrepInv, FileTyped

(* Writing a row changes nothing that is accounted for.                    *)
LEMMA WriteRowPrep == PrepInv /\ WriteRow => PrepInv'
<1> SUFFICES ASSUME PrepInv, WriteRow PROVE PrepInv'
  OBVIOUS
<1>1. PICK i \in RRAs : WriteRow!(i)
  BY DEF WriteRow
<1>2. /\ todo[i] > 0 /\ todo' = [todo EXCEPT ![i] = @ - 1]
      /\ last_up' = IF \A j \in RRAs : todo'[j] = 0 THEN now ELSE last_up
      /\ UNCHANGED <<headVars, now, seconds, pdps>>
  BY <1>1
<1>3. todo \in [RRAs -> Nat] /\ last_up \in Nat /\ now \in Nat /\ last_up <= now
  BY DEF PrepInv, FileTyped
<1>4. todo' \in [RRAs -> Nat]
  BY <1>2, <1>3
<1>5. last_up' \in Nat /\ last_up' <= now /\ (Idle' => last_up' = now)
  BY <1>2, <1>3 DEF Idle
<1> QED
  BY <1>2, <1>3, <1>4, <1>5 DEF PrepInv, FileTyped, PrepSound, KnownSeconds, headVars

(* The preparation areas account for the seconds since the last full step. *)
LEMMA PrepNext == PrepInv /\ [Next]_vars => PrepInv'
<1> SUFFICES ASSUME PrepInv, [Next]_vars PROVE PrepInv'
  OBVIOUS
<1>1. CASE UNCHANGED <<last_up, headVars, loopVars, histVars>>
  BY <1>1 DEF PrepInv, FileTyped, PrepSound, KnownSeconds, Idle, headVars, loopVars, histVars
<1>2. CASE Grow
  <2>1. UNCHANGED <<last_up, headVars, loopVars, histVars>>
    BY <1>2 DEF Grow
  <2> QED
    BY <1>1, <2>1
<1>3. CASE Shrink
  <2>1. UNCHANGED <<last_up, headVars, loopVars, seconds, pdps>>
    BY <1>3 DEF Shrink
  <2> QED
    BY <2>1 DEF PrepInv, FileTyped, PrepSound, KnownSeconds, Idle, headVars, loopVars
<1>4. CASE UNCHANGED vars
  BY <1>1, <1>4 DEF vars
<1> QED
  BY <1>2, <1>3, <1>4, ArgFailsPrep, ArgWithinStepPrep, ArgCompletesPrep, WriteRowPrep DEF Next

(* Between two updates the preparation areas account for every second      *)
(* since the last full step, for all data sources, readings and times      *)
(* (simple_update, process_pdp_st).                                        *)
THEOREM PrepIsSound == Spec => []PdpPrepSound
<1>1. PrepInv => PdpPrepSound
  BY DEF PrepInv, FileTyped, PrepSound, PdpPrepSound
<1> QED
  BY <1>1, PrepInit, PrepNext, PTL DEF Spec

(* The full steps between a and t.                                         *)
LEMMA StepsBetween ==
    ASSUME NEW a \in Nat, NEW t \in Nat, a <= t, NEW p \in Nat
    PROVE  (p * PdpStep \in (PdpStart(a) + 1)..t) <=> p \in (Done(a) + 1)..Done(t)
<1>1. PdpStep \in Nat \ {0}
  BY FileAssumption
<1> DEFINE k == Done(a)
           m == Done(t)
<1>2. k \in Nat /\ m \in Nat /\ PdpStart(a) = PdpStep * k /\ PdpStart(t) = PdpStep * m
      /\ t < PdpStart(t) + PdpStep /\ PdpStart(t) <= t
  BY PdpStartIs
<1> HIDE DEF k, m
<1>3. p * PdpStep = PdpStep * p
  BY <1>1
<1>4. \A x, y \in Nat : /\ x <= y => PdpStep * x <= PdpStep * y
                        /\ x < y => PdpStep * x + PdpStep <= PdpStep * y
  <2> SUFFICES ASSUME NEW x \in Nat, NEW y \in Nat
               PROVE  /\ x <= y => PdpStep * x <= PdpStep * y
                      /\ x < y => PdpStep * x + PdpStep <= PdpStep * y
    OBVIOUS
  <2>1. PdpStep * (y - x) = PdpStep * y - PdpStep * x /\ PdpStep * y \in Int /\ PdpStep * x \in Int
    BY <1>1
  <2>2. x <= y => PdpStep * (y - x) \in Nat
    BY <1>1
  <2>3. x < y => PdpStep * (y - x) >= PdpStep
    BY <1>1
  <2> QED
    BY <1>1, <2>1, <2>2, <2>3
<1>5. p \in (k + 1)..m => p * PdpStep \in (PdpStart(a) + 1)..t
  <2> SUFFICES ASSUME p \in (k + 1)..m PROVE p * PdpStep \in (PdpStart(a) + 1)..t
    OBVIOUS
  <2>1. PdpStep * p <= PdpStep * m /\ PdpStep * k + PdpStep <= PdpStep * p
    BY <1>2, <1>4
  <2>2. PdpStep * p \in Int /\ PdpStep * m \in Int /\ PdpStep * k \in Int
    BY <1>1, <1>2
  <2> QED
    BY <1>1, <1>2, <1>3, <2>1, <2>2
<1>6. p * PdpStep \in (PdpStart(a) + 1)..t => p \in (k + 1)..m
  <2> SUFFICES ASSUME p * PdpStep \in (PdpStart(a) + 1)..t, ~(p \in (k + 1)..m) PROVE FALSE
    OBVIOUS
  <2>1. p <= k \/ m < p
    BY <1>2
  <2>2. PdpStep * p \in Int /\ PdpStep * m \in Int /\ PdpStep * k \in Int
    BY <1>1, <1>2
  <2>3. CASE p <= k
    <3>1. PdpStep * p <= PdpStep * k
      BY <1>2, <1>4, <2>3
    <3> QED
      BY <1>2, <1>3, <2>2, <3>1
  <2>4. CASE m < p
    <3>1. PdpStep * m + PdpStep <= PdpStep * p
      BY <1>2, <1>4, <2>4
    <3> QED
      BY <1>1, <1>2, <1>3, <2>2, <3>1
  <2> QED
    BY <2>1, <2>3, <2>4
<1> QED
  BY <1>5, <1>6 DEF k, m

MeanStep ==
    \A d \in DS : \A p \in DOMAIN pdps[d] :
        p * PdpStep \in (PdpStart(last_up) + 1)..now' /\ now' # now =>
          \/ IsNan(pdps'[d][p])
          \/ LET f == seconds'[d]
                 region == {s \in (PdpStart(last_up) + 1)..PdpStart(now') : ~IsNan(f[s])}
             IN  pdps'[d][p] = Mean(f, region)

(* An update within a step completes no PDP.                               *)
LEMMA MeanWithinStep == PrepInv /\ ArgWithinStep => MeanStep
<1> SUFFICES ASSUME PrepInv, ArgWithinStep, NEW d \in DS, NEW p \in DOMAIN pdps[d],
                    p * PdpStep \in (PdpStart(last_up) + 1)..now'
             PROVE  FALSE
  BY DEF MeanStep
<1>1. PICK t \in (last_up + 1)..MaxTime : Elapsed(t) = 0 /\ now' = t
  BY DEF ArgWithinStep
<1>2. last_up \in Nat /\ t \in Nat /\ last_up <= t
  BY DEF PrepInv, FileTyped
<1>3. p \in Nat
  <2> DEFINE m == MaxTime \div PdpStep
  <2>1. pdps \in [DS -> [1..m -> Values]]
    BY DEF PrepInv, FileTyped
  <2>2. m \in Int
    BY FileAssumption, DivMod
  <2> HIDE DEF m
  <2>3. p \in 1..m
    BY <2>1
  <2> QED
    BY <2>2, <2>3
<1>4. p \in (Done(last_up) + 1)..Done(t)
  BY <1>1, <1>2, <1>3, StepsBetween
<1>5. Steps(last_up, t) = 0 /\ Steps(last_up, t) = Done(t) - Done(last_up)
      /\ Done(t) \in Nat /\ Done(last_up) \in Nat
  BY <1>1, <1>2, StepsIs, PdpStartIs DEF Steps, Elapsed
<1> QED
  BY <1>4, <1>5

(* An update that completes PDPs gives each the average of the known       *)
(* seconds, or leaves it unknown.                                          *)
LEMMA MeanCompletes == PrepInv /\ ArgCompletesPdps => MeanStep
<1> SUFFICES ASSUME PrepInv, ArgCompletesPdps PROVE MeanStep
  OBVIOUS
<1>1. PICK t \in (last_up + 1)..MaxTime, u \in Inputs : ArgCompletesPdps!(t, u)
  BY DEF ArgCompletesPdps
<1> DEFINE new == [d \in DS |-> PdpNew(d, u[d], t - last_up)]
           temp == [d \in DS |-> PdpTemp(d, new[d], t - last_up, t)]
           prep == [d \in DS |-> PdpCarried(d, new[d], t - last_up, t)]
<1>2. /\ Idle /\ Elapsed(t) > 0 /\ now' = t
      /\ pdp_prep' = [d \in DS |-> [PdpCarried(d, new[d], t - last_up, t) EXCEPT !.last_ds = u[d]]]
      /\ Remember(new, t - last_up, t, temp)
  BY <1>1
<1>3. pdp_prep' = [d \in DS |-> [prep[d] EXCEPT !.last_ds = u[d]]]
  BY <1>2
<1>4. new = [d \in DS |-> PdpNew(d, u[d], t - last_up)]
      /\ temp = [d \in DS |-> PdpTemp(d, new[d], t - last_up, t)]
      /\ prep = [d \in DS |-> PdpCarried(d, new[d], t - last_up, t)]
  OBVIOUS
<1> HIDE DEF new, prep, temp
<1>5. Computed(t, u, new, temp, prep) /\ Stored(t, u, new, temp, prep)
  BY <1>2, <1>3, <1>4 DEF Computed, Stored
<1>6. /\ new \in [DS -> NewValues]
      /\ seconds' = [d \in DS |-> After(d, new[d], t)]
      /\ seconds' \in [DS -> [1..MaxTime -> Values]]
  BY <1>2, <1>5, ArgPrep
<1>7. t \in Nat /\ last_up \in Nat /\ last_up <= t /\ FileTyped /\ now = last_up /\ t <= MaxTime
      /\ MaxTime \in Nat
  BY <1>2, FileAssumption DEF PrepInv, FileTyped
<1>8. ASSUME NEW d \in DS, NEW p \in DOMAIN pdps[d],
             p * PdpStep \in (PdpStart(last_up) + 1)..t
      PROVE  \/ IsNan(pdps'[d][p])
             \/ pdps'[d][p] = Mean(seconds'[d],
                   {s \in (PdpStart(last_up) + 1)..PdpStart(t) : ~IsNan(seconds'[d][s])})
  <2> DEFINE x == new[d]
             f == After(d, x, t)
             R == (PdpStart(last_up) + 1)..PdpStart(t)
  <2>1. seconds'[d] = f /\ f \in [1..MaxTime -> Values]
    BY <1>6
  <2>2. pdps'[d][p] = temp[d] /\ temp[d] = PdpTemp(d, x, t - last_up, t)
    <3>1. p \in 1..(MaxTime \div PdpStep)
      BY <1>7 DEF FileTyped
    <3> QED
      BY <1>2, <1>4, <1>8, <3>1 DEF Remember
  <2>3. x \in NewValues
    BY <1>6
  <2>4. Accounts(pdp_prep[d], seconds[d], last_up)
    BY <1>7, PrepSoundIs DEF PrepInv
  <2> HIDE DEF x
  <2>5. \/ IsNan(PdpTemp(d, x, t - last_up, t))
        \/ PdpTemp(d, x, t - last_up, t)
             = Mean(After(d, x, t), KnownIn(After(d, x, t),
                                            (PdpStart(last_up) + 1)..PdpStart(t)))
    BY <1>2, <1>7, <2>3, <2>4, TempIsMean
  <2>6. R \subseteq 1..MaxTime
    <3>1. PdpStart(last_up) \in Nat /\ PdpStart(t) \in Nat /\ PdpStart(t) <= t
      BY <1>7, PdpStartIs
    <3> QED
      BY <1>7, <3>1
  <2> HIDE DEF f, R
  <2>7. KnownIn(f, R) = {s \in R : ~IsNan(f[s])}
    BY <2>1, <2>6 DEF KnownIn
  <2>8. IsNan(temp[d]) \/ temp[d] = Mean(f, KnownIn(f, R))
    BY <2>2, <2>5 DEF f, R
  <2>9. IsNan(pdps'[d][p]) \/ pdps'[d][p] = Mean(f, {s \in R : ~IsNan(f[s])})
    BY <2>2, <2>7, <2>8
  <2> QED
    BY <2>1, <2>9 DEF R
<1> QED
  BY <1>2, <1>8 DEF MeanStep

(* So does every step.                                                     *)
LEMMA MeanNext == PrepInv /\ [Next]_vars => [MeanStep]_vars
<1> SUFFICES ASSUME PrepInv, Next PROVE MeanStep
  OBVIOUS
<1>1. now' = now => MeanStep
  BY DEF MeanStep
<1>2. CASE ArgFails
  BY <1>1, <1>2 DEF ArgFails, loopVars
<1>3. CASE WriteRow
  BY <1>1, <1>3 DEF WriteRow
<1>4. CASE Grow
  BY <1>1, <1>4 DEF Grow, loopVars
<1>5. CASE Shrink
  BY <1>1, <1>5 DEF Shrink, loopVars
<1> QED
  BY <1>2, <1>3, <1>4, <1>5, MeanWithinStep, MeanCompletes DEF Next

(* Every primary data point is unknown or the average of all known seconds *)
(* since the last full step, for all data sources, readings and times      *)
(* (process_pdp_st).                                                       *)
THEOREM PdpsAreMeans == Spec => PdpIsMean
<1>1. PrepInv /\ [Next]_vars => [MeanStep]_vars
  BY MeanNext
<1> QED
  BY <1>1, PrepInit, PrepNext, PTL DEF Spec, PdpIsMean, MeanStep

-----------------------------------------------------------------------------
(* The order of numbers                                                    *)

(* A positive factor keeps the order.                                      *)
LEMMA Scaled ==
    ASSUME NEW x \in Int, NEW y \in Int, NEW k \in Nat \ {0}
    PROVE  x < y <=> x * k < y * k
<1>1. (y - x) * k = y * k - x * k /\ x * k \in Int /\ y * k \in Int
  OBVIOUS
<1>2. y - x > 0 => (y - x) * k > 0
  OBVIOUS
<1>3. ~(y - x > 0) => (x - y) * k \in Nat
  OBVIOUS
<1>4. (x - y) * k = x * k - y * k
  OBVIOUS
<1> QED
  BY <1>1, <1>2, <1>3, <1>4

(* Less is transitive on numbers.                                          *)
LEMMA LessTransitive ==
    ASSUME NEW x \in Numbers, NEW y \in Numbers, NEW z \in Numbers, Less(x, y), Less(y, z)
    PROVE  Less(x, z)
<1> DEFINE a == x[1]
           b == x[2]
           c == y[1]
           d == y[2]
           e == z[1]
           f == z[2]
<1>1. a \in Int /\ c \in Int /\ e \in Int
      /\ b \in Nat \ {0} /\ d \in Nat \ {0} /\ f \in Nat \ {0}
  BY NumberIs
<1>2. a * d < c * b /\ c * f < e * d
  BY DEF Less
<1> HIDE DEF a, b, c, d, e, f
<1>3. /\ a * d \in Int /\ c * b \in Int /\ c * f \in Int
      /\ e * d \in Int /\ a * f \in Int /\ e * b \in Int
  BY <1>1
<1>4. (a * d) * f < (c * b) * f
  <2> DEFINE p == a * d
             q == c * b
  <2> HIDE DEF p, q
  <2>1. p \in Int /\ q \in Int /\ p < q
    BY <1>2, <1>3 DEF p, q
  <2>2. p * f < q * f
    BY <1>1, <2>1, Scaled
  <2> QED
    BY <2>2 DEF p, q
<1>5. (c * f) * b < (e * d) * b
  <2> DEFINE p == c * f
             q == e * d
  <2> HIDE DEF p, q
  <2>1. p \in Int /\ q \in Int /\ p < q
    BY <1>2, <1>3 DEF p, q
  <2>2. p * b < q * b
    BY <1>1, <2>1, Scaled
  <2> QED
    BY <2>2 DEF p, q
<1>6. (a * d) * f = (a * f) * d /\ (c * b) * f = (c * f) * b /\ (e * d) * b = (e * b) * d
  BY <1>1
<1>7. (a * f) * d \in Int /\ (e * b) * d \in Int /\ (c * f) * b \in Int
  BY <1>1
<1>8. (a * f) * d < (e * b) * d
  BY <1>4, <1>5, <1>6, <1>7
<1>9. a * f < e * b
  <2> DEFINE p == a * f
             q == e * b
  <2> HIDE DEF p, q
  <2>1. p \in Int /\ q \in Int /\ p * d < q * d
    BY <1>3, <1>8 DEF p, q
  <2>2. p < q
    BY <1>1, <2>1, Scaled
  <2> QED
    BY <2>2 DEF p, q
<1> QED
  BY <1>9 DEF Less, a, b, e, f

(* Numbers of which none is less are equal.                                *)
LEMMA LessTotal ==
    ASSUME NEW x \in Numbers, NEW y \in Numbers, ~Less(x, y), ~Less(y, x)
    PROVE  x = y
<1> DEFINE a == x[1]
           b == x[2]
           c == y[1]
           d == y[2]
<1>1. a \in Int /\ c \in Int /\ b \in Nat \ {0} /\ d \in Nat \ {0}
      /\ x = Fraction(a, b) /\ y = Fraction(c, d)
  BY NumberIs
<1>2. ~(a * d < c * b) /\ ~(c * b < a * d)
  BY DEF Less
<1> HIDE DEF a, b, c, d
<1>3. a * d \in Int /\ c * b \in Int
  BY <1>1
<1>4. a * d = c * b
  BY <1>2, <1>3
<1> QED
  BY <1>1, <1>4, FractionEqual

(* The infinities lie outside the numbers.                                 *)
LEMMA LessInfinite ==
    ASSUME NEW x \in Numbers
    PROVE  /\ ~Less(x, x) /\ Less(x, DINF) /\ ~Less(DINF, x)
           /\ Less(NegDINF, x) /\ ~Less(x, NegDINF)
           /\ ~Less(DINF, DINF) /\ ~Less(NegDINF, NegDINF)
<1>1. x[1] \in Int /\ x[2] \in Nat \ {0}
  BY NumberIs
<1>2. ~Less(x, x)
  <2> DEFINE p == x[1] * x[2]
  <2>1. p \in Int
    BY <1>1
  <2> HIDE DEF p
  <2>2. ~(p < p)
    BY <2>1
  <2> QED
    BY <2>2 DEF Less, p
<1> QED
  BY <1>1, <1>2 DEF Less, DINF, NegDINF

(* A fraction compared with an integer.                                    *)
LEMMA LessFraction ==
    ASSUME NEW n \in Int, NEW d \in Nat \ {0}, NEW k \in Int
    PROVE  Less(Fraction(n, d), Num(k)) <=> n < k * d
<1>1. PICK a \in Int, b \in Nat \ {0}, g \in Nat \ {0} :
        /\ Fraction(n, d) = <<a, b>> /\ n = g * a /\ d = g * b
        /\ \A h \in Nat \ {0} : Divides(h, n) /\ Divides(h, d) => h <= g
  BY FractionParts
<1>2. Less(Fraction(n, d), Num(k)) <=> a * 1 < k * b
  BY <1>1 DEF Less, Num
<1> DEFINE p == k * b
<1>3. p \in Int /\ a * 1 = a
  OBVIOUS
<1> HIDE DEF p
<1>4. a < p <=> a * g < p * g
  BY <1>3, Scaled
<1>5. a * g = n
  BY <1>1
<1>6. p * g = k * d
  BY <1>1 DEF p
<1> QED
  BY <1>2, <1>3, <1>4, <1>5, <1>6 DEF p

-----------------------------------------------------------------------------
(* The row of an archive, from its PDPs                                    *)

Cnt(i) == Archives[i].pdp_cnt

\* x is better than y, where only the best PDP counts.
Beats(i, x, y) == IF Archives[i].cf = "MAXIMUM" THEN Less(y, x) ELSE Less(x, y)
Worst(i) == IF Archives[i].cf = "MAXIMUM" THEN NegDINF ELSE DINF

\* With so many unknown PDPs the row is unknown.
TooFew(i, unkn) == Less(Times(Num(Cnt(i)), Archives[i].xff), Num(unkn))

Extreme(i) == Archives[i].cf \in {"MAXIMUM", "MINIMUM"}

\* Row number m of archive i, from the PDPs f of a data source.
RowPdps(i, m) == (Cnt(i) * (m - 1) + 1)..(Cnt(i) * m)
RowOf(i, f, m) ==
    LET known == KnownIn(f, RowPdps(i, m))
    IN  IF TooFew(i, Cnt(i) - Cardinality(known)) THEN DNAN
        ELSE IF Archives[i].cf = "AVERAGE" THEN Mean(f, known)
        ELSE IF Archives[i].cf = "LAST" THEN f[Cnt(i) * m]
        ELSE f[CHOOSE q \in known : \A r \in known : ~Beats(i, f[r], f[q])]

(* Beats is a strict order of the numbers, and every number beats the      *)
(* value initialize_cdp_val starts with.                                   *)
LEMMA BeatsIs ==
    ASSUME NEW i \in RRAs
    PROVE  /\ \A x, y, z \in Numbers : Beats(i, x, y) /\ Beats(i, y, z) => Beats(i, x, z)
           /\ \A x, y \in Numbers : ~Beats(i, x, y) /\ ~Beats(i, y, x) => x = y
           /\ \A x \in Numbers : /\ ~Beats(i, x, x) /\ Beats(i, x, Worst(i))
                                 /\ ~Beats(i, Worst(i), x)
           /\ ~Beats(i, Worst(i), Worst(i))
<1>1. Num(0) \in Numbers
  BY NumIs
<1>2. CASE Archives[i].cf = "MAXIMUM"
  <2>1. \A x, y : Beats(i, x, y) <=> Less(y, x)
    BY <1>2 DEF Beats
  <2>2. Worst(i) = NegDINF
    BY <1>2 DEF Worst
  <2> QED
    BY <1>1, <2>1, <2>2, LessTransitive, LessTotal, LessInfinite
<1>3. CASE Archives[i].cf # "MAXIMUM"
  <2>1. \A x, y : Beats(i, x, y) <=> Less(x, y)
    BY <1>3 DEF Beats
  <2>2. Worst(i) = DINF
    BY <1>3 DEF Worst
  <2> QED
    BY <1>1, <2>1, <2>2, LessTransitive, LessTotal, LessInfinite
<1> QED
  BY <1>2, <1>3

(* A row without known PDPs is unknown whatever its xff, a row of known    *)
(* PDPs never.                                                             *)
LEMMA TooFewIs ==
    ASSUME NEW i \in RRAs
    PROVE  TooFew(i, Cnt(i)) /\ ~TooFew(i, 0)
<1> DEFINE c == Cnt(i)
           n == Archives[i].xff[1]
           d == Archives[i].xff[2]
<1>1. c \in Nat \ {0} /\ n \in Nat /\ d \in Nat \ {0} /\ n < d
  BY Declared, FileAssumption DEF Cnt
<1>2. TooFew(i, c) <=> Less(Fraction(c * n, 1 * d), Num(c))
  BY DEF TooFew, Times, Num
<1>3. TooFew(i, 0) <=> Less(Fraction(c * n, 1 * d), Num(0))
  BY DEF TooFew, Times, Num
<1> HIDE DEF c, n, d
<1> DEFINE p == c * n
<1>4. p \in Nat /\ 1 * d = d /\ p \in Int
  BY <1>1
<1>5. n * c < d * c /\ n * c = p /\ d * c = c * d
  BY <1>1, Scaled
<1>6. TooFew(i, c) <=> Less(Fraction(p, d), Num(c))
  BY <1>2, <1>4
<1>7. TooFew(i, 0) <=> Less(Fraction(p, d), Num(0))
  BY <1>3, <1>4
<1> HIDE DEF p
<1>8. c \in Int
  BY <1>1
<1>9. Less(Fraction(p, d), Num(c)) <=> p < c * d
  BY <1>1, <1>4, <1>8, LessFraction
<1>10. Less(Fraction(p, d), Num(0)) <=> p < 0 * d
  BY <1>1, <1>4, LessFraction
<1>11. 0 * d = 0
  BY <1>1
<1> QED
  BY <1>4, <1>5, <1>6, <1>7, <1>9, <1>10, <1>11 DEF c

-----------------------------------------------------------------------------
(* The best of some PDPs                                                   *)

IsBest(i, v, f, K) == \E q \in K : v = f[q] /\ \A r \in K : ~Beats(i, f[r], v)
Top(i, v, f, K) == (K = {} /\ v = Worst(i)) \/ IsBest(i, v, f, K)

(* The best value of some PDPs does not depend on which of them is chosen. *)
LEMMA BestIs ==
    ASSUME NEW i \in RRAs, NEW f, NEW K, \A q \in K : f[q] \in Numbers, NEW v, IsBest(i, v, f, K)
    PROVE  /\ f[CHOOSE q \in K : \A r \in K : ~Beats(i, f[r], f[q])] = v
           /\ v \in Numbers
<1>1. PICK q \in K : v = f[q] /\ \A r \in K : ~Beats(i, f[r], f[q])
  BY DEF IsBest
<1> DEFINE p == CHOOSE x \in K : \A r \in K : ~Beats(i, f[r], f[x])
<1>2. p \in K /\ \A r \in K : ~Beats(i, f[r], f[p])
  BY <1>1
<1> HIDE DEF p
<1>3. ~Beats(i, f[p], f[q]) /\ ~Beats(i, f[q], f[p])
  BY <1>1, <1>2
<1>4. f[p] = f[q]
  BY <1>1, <1>2, <1>3, BeatsIs
<1> QED
  BY <1>1, <1>4 DEF p

(* The best of some PDPs and some more of the same value.                  *)
LEMMA TopAdd ==
    ASSUME NEW i \in RRAs, NEW f, NEW g, NEW K, NEW A, NEW v, NEW r \in Numbers,
           \A q \in K : f[q] \in Numbers /\ g[q] = f[q], \A q \in A : g[q] = r, A # {},
           Top(i, v, f, K)
    PROVE  IsBest(i, IF Beats(i, r, v) THEN r ELSE v, g, K \cup A)
<1> DEFINE w == IF Beats(i, r, v) THEN r ELSE v
<1>1. CASE K = {} /\ v = Worst(i)
  <2>1. w = r
    BY <1>1, BeatsIs
  <2>2. PICK q \in A : TRUE
    OBVIOUS
  <2>3. ~Beats(i, r, r)
    BY BeatsIs
  <2> QED
    BY <1>1, <2>1, <2>2, <2>3 DEF IsBest
<1>2. CASE IsBest(i, v, f, K)
  <2>1. PICK q \in K : v = f[q] /\ \A s \in K : ~Beats(i, f[s], v)
    BY <1>2 DEF IsBest
  <2>2. CASE Beats(i, r, v)
    <3>1. w = r
      BY <2>2
    <3>2. PICK x \in A : TRUE
      OBVIOUS
    <3>3. \A s \in K : ~Beats(i, f[s], r)
      <4> SUFFICES ASSUME NEW s \in K, Beats(i, f[s], r) PROVE FALSE
        OBVIOUS
      <4>1. f[s] \in Numbers /\ v \in Numbers
        BY <2>1
      <4>2. Beats(i, f[s], v)
        BY <2>2, <4>1, BeatsIs
      <4> QED
        BY <2>1, <4>2
    <3>4. ~Beats(i, r, r)
      BY BeatsIs
    <3>5. \A s \in K \cup A : ~Beats(i, g[s], r)
      BY <3>3, <3>4
    <3> QED
      BY <3>1, <3>2, <3>5 DEF IsBest
  <2>3. CASE ~Beats(i, r, v)
    <3>1. w = v
      BY <2>3
    <3>2. \A s \in K \cup A : ~Beats(i, g[s], v)
      BY <2>1, <2>3
    <3> QED
      BY <2>1, <3>1, <3>2 DEF IsBest
  <2> QED
    BY <2>2, <2>3
<1> QED
  BY <1>1, <1>2 DEF Top

(* Only the values of the PDPs count.                                      *)
LEMMA TopSame ==
    ASSUME NEW i \in RRAs, NEW f, NEW g, NEW K, NEW v, \A q \in K : g[q] = f[q], Top(i, v, f, K)
    PROVE  Top(i, v, g, K)
BY DEF Top, IsBest

(* The best of some PDPs is a number, or the start value if there are      *)
(* none.                                                                   *)
LEMMA TopIs ==
    ASSUME NEW i \in RRAs, NEW f, NEW K, \A q \in K : f[q] \in Numbers, NEW v, Top(i, v, f, K)
    PROVE  /\ v = Worst(i) \/ v \in Numbers
           /\ ~IsNan(v) /\ ~Beats(i, Worst(i), v)
           /\ K # {} => IsBest(i, v, f, K)
<1>1. ~IsNan(Worst(i))
  BY DEF Worst, IsNan, DNAN, DINF, NegDINF
<1>2. v = Worst(i) \/ v \in Numbers
  BY DEF Top, IsBest
<1>3. \A x \in Numbers : ~IsNan(x)
  BY NumberIs
<1>4. ~Beats(i, Worst(i), v)
  BY <1>2, BeatsIs
<1>5. K # {} => IsBest(i, v, f, K)
  BY DEF Top
<1> QED
  BY <1>1, <1>2, <1>3, <1>4, <1>5

\* What r, from a + 1 to e, adds to what is known.
Fresh(r, a, e) == IF IsNan(r) THEN {} ELSE (a + 1)..e

(* What is known of a stretch of PDPs after some more have become          *)
(* complete.                                                               *)
LEMMA PaintedKnown ==
    ASSUME NEW n \in Nat, NEW f \in [1..n -> Values], NEW r \in Values,
           NEW b \in Nat, NEW a \in Nat, NEW e \in Nat, NEW t \in Nat,
           b <= a, a <= e, e <= t, t <= n
    PROVE  LET g == Painted(f, a, t, r)
               old == KnownIn(f, (b + 1)..a)
           IN  /\ KnownIn(g, (b + 1)..e) = old \cup Fresh(r, a, e)
               /\ \A q \in old : f[q] \in Numbers /\ g[q] = f[q]
               /\ \A q \in Fresh(r, a, e) : g[q] = r
<1> DEFINE g == Painted(f, a, t, r)
           old == KnownIn(f, (b + 1)..a)
           add == IF IsNan(r) THEN {} ELSE (a + 1)..e
<1>1. \A s \in 1..n : g[s] = IF s \in (a + 1)..t THEN r ELSE f[s]
  BY DEF Painted
<1>2. DOMAIN f = 1..n /\ DOMAIN g = 1..n
  BY DEF Painted
<1> HIDE DEF g
<1>3. \A s \in (b + 1)..e : s \in 1..n
  OBVIOUS
<1>4. \A s \in (b + 1)..a : g[s] = f[s] /\ s \in (b + 1)..e
  BY <1>1
<1>5. \A s \in (a + 1)..e : g[s] = r /\ s \in (b + 1)..e
  BY <1>1
<1>6. \A s \in (b + 1)..e : s \in (b + 1)..a \/ s \in (a + 1)..e
  OBVIOUS
<1>7. KnownIn(g, (b + 1)..e) = old \cup add
  BY <1>2, <1>3, <1>4, <1>5, <1>6 DEF KnownIn
<1>8. \A q \in old : f[q] \in Numbers /\ g[q] = f[q]
  BY <1>4, NanIsNoNumber DEF KnownIn
<1>9. \A q \in add : g[q] = r
  BY <1>5
<1> QED
  BY <1>7, <1>8, <1>9 DEF g, Fresh

-----------------------------------------------------------------------------
(* The consolidation of a row                                              *)

\* val stands for the known PDPs K.
StandsFor(i, val, f, K) ==
    /\ Archives[i].cf = "AVERAGE" => IfNan(val, Num(0)) = Total(f, K)
    /\ Extreme(i) => Top(i, IfNan(val, Worst(i)), f, K)

\* The number of the first PDP after the newest full row when a PDPs are complete, less one.
RowBase(i, a) == Cnt(i) * (a \div Cnt(i))

\* cdp describes the PDPs after the newest full row when a of them are complete.
Prepares(i, cdp, f, a) ==
    LET K == KnownIn(f, (RowBase(i, a) + 1)..a)
    IN  /\ cdp.unkn = (a - RowBase(i, a)) - Cardinality(K)
        /\ StandsFor(i, cdp.val, f, K)

(* calculate_cdp_val: after an update, the value stands for the PDPs       *)
(* before it and the new ones.                                             *)
LEMMA StandsPainted ==
    ASSUME NEW n \in Nat, NEW f \in [1..n -> Values], NEW r \in Values,
           NEW b \in Nat, NEW a \in Nat, NEW e \in Nat, NEW t \in Nat,
           b <= a, a < e, e <= t, t <= n, NEW i \in RRAs, NEW val,
           StandsFor(i, val, f, KnownIn(f, (b + 1)..a)),
           NEW w, w = IF IsNan(r) THEN val ELSE CalculateCdpVal(i, val, r, e - a)
    PROVE  StandsFor(i, w, Painted(f, a, t, r), KnownIn(Painted(f, a, t, r), (b + 1)..e))
<1> DEFINE g == Painted(f, a, t, r)
           old == KnownIn(f, (b + 1)..a)
           new == KnownIn(g, (b + 1)..e)
           add == Fresh(r, a, e)
           k == e - a
<1>1. a <= e /\ k \in Nat \ {0} /\ k \in Int
  OBVIOUS
<1>2. Total(Painted(f, a, t, r), KnownIn(Painted(f, a, t, r), (b + 1)..e))
        = Plus(Total(f, KnownIn(f, (b + 1)..a)),
               IF IsNan(r) THEN Num(0) ELSE Times(r, Num(e - a)))
  BY <1>1, KnownPainted
<1>3. Total(f, old) \in Numbers
  BY KnownNumbers
<1>4. /\ new = old \cup add
      /\ \A q \in old : f[q] \in Numbers /\ g[q] = f[q]
      /\ \A q \in add : g[q] = r
  <2>1. /\ KnownIn(Painted(f, a, t, r), (b + 1)..e) = KnownIn(f, (b + 1)..a) \cup Fresh(r, a, e)
        /\ \A q \in KnownIn(f, (b + 1)..a) : f[q] \in Numbers /\ Painted(f, a, t, r)[q] = f[q]
        /\ \A q \in Fresh(r, a, e) : Painted(f, a, t, r)[q] = r
    BY <1>1, PaintedKnown
  <2> QED
    BY <2>1
<1>5. Total(g, new) = Plus(Total(f, old), IF IsNan(r) THEN Num(0) ELSE Times(r, Num(k)))
  BY <1>2
<1>6. ~IsNan(r) => add # {} /\ r \in Numbers
  <2>1. a + 1 \in (a + 1)..e
    OBVIOUS
  <2> QED
    BY <2>1, NanIsNoNumber DEF Fresh
<1>7. StandsFor(i, val, f, old)
  OBVIOUS
<1> HIDE DEF g, old, new, k, add
<1>8. Archives[i].cf = "AVERAGE" => IfNan(w, Num(0)) = Total(g, new)
  <2> SUFFICES ASSUME Archives[i].cf = "AVERAGE" PROVE IfNan(w, Num(0)) = Total(g, new)
    OBVIOUS
  <2>1. IfNan(val, Num(0)) = Total(f, old)
    BY <1>7 DEF StandsFor
  <2>2. CASE IsNan(r)
    BY <1>3, <1>5, <2>1, <2>2, PlusZero
  <2>3. CASE ~IsNan(r)
    <3> DEFINE total == Times(r, Num(k))
    <3>1. total \in Numbers
      BY <1>1, <1>6, <2>3, TimesNumber
    <3>2. w = IF IsNan(val) THEN total ELSE Plus(val, total)
      BY <2>3 DEF CalculateCdpVal, k
    <3>3. Total(g, new) = Plus(Total(f, old), total)
      BY <1>5, <2>3
    <3> HIDE DEF total
    <3>4. w = Total(g, new)
      BY <2>1, <3>1, <3>2, <3>3, PlusZero DEF IfNan
    <3>5. w \in Numbers
      BY <1>3, <3>1, <3>3, <3>4, PlusNumber
    <3>6. ~IsNan(w)
      BY <3>5, NumberIs
    <3> QED
      BY <3>4, <3>6 DEF IfNan
  <2> QED
    BY <2>2, <2>3
<1>9. Extreme(i) => Top(i, IfNan(w, Worst(i)), g, new)
  <2> SUFFICES ASSUME Extreme(i) PROVE Top(i, IfNan(w, Worst(i)), g, new)
    OBVIOUS
  <2> DEFINE v == IfNan(val, Worst(i))
  <2>1. Top(i, v, f, old)
    BY <1>7 DEF StandsFor
  <2>2. CASE IsNan(r)
    <3>1. w = val /\ new = old
      BY <1>4, <2>2 DEF add, Fresh
    <3> QED
      BY <1>4, <2>1, <3>1, TopSame
  <2>3. CASE ~IsNan(r)
    <3> DEFINE x == IF Beats(i, r, v) THEN r ELSE v
    <3>1. IsBest(i, x, g, new)
      <4> HIDE DEF v
      <4> QED
        BY <1>4, <1>6, <2>1, <2>3, TopAdd
    <3>2. w = x
      <4>1. w = IF IsNan(val) \/ Beats(i, r, val) THEN r ELSE val
        BY <2>3 DEF CalculateCdpVal, Extreme, Beats
      <4>2. CASE IsNan(val)
        <5>1. v = Worst(i) /\ w = r
          BY <4>1, <4>2 DEF IfNan
        <5>2. Beats(i, r, Worst(i))
          BY <1>6, <2>3, BeatsIs
        <5> QED
          BY <5>1, <5>2
      <4>3. CASE ~IsNan(val)
        BY <4>1, <4>3 DEF IfNan
      <4> QED
        BY <4>2, <4>3
    <3> HIDE DEF x
    <3>3. \A q \in new : g[q] \in Numbers
      BY <1>4, <1>6, <2>3
    <3>4. x \in Numbers
      BY <3>1, <3>3, BestIs
    <3>5. ~IsNan(w)
      BY <3>2, <3>4, NumberIs
    <3> QED
      BY <3>1, <3>2, <3>5 DEF IfNan, Top
  <2> QED
    BY <2>2, <2>3
<1>10. StandsFor(i, w, g, new)
  BY <1>8, <1>9 DEF StandsFor
<1> QED
  BY <1>10 DEF g, new

-----------------------------------------------------------------------------
(* Counting rows                                                           *)

(* Quotient and remainder are unique.                                      *)
LEMMA DivUnique ==
    ASSUME NEW R \in Nat \ {0}, NEW q \in Int, NEW r \in 0 .. R - 1, NEW x, x = R * q + r
    PROVE  x \in Int /\ x \div R = q /\ x % R = r
<1> DEFINE p == x \div R
           s == x % R
<1>1. x \in Int /\ R * q \in Int
  OBVIOUS
<1>2. p \in Int /\ s \in 0 .. R - 1 /\ x = R * p + s
  BY <1>1, DivMod
<1> HIDE DEF p, s
<1>3. R * (p - q) = R * p - R * q /\ R * p \in Int
  BY <1>2
<1>4. R * (p - q) = r - s
  BY <1>1, <1>2, <1>3
<1>5. p - q >= 1 => R * (p - q) >= R
  BY <1>2
<1>6. q - p >= 1 => R * (q - p) >= R
  BY <1>2
<1>7. R * (q - p) = R * q - R * p
  BY <1>2
<1>8. p = q
  BY <1>1, <1>2, <1>3, <1>4, <1>5, <1>6, <1>7
<1>9. s = r
  BY <1>1, <1>2, <1>8
<1> QED
  BY <1>1, <1>8, <1>9 DEF p, s

(* A multiple of the divisor only shifts the quotient.                     *)
LEMMA DivShift ==
    ASSUME NEW R \in Nat \ {0}, NEW x \in Int, NEW k \in Int
    PROVE  (x - R * k) \div R = x \div R - k /\ (x - R * k) % R = x % R
<1> DEFINE p == x \div R
           s == x % R
           y == x - R * k
           q == p - k
<1>1. p \in Int /\ s \in 0 .. R - 1 /\ x = R * p + s
  BY DivMod
<1> HIDE DEF p, s
<1>2. R * (p - k) = R * p - R * k /\ R * p \in Int /\ R * k \in Int
  BY <1>1
<1>3. y = R * q + s /\ q \in Int
  BY <1>1, <1>2
<1> HIDE DEF y, q
<1>4. y \div R = q /\ y % R = s
  BY <1>1, <1>3, DivUnique
<1> QED
  BY <1>4 DEF y, q, p, s

(* Division by a product, in two steps.                                    *)
LEMMA DivDiv ==
    ASSUME NEW s \in Nat \ {0}, NEW c \in Nat \ {0}, NEW t \in Nat
    PROVE  t \div (s * c) = (t \div s) \div c
<1> DEFINE p == t \div s
           r == t % s
           q == p \div c
           u == p % c
           R == s * c
           v == s * u + r
<1>1. p \in Int /\ r \in 0 .. s - 1 /\ t = s * p + r
  <2>1. t \in Int
    OBVIOUS
  <2> QED
    BY <2>1, DivMod
<1> HIDE DEF p, r
<1>2. q \in Int /\ u \in 0 .. c - 1 /\ p = c * q + u
  BY <1>1, DivMod
<1> HIDE DEF q, u
<1>3. R \in Nat \ {0}
  OBVIOUS
<1>4. s * p = R * q + s * u
  BY <1>2
<1>5. s * u \in Nat /\ R * q \in Int
  BY <1>2, <1>3
<1>6. s * u + s <= R
  <2>1. c - u >= 1 /\ c - u \in Nat
    BY <1>2
  <2>2. s * (c - u) >= s
    BY <2>1
  <2>3. s * (c - u) = R - s * u
    BY <1>2
  <2> QED
    BY <1>3, <1>5, <2>2, <2>3
<1>7. v \in 0 .. R - 1 /\ t = R * q + v
  BY <1>1, <1>3, <1>4, <1>5, <1>6
<1> HIDE DEF R, v
<1>8. t \div R = q
  BY <1>2, <1>3, <1>7, DivUnique
<1> QED
  BY <1>8 DEF R, q, p

\* How many rows of archive i are full when a PDPs are complete.
Full(i, a) == a \div Cnt(i)

(* The full rows, and the PDPs after them.                                 *)
LEMMA FullIs ==
    ASSUME NEW i \in RRAs, NEW a \in Nat
    PROVE  /\ Cnt(i) \in Nat \ {0} /\ Full(i, a) \in Nat
           /\ RowBase(i, a) = Cnt(i) * Full(i, a) /\ RowBase(i, a) \in Nat
           /\ RowBase(i, a) <= a /\ a < RowBase(i, a) + Cnt(i)
           /\ a % Cnt(i) = a - RowBase(i, a)
<1> DEFINE c == Cnt(i)
           q == a \div c
           r == a % c
<1>1. c \in Nat \ {0} /\ a \in Int
  BY Declared DEF Cnt
<1> HIDE DEF c
<1>2. q \in Nat /\ r \in 0 .. c - 1 /\ a = c * q + r
  BY <1>1, DivMod, DivNat
<1> HIDE DEF q, r
<1>3. c * q \in Nat
  BY <1>1, <1>2
<1>4. Full(i, a) = q /\ RowBase(i, a) = c * q /\ a % c = r
  BY DEF Full, RowBase, q, c, r
<1> QED
  BY <1>1, <1>2, <1>3, <1>4 DEF c

(* More PDPs, more rows.                                                   *)
LEMMA FullMore ==
    ASSUME NEW i \in RRAs, NEW a \in Nat, NEW t \in Nat, a <= t
    PROVE  /\ Full(i, a) <= Full(i, t)
           /\ Full(i, a) < Full(i, t) => RowBase(i, a) + Cnt(i) <= RowBase(i, t)
           /\ Full(i, a) < Full(i, t) <=> RowBase(i, a) + Cnt(i) <= t
<1> DEFINE c == Cnt(i)
           p == Full(i, a)
           q == Full(i, t)
<1>1. c \in Nat \ {0} /\ p \in Nat /\ q \in Nat /\ RowBase(i, a) = c * p /\ RowBase(i, t) = c * q
      /\ t < RowBase(i, t) + c /\ RowBase(i, t) <= t
  BY FullIs
<1>2. p <= q
  BY <1>1, DivMono DEF Full
<1> HIDE DEF c, p, q
<1>3. c * (q - p) = c * q - c * p /\ c * q \in Int /\ c * p \in Int
  BY <1>1
<1>4. q - p >= 1 => c * (q - p) >= c
  BY <1>1, <1>2
<1>5. p < q => c * p + c <= c * q
  BY <1>1, <1>3, <1>4
<1>6. c * p + c <= t => p < q
  <2> SUFFICES ASSUME c * p + c <= t, ~(p < q) PROVE FALSE
    OBVIOUS
  <2>1. p = q
    BY <1>1, <1>2
  <2> QED
    BY <1>1, <1>3, <2>1
<1> QED
  BY <1>1, <1>2, <1>3, <1>5, <1>6 DEF c, p, q

(* start_pdp_offset is what the running row lacks.                         *)
LEMMA OffsetIs ==
    ASSUME last_up \in Nat, NEW i \in RRAs
    PROVE  StartPdpOffset(i) = RowBase(i, Done(last_up)) + Cnt(i) - Done(last_up)
<1> DEFINE a == Done(last_up)
<1>1. PdpStep \in Nat \ {0}
  BY FileAssumption
<1>2. a \in Nat /\ PdpStart(last_up) = PdpStep * a /\ a \in Int
  BY PdpStartIs
<1> HIDE DEF a
<1>3. (PdpStep * a) \div PdpStep = a
  BY <1>1, <1>2, ExactDiv
<1>4. StartPdpOffset(i) = Cnt(i) - (a % Cnt(i))
  BY <1>2, <1>3 DEF StartPdpOffset, Cnt
<1>5. a % Cnt(i) = a - RowBase(i, a) /\ RowBase(i, a) \in Nat /\ Cnt(i) \in Nat
  BY <1>2, FullIs
<1> QED
  BY <1>2, <1>4, <1>5 DEF a

(* An update writes the rows that become full.                             *)
LEMMA StepCntFull ==
    ASSUME last_up \in Nat, NEW i \in RRAs, NEW t \in Nat, last_up <= t
    PROVE  /\ RraStepCnt(i, Elapsed(t)) = Full(i, Done(t)) - Full(i, Done(last_up))
           /\ RraStepCnt(i, Elapsed(t)) > 0 =>
                CarriedPdps(i, Elapsed(t)) = Done(t) - RowBase(i, Done(t))
<1> DEFINE a == Done(last_up)
           z == Done(t)
           c == Cnt(i)
           o == StartPdpOffset(i)
           p == Full(i, a)
           k == p + 1
<1>1. a \in Nat /\ z \in Nat /\ z \in Int
  BY PdpStartIs
<1>2. Elapsed(t) = z - a /\ a <= z
  BY StepsIs, <1>1 DEF Steps, Elapsed
<1>3. o = RowBase(i, a) + c - a
  BY OffsetIs
<1> HIDE DEF a, z
<1>4. c \in Nat \ {0} /\ p \in Nat /\ RowBase(i, a) = c * p /\ c * p \in Nat
      /\ Full(i, z) \in Nat /\ z % c = z - RowBase(i, z)
  BY <1>1, FullIs
<1>5. p <= Full(i, z) /\ (p < Full(i, z) <=> c * p + c <= z)
  BY <1>1, <1>2, <1>4, FullMore
<1>6. RraStepCnt(i, Elapsed(t)) = IF o <= z - a THEN (z - a - o) \div c + 1 ELSE 0
  BY <1>2 DEF RraStepCnt, Cnt
<1> HIDE DEF c, p
<1>7. k \in Int /\ c * k = c * p + c
  BY <1>4
<1>8. (z - c * k) \div c = z \div c - k /\ (z - c * k) % c = z % c
  <2> HIDE DEF k
  <2> QED
    BY <1>1, <1>4, <1>7, DivShift
<1>9. o <= z - a <=> c * p + c <= z
  BY <1>1, <1>3, <1>4
<1>10. z - a - o = z - c * k
  BY <1>1, <1>3, <1>4, <1>7
<1>11. z \div c = Full(i, z)
  BY DEF Full, c
<1>12. CASE c * p + c <= z
  <2>1. RraStepCnt(i, Elapsed(t)) = (Full(i, z) - k) + 1
    BY <1>6, <1>8, <1>9, <1>10, <1>11, <1>12
  <2>2. CarriedPdps(i, Elapsed(t)) = (z - a - o) % c
    BY <1>2 DEF CarriedPdps, c, Cnt
  <2> QED
    BY <1>4, <1>8, <1>10, <2>1, <2>2 DEF a, z, p
<1>13. CASE ~(c * p + c <= z)
  BY <1>4, <1>5, <1>6, <1>9, <1>13 DEF a, z, p
<1> QED
  BY <1>12, <1>13

-----------------------------------------------------------------------------
(* Rows that become full                                                   *)

(* The PDPs of a row.                                                      *)
LEMMA RowPdpsIs ==
    ASSUME NEW i \in RRAs, NEW p \in Nat
    PROVE  RowPdps(i, p + 1) = (Cnt(i) * p + 1)..(Cnt(i) * p + Cnt(i))
           /\ Cnt(i) * (p + 1) = Cnt(i) * p + Cnt(i)
<1>1. Cnt(i) \in Nat
  BY Declared DEF Cnt
<1>2. Cnt(i) * (p + 1) = Cnt(i) * p + Cnt(i) /\ (p + 1) - 1 = p
  BY <1>1
<1> QED
  BY <1>2 DEF RowPdps

(* A row without known PDPs is unknown.                                    *)
LEMMA RowUnknown ==
    ASSUME NEW i \in RRAs, NEW f, NEW m, KnownIn(f, RowPdps(i, m)) = {}
    PROVE  RowOf(i, f, m) = DNAN
<1>1. Cardinality({}) = 0 /\ Cnt(i) \in Nat
  BY FS_EmptySet, Declared DEF Cnt
<1>2. Cnt(i) - Cardinality(KnownIn(f, RowPdps(i, m))) = Cnt(i)
  BY <1>1
<1> QED
  BY <1>2, TooFewIs DEF RowOf

\* Of the PDPs f, those from a + 1 to t become r; of them, b + 1 to e are looked at.
Repainted(n, f, r, b, a, e, t) ==
    /\ n \in Nat /\ f \in [1..n -> Values] /\ r \in Values
    /\ b \in Nat /\ a \in Nat /\ e \in Nat /\ t \in Nat
    /\ b <= a /\ a <= e /\ e <= t /\ t <= n

(* The known PDPs from b + 1 to e after an update that starts among them.  *)
LEMMA RepaintedIs ==
    ASSUME NEW n, NEW f, NEW r, NEW b, NEW a, NEW e, NEW t, Repainted(n, f, r, b, a, e, t)
    PROVE  LET g == Painted(f, a, t, r)
               old == KnownIn(f, (b + 1)..a)
               new == KnownIn(g, (b + 1)..e)
           IN  /\ Cardinality(new) = Cardinality(old) + (IF IsNan(r) THEN 0 ELSE e - a)
               /\ Total(g, new) = Plus(Total(f, old),
                                       IF IsNan(r) THEN Num(0) ELSE Times(r, Num(e - a)))
               /\ new = old \cup Fresh(r, a, e)
               /\ \A q \in old : f[q] \in Numbers /\ g[q] = f[q]
               /\ \A q \in Fresh(r, a, e) : g[q] = r
               /\ Cardinality(old) \in Nat /\ Total(f, old) \in Numbers
               /\ ~IsNan(r) => r \in Numbers
<1>1. /\ n \in Nat /\ f \in [1..n -> Values] /\ r \in Values
      /\ b \in Nat /\ a \in Nat /\ e \in Nat /\ t \in Nat
      /\ b <= a /\ a <= e /\ e <= t /\ t <= n /\ a \in Int /\ b \in Int
  BY DEF Repainted
<1>2. /\ Cardinality(KnownIn(Painted(f, a, t, r), (b + 1)..e))
          = Cardinality(KnownIn(f, (b + 1)..a)) + (IF IsNan(r) THEN 0 ELSE e - a)
      /\ Total(Painted(f, a, t, r), KnownIn(Painted(f, a, t, r), (b + 1)..e))
          = Plus(Total(f, KnownIn(f, (b + 1)..a)),
                 IF IsNan(r) THEN Num(0) ELSE Times(r, Num(e - a)))
  BY <1>1, KnownPainted
<1>3. /\ KnownIn(Painted(f, a, t, r), (b + 1)..e) = KnownIn(f, (b + 1)..a) \cup Fresh(r, a, e)
      /\ \A q \in KnownIn(f, (b + 1)..a) : f[q] \in Numbers /\ Painted(f, a, t, r)[q] = f[q]
      /\ \A q \in Fresh(r, a, e) : Painted(f, a, t, r)[q] = r
  <2> DEFINE g == Painted(f, a, t, r)
             old == KnownIn(f, (b + 1)..a)
  <2>1. KnownIn(g, (b + 1)..e) = old \cup Fresh(r, a, e)
    BY <1>1, PaintedKnown
  <2>2. \A q \in old : f[q] \in Numbers /\ g[q] = f[q]
    <3> SUFFICES ASSUME NEW q \in old PROVE f[q] \in Numbers /\ g[q] = f[q]
      OBVIOUS
    <3>1. q \in 1..n /\ q \in (b + 1)..a /\ ~IsNan(f[q])
      BY <1>1 DEF KnownIn
    <3>2. f[q] \in Values
      BY <1>1, <3>1
    <3>3. f[q] \in Numbers
      BY <3>1, <3>2, NanIsNoNumber
    <3>4. q \notin (a + 1)..t /\ q \in DOMAIN f
      BY <1>1, <3>1
    <3> QED
      BY <3>3, <3>4 DEF Painted
  <2>3. \A q \in Fresh(r, a, e) : g[q] = r
    BY <1>1, PaintedKnown
  <2> QED
    BY <2>1, <2>2, <2>3
<1>4. Cardinality(KnownIn(f, (b + 1)..a)) \in Nat /\ Total(f, KnownIn(f, (b + 1)..a)) \in Numbers
  BY <1>1, KnownNumbers
<1>5. ~IsNan(r) => r \in Numbers
  BY <1>1, NanIsNoNumber
<1> QED
  BY <1>2, <1>3, <1>4, <1>5

(* The first row an update fills, from what was prepared and the new PDPs. *)
LEMMA PrimaryIs ==
    ASSUME NEW i \in RRAs, NEW n \in Nat, NEW f \in [1..n -> Values],
           NEW r \in Values, NEW a \in Nat, NEW t \in Nat, a <= t, t <= n,
           Full(i, a) < Full(i, t), NEW cdp, Prepares(i, cdp, f, a),
           StartPdpOffset(i) = RowBase(i, a) + Cnt(i) - a,
           NEW unkn, unkn = IF IsNan(r) THEN cdp.unkn + StartPdpOffset(i) ELSE cdp.unkn
    PROVE  (IF TooFew(i, unkn) THEN DNAN ELSE InitializeCdpVal(i, cdp, unkn, r))
             = RowOf(i, Painted(f, a, t, r), Full(i, a) + 1)
<1> DEFINE c == Cnt(i)
           p == Full(i, a)
           b == RowBase(i, a)
           e == b + c
           o == e - a
           g == Painted(f, a, t, r)
           old == KnownIn(f, (b + 1)..a)
           new == KnownIn(g, (b + 1)..e)
           add == Fresh(r, a, e)
<1>1. /\ c \in Nat \ {0} /\ p \in Nat /\ b = c * p /\ b \in Nat /\ b <= a /\ a < b + c
      /\ b + c <= t
  BY FullIs, FullMore
<1>2. c \in Nat \ {0} /\ p \in Nat /\ b = c * p /\ b \in Nat /\ b <= a /\ a < e /\ e <= t
      /\ a <= e /\ e \in Nat /\ o \in Nat \ {0} /\ o \in Int
  <2> HIDE DEF c, p, b
  <2> QED
    BY <1>1
<1>3. StartPdpOffset(i) = o
  <2>1. StartPdpOffset(i) = b + c - a
    OBVIOUS
  <2> HIDE DEF b, c
  <2> QED
    BY <1>1, <2>1
<1>4. RowPdps(i, p + 1) = (b + 1)..e /\ c * (p + 1) = e
  BY <1>2, RowPdpsIs
<1>5. cdp.unkn = (a - b) - Cardinality(old) /\ StandsFor(i, cdp.val, f, old)
  BY DEF Prepares
<1>6. unkn = IF IsNan(r) THEN cdp.unkn + o ELSE cdp.unkn
  BY <1>3
<1> HIDE DEF c, p, b, e
<1>7. Repainted(n, f, r, b, a, e, t)
  BY <1>2 DEF Repainted
<1>8. /\ Cardinality(new) = Cardinality(old) + (IF IsNan(r) THEN 0 ELSE o)
      /\ Total(g, new) = Plus(Total(f, old), IF IsNan(r) THEN Num(0) ELSE Times(r, Num(o)))
  BY <1>7, RepaintedIs
<1>9. /\ new = old \cup add
      /\ \A q \in old : f[q] \in Numbers /\ g[q] = f[q]
      /\ \A q \in add : g[q] = r
  BY <1>7, RepaintedIs
<1>10. Cardinality(old) \in Nat /\ Total(f, old) \in Numbers
  BY <1>7, RepaintedIs
<1>11. ~IsNan(r) => r \in Numbers /\ add # {}
  <2>1. a + 1 \in (a + 1)..e
    BY <1>2
  <2> QED
    BY <1>7, <2>1, RepaintedIs DEF Fresh
<1>12. g[e] = r
  <2>1. e \in 1..n /\ e \in (a + 1)..t
    BY <1>2
  <2> QED
    BY <2>1 DEF Painted
<1>13. unkn = c - Cardinality(new) /\ c - unkn = Cardinality(new) /\ Cardinality(new) \in Nat
  <2>1. e = b + c /\ o = e - a
    BY DEF e
  <2> HIDE DEF new, old, o
  <2>2. CASE IsNan(r)
    BY <1>2, <1>5, <1>8, <1>10, <1>6, <2>1, <2>2
  <2>3. CASE ~IsNan(r)
    BY <1>2, <1>5, <1>8, <1>10, <1>6, <2>1, <2>3
  <2> QED
    BY <2>2, <2>3
<1> HIDE DEF g, old, new, add, o
<1> DEFINE row == RowOf(i, g, p + 1)
           val == InitializeCdpVal(i, cdp, unkn, r)
<1>14. row = IF TooFew(i, unkn) THEN DNAN
             ELSE IF Archives[i].cf = "AVERAGE" THEN Mean(g, new)
             ELSE IF Archives[i].cf = "LAST" THEN g[e]
             ELSE g[CHOOSE q \in new : \A s \in new : ~Beats(i, g[s], g[q])]
  <2>1. new = KnownIn(g, RowPdps(i, p + 1))
    BY <1>4 DEF new
  <2> QED
    BY <1>4, <1>13, <2>1 DEF RowOf, c
<1>15. ASSUME ~TooFew(i, unkn) PROVE val = row
  <2>1. new # {}
    <3> SUFFICES ASSUME new = {} PROVE FALSE
      OBVIOUS
    <3>1. unkn = c
      BY <1>2, <1>13, FS_EmptySet
    <3> QED
      BY <1>15, <3>1, TooFewIs DEF c
  <2>2. CASE Archives[i].cf = "AVERAGE"
    <3>1. val = Over(Plus(IfNan(cdp.val, Num(0)), Times(IfNan(r, Num(0)), Num(o))),
                     Num(Cardinality(new)))
      BY <1>3, <1>13, <2>2 DEF InitializeCdpVal, c, Cnt
    <3>2. IfNan(cdp.val, Num(0)) = Total(f, old)
      BY <1>5, <2>2 DEF StandsFor
    <3>3. Times(IfNan(r, Num(0)), Num(o)) = IF IsNan(r) THEN Num(0) ELSE Times(r, Num(o))
      <4>1. Times(Num(0), Num(o)) = Num(0)
        <5>1. Num(0) \in Numbers /\ Num(0) = Fraction(0, 1)
          BY NumIs
        <5>2. Times(Fraction(0, 1), Num(o)) = Fraction(0 * o, 1)
          BY <1>2, TimesIs
        <5>3. 0 * o = 0
          BY <1>2
        <5> QED
          BY <5>1, <5>2, <5>3
      <4> QED
        BY <4>1 DEF IfNan
    <3>4. val = Mean(g, new)
      BY <1>8, <3>1, <3>2, <3>3 DEF Mean
    <3> QED
      BY <1>14, <1>15, <2>2, <3>4
  <2>3. CASE Archives[i].cf = "LAST"
    <3>1. val = r
      BY <2>3 DEF InitializeCdpVal
    <3> QED
      BY <1>12, <1>14, <1>15, <2>3, <3>1
  <2>4. CASE Extreme(i)
    <3> DEFINE v == IfNan(cdp.val, Worst(i))
               cur == IfNan(r, Worst(i))
               w == IF Beats(i, cur, v) THEN cur ELSE v
    <3>1. Top(i, v, f, old)
      BY <1>5, <2>4 DEF StandsFor
    <3>2. val = w
      BY <2>4 DEF InitializeCdpVal, Extreme, Beats, Worst
    <3>3. row = g[CHOOSE q \in new : \A s \in new : ~Beats(i, g[s], g[q])]
      BY <1>14, <1>15, <2>4 DEF Extreme
    <3>4. IsBest(i, w, g, new)
      <4>1. CASE IsNan(r)
        <5>1. new = old /\ cur = Worst(i)
          BY <1>9, <4>1 DEF add, Fresh, IfNan
        <5>2. Top(i, v, g, old)
          <6> HIDE DEF v
          <6> QED
            BY <1>9, <3>1, TopSame
        <5>3. \A q \in old : g[q] \in Numbers
          BY <1>9
        <5>4. ~Beats(i, Worst(i), v) /\ IsBest(i, v, g, old)
          <6> HIDE DEF v
          <6> QED
            BY <2>1, <5>1, <5>2, <5>3, TopIs
        <5> QED
          BY <5>1, <5>4
      <4>2. CASE ~IsNan(r)
        <5>1. cur = r
          BY <4>2 DEF IfNan
        <5>2. IsBest(i, IF Beats(i, r, v) THEN r ELSE v, g, old \cup add)
          <6> HIDE DEF v
          <6> QED
            BY <1>9, <1>11, <3>1, <4>2, TopAdd
        <5> QED
          BY <1>9, <5>1, <5>2
      <4> QED
        BY <4>1, <4>2
    <3>5. \A q \in new : g[q] \in Numbers
      BY <1>9, <1>11 DEF add, Fresh
    <3> HIDE DEF w
    <3>6. g[CHOOSE q \in new : \A s \in new : ~Beats(i, g[s], g[q])] = w
      BY <3>4, <3>5, BestIs
    <3> QED
      BY <3>2, <3>3, <3>6
  <2>5. Archives[i].cf \in {"AVERAGE", "MINIMUM", "MAXIMUM", "LAST"}
    BY Declared
  <2> QED
    BY <2>2, <2>3, <2>4, <2>5 DEF Extreme
<1>16. (IF TooFew(i, unkn) THEN DNAN ELSE val) = row
  BY <1>14, <1>15
<1> QED
  BY <1>16 DEF g, p

\* Of the PDPs f, those from a + 1 to t become r; of them, only b + 1 to e are looked at.
Overpainted(n, f, r, a, b, e, t) ==
    /\ n \in Nat /\ f \in [1..n -> Values] /\ r \in Values
    /\ a \in Nat /\ b \in Nat /\ e \in Nat /\ t \in Nat
    /\ a <= b /\ b <= e /\ e <= t /\ t <= n

(* The known PDPs from b + 1 to e after an update that starts before them. *)
LEMMA OverpaintedIs ==
    ASSUME NEW n, NEW f, NEW r, NEW a, NEW b, NEW e, NEW t, Overpainted(n, f, r, a, b, e, t)
    PROVE  LET g == Painted(f, a, t, r)
               new == KnownIn(g, (b + 1)..e)
           IN  /\ Cardinality(new) = IF IsNan(r) THEN 0 ELSE e - b
               /\ Total(g, new) = IF IsNan(r) THEN Num(0) ELSE Times(r, Num(e - b))
               /\ new = Fresh(r, b, e)
               /\ \A q \in (b + 1)..e : g[q] = r
               /\ ~IsNan(r) => r \in Numbers
<1> DEFINE g == Painted(f, a, t, r)
<1>1. /\ n \in Nat /\ f \in [1..n -> Values] /\ r \in Values
      /\ a \in Nat /\ b \in Nat /\ e \in Nat /\ t \in Nat
      /\ a <= b /\ b <= e /\ e <= t /\ t <= n
  BY DEF Overpainted
<1>2. /\ Cardinality(KnownIn(Painted(f, a, t, r), (b + 1)..e)) = IF IsNan(r) THEN 0 ELSE e - b
      /\ Total(Painted(f, a, t, r), KnownIn(Painted(f, a, t, r), (b + 1)..e))
            = IF IsNan(r) THEN Num(0) ELSE Times(r, Num(e - b))
  BY <1>1, KnownFresh
<1>3. \A q \in (b + 1)..e : q \in DOMAIN g /\ g[q] = r
  <2> SUFFICES ASSUME NEW q \in (b + 1)..e PROVE q \in DOMAIN g /\ g[q] = r
    OBVIOUS
  <2>1. q \in 1..n /\ q \in (a + 1)..t
    BY <1>1
  <2>2. q \in DOMAIN f
    BY <1>1, <2>1
  <2> QED
    BY <2>1, <2>2 DEF Painted
<1> HIDE DEF g
<1>4. KnownIn(g, (b + 1)..e) = Fresh(r, b, e)
  BY <1>3 DEF KnownIn, Fresh
<1>5. ~IsNan(r) => r \in Numbers
  BY <1>1, NanIsNoNumber
<1> QED
  BY <1>2, <1>3, <1>4, <1>5 DEF g

(* Only new PDPs: the row is what they are.                                *)
LEMMA LaterIs ==
    ASSUME NEW i \in RRAs, NEW n \in Nat, NEW f \in [1..n -> Values],
           NEW r \in Values, NEW a \in Nat, NEW t \in Nat, t <= n,
           NEW p \in Nat, a <= Cnt(i) * p, Cnt(i) * p + Cnt(i) <= t
    PROVE  RowOf(i, Painted(f, a, t, r), p + 1) = r
<1> DEFINE c == Cnt(i)
           b == c * p
           e == b + c
           g == Painted(f, a, t, r)
           new == KnownIn(g, (b + 1)..e)
<1>1. c \in Nat \ {0}
  BY Declared DEF Cnt
<1>2. RowPdps(i, p + 1) = (b + 1)..e /\ c * (p + 1) = e
  BY RowPdpsIs
<1> HIDE DEF c
<1>3. b \in Nat
  BY <1>1
<1>4. a <= b /\ e <= t
  BY DEF c
<1> HIDE DEF b
<1>5. e \in Nat /\ b <= e /\ e - b = c /\ e \in (b + 1)..e
  BY <1>1, <1>3
<1> HIDE DEF e
<1>6. Overpainted(n, f, r, a, b, e, t)
  BY <1>3, <1>4, <1>5 DEF Overpainted
<1>7. /\ Cardinality(new) = IF IsNan(r) THEN 0 ELSE c
      /\ Total(g, new) = IF IsNan(r) THEN Num(0) ELSE Times(r, Num(c))
      /\ new = Fresh(r, b, e)
      /\ \A q \in (b + 1)..e : g[q] = r
      /\ ~IsNan(r) => r \in Numbers
  BY <1>5, <1>6, OverpaintedIs
<1> HIDE DEF g, new
<1> DEFINE row == RowOf(i, g, p + 1)
           unkn == c - Cardinality(new)
<1>8. row = IF TooFew(i, unkn) THEN DNAN
             ELSE IF Archives[i].cf = "AVERAGE" THEN Mean(g, new)
             ELSE IF Archives[i].cf = "LAST" THEN g[e]
             ELSE g[CHOOSE q \in new : \A s \in new : ~Beats(i, g[s], g[q])]
  <2>1. new = KnownIn(g, RowPdps(i, p + 1))
    BY <1>2 DEF new
  <2> QED
    BY <1>2, <2>1 DEF RowOf, c
<1>9. CASE IsNan(r)
  <2>1. unkn = c
    BY <1>1, <1>7, <1>9
  <2>2. TooFew(i, unkn)
    BY <2>1, TooFewIs DEF c
  <2> QED
    BY <1>8, <1>9, <2>2 DEF g, IsNan
<1>10. CASE ~IsNan(r)
  <2>1. unkn = 0 /\ r \in Numbers /\ new = (b + 1)..e /\ Cardinality(new) = c
    BY <1>1, <1>7, <1>10 DEF Fresh
  <2>2. ~TooFew(i, unkn)
    BY <2>1, TooFewIs
  <2>3. Mean(g, new) = r
    <3>1. Mean(g, new) = Over(Times(r, Num(c)), Num(c))
      BY <1>7, <1>10, <2>1 DEF Mean
    <3>2. c \in Int
      BY <1>1
    <3>3. Over(Times(r, Num(c)), Num(c)) = r
      BY <1>1, <2>1, <3>2, RateTimes
    <3> QED
      BY <3>1, <3>3
  <2>4. g[e] = r
    BY <1>5, <1>7
  <2>5. g[CHOOSE q \in new : \A s \in new : ~Beats(i, g[s], g[q])] = r
    <3>1. \A q \in new : g[q] = r /\ g[q] \in Numbers
      BY <1>7, <2>1
    <3>2. e \in new
      BY <1>5, <2>1
    <3>3. IsBest(i, r, g, new)
      BY <2>1, <3>1, <3>2, BeatsIs DEF IsBest
    <3> QED
      BY <3>1, <3>3, BestIs
  <2> QED
    BY <1>8, <2>2, <2>3, <2>4, <2>5 DEF g
<1> QED
  BY <1>9, <1>10

(* What the next row starts with.                                          *)
LEMMA CarryIs ==
    ASSUME NEW i \in RRAs, NEW n \in Nat, NEW f \in [1..n -> Values],
           NEW r \in Values, NEW a \in Nat, NEW t \in Nat, a <= t, t <= n,
           Full(i, a) < Full(i, t), NEW elapsed,
           CarriedPdps(i, elapsed) = t - RowBase(i, t), NEW cdp,
           cdp.unkn = IF IsNan(r) THEN CarriedPdps(i, elapsed) ELSE 0,
           cdp.val = InitializeCarryOver(i, r, elapsed)
    PROVE  Prepares(i, cdp, Painted(f, a, t, r), t)
<1> DEFINE b == RowBase(i, t)
           g == Painted(f, a, t, r)
           new == KnownIn(g, (b + 1)..t)
           k == CarriedPdps(i, elapsed)
<1>1. b \in Nat /\ b <= t /\ a <= b
  <2>1. Cnt(i) \in Nat /\ a < RowBase(i, a) + Cnt(i) /\ RowBase(i, a) \in Nat
        /\ RowBase(i, t) \in Nat /\ RowBase(i, t) <= t
    BY FullIs
  <2>2. RowBase(i, a) + Cnt(i) <= RowBase(i, t)
    BY FullMore
  <2> QED
    BY <2>1, <2>2
<1>2. k = t - b
  OBVIOUS
<1> HIDE DEF b, k
<1>3. t <= t /\ k \in Nat
  BY <1>1, <1>2
<1>4. Overpainted(n, f, r, a, b, t, t)
  BY <1>1, <1>3 DEF Overpainted
<1>5. /\ Cardinality(new) = IF IsNan(r) THEN 0 ELSE k
      /\ Total(g, new) = IF IsNan(r) THEN Num(0) ELSE Times(r, Num(k))
      /\ new = Fresh(r, b, t)
      /\ \A q \in (b + 1)..t : g[q] = r
      /\ ~IsNan(r) => r \in Numbers
  BY <1>2, <1>4, OverpaintedIs
<1> HIDE DEF new, g
<1>6. cdp.unkn = (t - b) - Cardinality(new)
  BY <1>2, <1>3, <1>5 DEF k
<1>7. Archives[i].cf = "AVERAGE" => IfNan(cdp.val, Num(0)) = Total(g, new)
  <2> SUFFICES ASSUME Archives[i].cf = "AVERAGE" PROVE IfNan(cdp.val, Num(0)) = Total(g, new)
    OBVIOUS
  <2>1. ~IsNan(Num(0))
    BY NumIs, NumberIs
  <2>2. cdp.val = IF k = 0 \/ IsNan(r) THEN Num(0) ELSE Times(r, Num(k))
    BY DEF InitializeCarryOver, k
  <2>3. CASE IsNan(r)
    BY <1>5, <2>1, <2>2, <2>3 DEF IfNan
  <2>4. CASE ~IsNan(r)
    <3>1. k \in Int /\ r \in Numbers
      BY <1>3, <1>5, <2>4
    <3>2. Times(r, Num(k)) \in Numbers /\ Times(r, Num(0)) = Num(0)
      BY <3>1, TimesNumber, TimesZero
    <3>3. cdp.val = Times(r, Num(k))
      BY <2>2, <2>4, <3>2
    <3>4. ~IsNan(cdp.val)
      BY <3>2, <3>3, NumberIs
    <3> QED
      BY <1>5, <2>4, <3>3, <3>4 DEF IfNan
  <2> QED
    BY <2>3, <2>4
<1>8. Extreme(i) => Top(i, IfNan(cdp.val, Worst(i)), g, new)
  <2> SUFFICES ASSUME Extreme(i) PROVE Top(i, IfNan(cdp.val, Worst(i)), g, new)
    OBVIOUS
  <2>1. cdp.val = IF k = 0 \/ IsNan(r) THEN Worst(i) ELSE r
    BY DEF InitializeCarryOver, Extreme, Worst, k
  <2>2. CASE k = 0 \/ IsNan(r)
    <3>1. new = {}
      BY <1>1, <1>2, <1>5, <2>2 DEF Fresh
    <3>2. IfNan(cdp.val, Worst(i)) = Worst(i)
      BY <2>1, <2>2 DEF IfNan
    <3> QED
      BY <3>1, <3>2 DEF Top
  <2>3. CASE ~(k = 0 \/ IsNan(r))
    <3>1. t \in new /\ \A q \in new : g[q] = r
      BY <1>1, <1>2, <1>3, <1>5, <2>3 DEF Fresh
    <3>2. r \in Numbers /\ cdp.val = r
      BY <1>5, <2>1, <2>3
    <3>3. IfNan(cdp.val, Worst(i)) = r
      BY <2>3, <3>2 DEF IfNan
    <3>4. IsBest(i, r, g, new)
      BY <3>1, <3>2, BeatsIs DEF IsBest
    <3> QED
      BY <3>3, <3>4 DEF Top
  <2> QED
    BY <2>2, <2>3
<1> QED
  BY <1>6, <1>7, <1>8 DEF Prepares, StandsFor, b, new, g

(* No row becomes full: the new PDPs are added to what is prepared.        *)
LEMMA WithoutIs ==
    ASSUME NEW i \in RRAs, NEW n \in Nat, NEW f \in [1..n -> Values],
           NEW r \in Values, NEW a \in Nat, NEW t \in Nat, a < t, t <= n,
           Full(i, a) = Full(i, t), NEW old, Prepares(i, old, f, a), NEW cdp,
           cdp.unkn = IF IsNan(r) THEN old.unkn + (t - a) ELSE old.unkn,
           cdp.val = IF IsNan(r) THEN old.val ELSE CalculateCdpVal(i, old.val, r, t - a)
    PROVE  Prepares(i, cdp, Painted(f, a, t, r), t)
<1> DEFINE b == RowBase(i, a)
           g == Painted(f, a, t, r)
           was == KnownIn(f, (b + 1)..a)
           new == KnownIn(g, (b + 1)..t)
           w == cdp.val
           v == old.val
<1>1. b \in Nat /\ b <= a /\ b = RowBase(i, t) /\ a <= t /\ t <= t
  BY FullIs
<1>2. old.unkn = (a - b) - Cardinality(was) /\ StandsFor(i, v, f, was)
  BY DEF Prepares
<1>3. w = IF IsNan(r) THEN v ELSE CalculateCdpVal(i, v, r, t - a)
  OBVIOUS
<1> HIDE DEF b, w, v
<1>4. Repainted(n, f, r, b, a, t, t)
  BY <1>1 DEF Repainted
<1>5. Cardinality(new) = Cardinality(was) + (IF IsNan(r) THEN 0 ELSE t - a)
      /\ Cardinality(was) \in Nat
  BY <1>4, RepaintedIs
<1>6. StandsFor(i, w, Painted(f, a, t, r), KnownIn(Painted(f, a, t, r), (b + 1)..t))
  BY <1>1, <1>2, <1>3, StandsPainted
<1>7. cdp.unkn = (t - b) - Cardinality(new)
  <2> HIDE DEF new, was
  <2>1. CASE IsNan(r)
    BY <1>1, <1>2, <1>5, <2>1
  <2>2. CASE ~IsNan(r)
    BY <1>1, <1>2, <1>5, <2>2
  <2> QED
    BY <2>1, <2>2
<1> QED
  BY <1>1, <1>6, <1>7 DEF Prepares, w

(* Among finitely many known PDPs there is a best one.                     *)
LEMMA BestExists ==
    ASSUME NEW i \in RRAs, NEW f, NEW K, IsFiniteSet(K), K # {}, \A q \in K : f[q] \in Numbers
    PROVE  \E v : IsBest(i, v, f, K)
<1> DEFINE A == {s \in SUBSET K : \E v : Top(i, v, f, s)}
<1>1. {} \in A
  BY DEF Top
<1>2. ASSUME NEW s \in A, NEW x \in K \ s PROVE s \cup {x} \in A
  <2>1. PICK v : Top(i, v, f, s)
    OBVIOUS
  <2> DEFINE B == {x}
             r == f[x]
  <2>2. r \in Numbers /\ B # {} /\ (\A q \in B : f[q] = r)
        /\ \A q \in s : f[q] \in Numbers /\ f[q] = f[q]
    OBVIOUS
  <2> HIDE DEF B, r
  <2>3. IsBest(i, IF Beats(i, r, v) THEN r ELSE v, f, s \cup B)
    BY <2>1, <2>2, TopAdd
  <2>4. Top(i, IF Beats(i, r, v) THEN r ELSE v, f, s \cup B)
    BY <2>3 DEF Top
  <2> QED
    BY <2>4 DEF B
<1>3. A \in SUBSET SUBSET K
  OBVIOUS
<1> HIDE DEF A
<1>4. A = SUBSET K
  BY <1>1, <1>2, <1>3, SubsetInduction
<1>5. PICK v : Top(i, v, f, K)
  BY <1>4 DEF A
<1> QED
  BY <1>5 DEF Top

(* Rows that were full before keep what they are.                          *)
LEMMA OldRowIs ==
    ASSUME NEW i \in RRAs, NEW n \in Nat, NEW f \in [1..n -> Values],
           NEW r \in Values, NEW a \in Nat, NEW t \in Nat, a <= t, t <= n,
           NEW m \in Int, Cnt(i) * m <= a
    PROVE  RowOf(i, Painted(f, a, t, r), m) = RowOf(i, f, m)
<1> DEFINE c == Cnt(i)
           g == Painted(f, a, t, r)
           S == RowPdps(i, m)
           K == KnownIn(f, S)
<1>1. c \in Nat \ {0} /\ c * m \in Int /\ c * (m - 1) \in Int
  BY Declared DEF Cnt
<1>2. S \subseteq Int /\ (\A s \in S : s <= a /\ s <= c * m /\ c * (m - 1) + 1 <= s)
  BY <1>1 DEF RowPdps
<1>3. DOMAIN g = 1..n /\ DOMAIN f = 1..n /\ \A s \in 1..n : s <= a => g[s] = f[s]
  BY DEF Painted
<1> HIDE DEF g, S
<1>4. KnownIn(g, S) = K /\ \A s \in K : g[s] = f[s]
  <2>1. \A s \in S : s \in 1..n => g[s] = f[s]
    BY <1>2, <1>3
  <2> QED
    BY <1>3, <2>1 DEF KnownIn
<1>5. CASE K = {}
  BY <1>4, <1>5, RowUnknown DEF g, S
<1>6. CASE K # {}
  <2>1. PICK one \in S : one \in 1..n
    BY <1>3, <1>6 DEF KnownIn
  <2>2. c * m \in 1..n
    BY <1>1, <1>2, <2>1 DEF c
  <2>3. g[c * m] = f[c * m]
    BY <1>3, <2>2 DEF c
  <2>4. IsFiniteSet(K) /\ \A s \in K : f[s] \in Numbers
    <3>1. IsFiniteSet(S)
      BY <1>1, FS_Interval DEF S, RowPdps, c
    <3>2. K \in SUBSET S
      BY DEF KnownIn
    <3> QED
      BY <3>1, <3>2, FS_Subset, NanIsNoNumber DEF KnownIn
  <2> HIDE DEF K
  <2>5. Mean(g, K) = Mean(f, K)
    <3>1. Total(g, K) = Total(f, K)
      BY <1>4, <2>4, TotalSame
    <3> QED
      BY <3>1 DEF Mean
  <2>6. g[CHOOSE q \in K : \A s \in K : ~Beats(i, g[s], g[q])]
          = f[CHOOSE q \in K : \A s \in K : ~Beats(i, f[s], f[q])]
    <3>1. PICK v : IsBest(i, v, f, K)
      BY <1>6, <2>4, BestExists
    <3>2. IsBest(i, v, g, K) /\ \A s \in K : g[s] \in Numbers
      BY <1>4, <2>4, <3>1 DEF IsBest
    <3>3. f[CHOOSE q \in K : \A s \in K : ~Beats(i, f[s], f[q])] = v
      BY <2>4, <3>1, BestIs
    <3>4. g[CHOOSE q \in K : \A s \in K : ~Beats(i, g[s], g[q])] = v
      BY <3>2, BestIs
    <3> QED
      BY <3>3, <3>4
  <2> DEFINE rest(h) == IF TooFew(i, Cnt(i) - Cardinality(K)) THEN DNAN
                        ELSE IF Archives[i].cf = "AVERAGE" THEN Mean(h, K)
                        ELSE IF Archives[i].cf = "LAST" THEN h[Cnt(i) * m]
                        ELSE h[CHOOSE q \in K : \A s \in K : ~Beats(i, h[s], h[q])]
  <2>7. RowOf(i, g, m) = rest(g)
    BY <1>4 DEF RowOf, S
  <2>8. RowOf(i, f, m) = rest(f)
    BY DEF RowOf, S, K
  <2>9. rest(g) = rest(f)
    BY <2>3, <2>5, <2>6
  <2> QED
    BY <2>7, <2>8, <2>9 DEF g
<1> QED
  BY <1>5, <1>6

(* The time a row stands for is positive.                                  *)
LEMMA StepIs ==
    ASSUME NEW i \in RRAs
    PROVE  RowStep(i) = PdpStep * Cnt(i) /\ RowStep(i) \in Nat \ {0} /\ Cnt(i) \in Nat \ {0}
           /\ PdpStep \in Nat \ {0}
<1>1. Cnt(i) \in Nat \ {0} /\ PdpStep \in Nat \ {0}
  BY Declared, FileAssumption DEF Cnt
<1>2. RowStep(i) = PdpStep * Cnt(i)
  BY DEF RowStep, Cnt
<1> QED
  BY <1>1, <1>2

(* The PDPs whose time lies in the slot of a row are the PDPs of the row.  *)
LEMMA SlotIs ==
    ASSUME NEW i \in RRAs, NEW m \in Int, NEW p \in Int
    PROVE  (p * PdpStep \in (RowStep(i) * m - RowStep(i) + 1)..(RowStep(i) * m))
             <=> p \in RowPdps(i, m)
<1> DEFINE c == Cnt(i)
           k == PdpStep
           x == c * (m - 1)
           y == c * m
<1>1. c \in Nat \ {0} /\ k \in Nat \ {0} /\ RowStep(i) = k * c
  BY StepIs
<1> HIDE DEF c, k
<1>2. x \in Int /\ y \in Int
  BY <1>1
<1>3. (k * c) * m = y * k /\ (k * c) * m - (k * c) = x * k
  BY <1>1
<1> HIDE DEF x, y
<1>4. x < p <=> x * k < p * k
  BY <1>1, <1>2, Scaled
<1>5. y < p <=> y * k < p * k
  BY <1>1, <1>2, Scaled
<1>6. x * k \in Int /\ y * k \in Int /\ p * k \in Int
  BY <1>1, <1>2
<1>7. p * k \in (x * k + 1)..(y * k) <=> p \in (x + 1)..y
  BY <1>2, <1>4, <1>5, <1>6
<1>8. RowPdps(i, m) = (x + 1)..y
  BY DEF RowPdps, x, y, c
<1>9. RowStep(i) * m - RowStep(i) = x * k /\ RowStep(i) * m = y * k
  BY <1>1, <1>3
<1> QED
  BY <1>7, <1>8, <1>9 DEF k

(* What a row should be, in terms of its number.                           *)
LEMMA ConsolidatedIs ==
    ASSUME pdps \in [DS -> [1..(MaxTime \div PdpStep) -> Values]],
           NEW i \in RRAs, NEW d \in DS, NEW m \in Int
    PROVE  Consolidated(i, d, RowStep(i) * m) = RowOf(i, pdps[d], m)
<1> DEFINE f == pdps[d]
           n == MaxTime \div PdpStep
           t == RowStep(i) * m
           c == Cnt(i)
           slot == {p \in DOMAIN f : p * PdpStep \in (t - RowStep(i) + 1)..t}
           known == {p \in slot : ~IsNan(f[p])}
           K == KnownIn(f, RowPdps(i, m))
           unkn == c - Cardinality(K)
<1>1. n \in Int /\ f \in [1..n -> Values]
  BY FileAssumption, DivMod
<1> HIDE DEF f, n
<1>2. \A p \in 1..n : (p * PdpStep \in (t - RowStep(i) + 1)..t) <=> p \in RowPdps(i, m)
  <2> SUFFICES ASSUME NEW p \in 1..n
               PROVE  (p * PdpStep \in (t - RowStep(i) + 1)..t) <=> p \in RowPdps(i, m)
    OBVIOUS
  <2>1. p \in Int
    BY <1>1
  <2> QED
    BY <2>1, SlotIs
<1>3. known = K
  <2> HIDE DEF t
  <2> QED
    BY <1>1, <1>2 DEF KnownIn
<1>4. t \div PdpStep = c * m
  <2>1. c \in Nat \ {0} /\ PdpStep \in Nat \ {0} /\ RowStep(i) = PdpStep * c
    BY StepIs
  <2> DEFINE y == c * m
  <2> HIDE DEF c
  <2>2. y \in Int /\ t = PdpStep * y
    BY <2>1
  <2> HIDE DEF y
  <2>3. (PdpStep * y) \div PdpStep = y
    BY <2>1, <2>2, ExactDiv
  <2> QED
    BY <2>2, <2>3 DEF y
<1> DEFINE con == Consolidated(i, d, t)
           row == RowOf(i, f, m)
           max == CHOOSE q \in known : \A r \in known : ~Less(f[q], f[r])
           min == CHOOSE q \in known : \A r \in known : ~Less(f[r], f[q])
           top == CHOOSE q \in K : \A r \in K : ~Beats(i, f[r], f[q])
<1>5. Archives[i].cf \in {"AVERAGE", "MINIMUM", "MAXIMUM", "LAST"}
  BY Declared
<1>6. row = IF TooFew(i, unkn) THEN DNAN
            ELSE IF Archives[i].cf = "AVERAGE" THEN Mean(f, K)
            ELSE IF Archives[i].cf = "LAST" THEN f[c * m] ELSE f[top]
  BY DEF RowOf
<1>7. CASE TooFew(i, unkn)
  <2>1. con = DNAN
    BY <1>3, <1>7 DEF Consolidated, TooFew, f, Cnt
  <2> QED
    BY <1>6, <1>7, <2>1 DEF f
<1>8. CASE ~TooFew(i, unkn)
  <2> HIDE DEF t
  <2>1. CASE Archives[i].cf = "AVERAGE"
    <3>1. con = Mean(f, known)
      BY <1>3, <1>8, <2>1 DEF Consolidated, TooFew, f, Cnt
    <3> QED
      BY <1>3, <1>6, <1>8, <2>1, <3>1 DEF f, t
  <2>2. CASE Archives[i].cf = "LAST"
    <3>1. con = f[t \div PdpStep]
      BY <1>3, <1>8, <2>2 DEF Consolidated, TooFew, f, Cnt
    <3> QED
      BY <1>4, <1>6, <1>8, <2>2, <3>1 DEF f, t
  <2>3. CASE Archives[i].cf = "MAXIMUM"
    <3>1. con = f[max]
      BY <1>3, <1>8, <2>3 DEF Consolidated, TooFew, f, Cnt
    <3>2. max = top
      <4> HIDE DEF K, known
      <4>1. \A q : (q \in known /\ \A r \in known : ~Less(f[q], f[r]))
               <=> (q \in K /\ \A r \in K : ~Beats(i, f[r], f[q]))
        BY <1>3, <2>3 DEF Beats
      <4> QED
        BY <4>1, Zenon
    <3> QED
      BY <1>6, <1>8, <2>3, <3>1, <3>2 DEF f, t
  <2>4. CASE Archives[i].cf = "MINIMUM"
    <3>1. con = f[min]
      BY <1>3, <1>8, <2>4 DEF Consolidated, TooFew, f, Cnt
    <3>2. min = top
      <4> HIDE DEF K, known
      <4>1. \A q : (q \in known /\ \A r \in known : ~Less(f[r], f[q]))
               <=> (q \in K /\ \A r \in K : ~Beats(i, f[r], f[q]))
        BY <1>3, <2>4 DEF Beats
      <4> QED
        BY <4>1, Zenon
    <3> QED
      BY <1>6, <1>8, <2>4, <3>1, <3>2 DEF f, t
  <2> QED
    BY <1>5, <2>1, <2>2, <2>3, <2>4
<1> QED
  BY <1>7, <1>8

IsCdp(c) == c = [val |-> c.val, unkn |-> c.unkn, primary |-> c.primary,
                 secondary |-> c.secondary]

\* The rows an update has yet to write, from the one numbered first on.
Provides(i, cdp, f, first, last, started) ==
    \A m \in first..last :
        (IF started \/ m > first THEN cdp.secondary ELSE cdp.primary) = RowOf(i, f, m)

\* Row number p + 1 lies within the PDPs from a + 1 to t.
NewRow(i, n, f, r, a, t, p) ==
    /\ i \in RRAs /\ n \in Nat /\ f \in [1..n -> Values] /\ r \in Values
    /\ a \in Nat /\ t \in Nat /\ t <= n /\ p \in Nat
    /\ a <= Cnt(i) * p /\ Cnt(i) * p + Cnt(i) <= t

(* A row within an update has the value of the new PDPs.                   *)
LEMMA NewRowIs ==
    ASSUME NEW i, NEW n, NEW f, NEW r, NEW a, NEW t, NEW p, NewRow(i, n, f, r, a, t, p)
    PROVE  RowOf(i, Painted(f, a, t, r), p + 1) = r
BY LaterIs DEF NewRow

(* What an update that completes the PDPs from a + 1 to z makes of a CDP   *)
(* scratch area.                                                           *)
LEMMA SingleIs ==
    ASSUME NEW i \in RRAs, Cnt(i) = 1, NEW n \in Nat, NEW f \in [1..n -> Values],
           NEW r \in Values, NEW a \in Nat, NEW z \in Nat, a < z, z <= n,
           NEW cdp, IsCdp(cdp), NEW new, new = CdpSingle(cdp, r, z - a)
    PROVE  IsCdp(new) /\ Provides(i, new, Painted(f, a, z, r), Full(i, a) + 1, Full(i, z), FALSE)
<1>1. IsCdp(new) /\ new.primary = r /\ (z - a > 1 => new.secondary = r)
  BY DEF IsCdp, CdpSingle
<1>2. Full(i, a) = a /\ Full(i, z) = z
  <2>1. \A x \in Nat : x % 1 = 0 /\ x \div 1 = x
    OBVIOUS
  <2> QED
    BY <2>1 DEF Full
<1>3. ASSUME NEW m \in (a + 1)..z
      PROVE  RowOf(i, Painted(f, a, z, r), m) = r
  <2> DEFINE p == m - 1
  <2>1. p \in Nat /\ a <= 1 * p /\ 1 * p + 1 <= z /\ p + 1 = m
    OBVIOUS
  <2> HIDE DEF p
  <2>2. NewRow(i, n, f, r, a, z, p)
    BY <2>1 DEF NewRow
  <2>3. RowOf(i, Painted(f, a, z, r), p + 1) = r
    BY <2>2, NewRowIs
  <2> QED
    BY <2>1, <2>3
<1>4. \A m \in (a + 1)..z : m > a + 1 => z - a > 1
  OBVIOUS
<1> QED
  BY <1>1, <1>2, <1>3, <1>4 DEF Provides

(* update_cdp, when at least one row will be written: the scratch area     *)
(* holds those rows and prepares the next one.                             *)
LEMMA WithRowIs ==
    ASSUME NEW i \in RRAs, NEW n \in Nat, NEW f \in [1..n -> Values],
           NEW r \in Values, NEW a \in Nat, NEW z \in Nat, a < z, z <= n,
           Full(i, a) < Full(i, z), NEW cdp, Prepares(i, cdp, f, a),
           StartPdpOffset(i) = RowBase(i, a) + Cnt(i) - a,
           NEW elapsed, CarriedPdps(i, elapsed) = z - RowBase(i, z),
           NEW new, new = CdpWithRow(i, cdp, r, elapsed)
    PROVE  /\ IsCdp(new) /\ Prepares(i, new, Painted(f, a, z, r), z)
           /\ Provides(i, new, Painted(f, a, z, r), Full(i, a) + 1, Full(i, z), FALSE)
<1> DEFINE unkn == IF IsNan(r) THEN cdp.unkn + StartPdpOffset(i) ELSE cdp.unkn
           g == Painted(f, a, z, r)
           p == Full(i, a)
           q == Full(i, z)
<1>1. /\ IsCdp(new) /\ new.val = InitializeCarryOver(i, r, elapsed)
      /\ new.unkn = IF IsNan(r) THEN CarriedPdps(i, elapsed) ELSE 0
      /\ new.primary = IF TooFew(i, unkn) THEN DNAN ELSE InitializeCdpVal(i, cdp, unkn, r)
      /\ new.secondary = r
  BY DEF IsCdp, CdpWithRow, TooFew, Cnt
<1>2. a <= z
  OBVIOUS
<1>3. Prepares(i, new, Painted(f, a, z, r), z)
  BY <1>1, <1>2, CarryIs
<1>4. unkn = IF IsNan(r) THEN cdp.unkn + StartPdpOffset(i) ELSE cdp.unkn
  OBVIOUS
<1> HIDE DEF unkn
<1>5. (IF TooFew(i, unkn) THEN DNAN ELSE InitializeCdpVal(i, cdp, unkn, r))
        = RowOf(i, Painted(f, a, z, r), Full(i, a) + 1)
  BY <1>2, <1>4, PrimaryIs
<1>6. p \in Nat /\ q \in Nat /\ Cnt(i) \in Nat \ {0} /\ a < Cnt(i) * p + Cnt(i)
      /\ Cnt(i) * q <= z /\ Cnt(i) * p \in Nat
  BY FullIs
<1> HIDE DEF p, q
<1>7. ASSUME NEW m \in (p + 2)..q
      PROVE  RowOf(i, Painted(f, a, z, r), m) = r
  <2> DEFINE x == m - 1
             c == Cnt(i)
  <2>1. x \in Nat /\ x + 1 = m /\ x - (p + 1) \in Nat /\ q - (x + 1) \in Nat
    BY <1>6
  <2> HIDE DEF x, c
  <2>2. c * (x - (p + 1)) \in Nat /\ c * (q - (x + 1)) \in Nat
    <3>1. ASSUME NEW u \in Nat, NEW v \in Nat PROVE u * v \in Nat
      OBVIOUS
    <3>2. c \in Nat
      BY <1>6 DEF c
    <3> QED
      BY <2>1, <3>1, <3>2, Zenon
  <2>3. c * (x - (p + 1)) = c * x - (c * p + c) /\ c * (q - (x + 1)) = c * q - (c * x + c)
    BY <1>6, <2>1 DEF c
  <2>4. c * x \in Int /\ c * q \in Int /\ c \in Int /\ c * p \in Int
    BY <1>6, <2>1 DEF c
  <2>5. a <= c * x /\ c * x + c <= z
    <3> DEFINE u == c * x
               v == c * p
               w == c * q
    <3>1. u \in Int /\ v \in Int /\ w \in Int /\ c \in Int /\ a < v + c /\ w <= z
      BY <1>6, <2>4 DEF c
    <3>2. u - (v + c) \in Nat /\ w - (u + c) \in Nat
      BY <2>2, <2>3
    <3> HIDE DEF u, v, w
    <3>3. a <= u /\ u + c <= z
      BY <3>1, <3>2
    <3> QED
      BY <3>3 DEF u
  <2>6. RowOf(i, Painted(f, a, z, r), x + 1) = r
    BY <2>1, <2>5, LaterIs DEF c
  <2> QED
    BY <2>1, <2>6
<1>8. \A m \in (p + 1)..q : m > p + 1 => m \in (p + 2)..q
  BY <1>6
<1>9. \A m \in (p + 1)..q : ~(m > p + 1) => m = p + 1
  BY <1>6
<1> QED
  BY <1>1, <1>3, <1>5, <1>7, <1>8, <1>9 DEF Provides, p, q

(* update_cdp, when no row is complete: the scratch area goes on preparing *)
(* it.                                                                     *)
LEMMA WithoutRowIs ==
    ASSUME NEW i \in RRAs, NEW n \in Nat, NEW f \in [1..n -> Values],
           NEW r \in Values, NEW a \in Nat, NEW z \in Nat, a < z, z <= n,
           Full(i, a) = Full(i, z), NEW cdp, IsCdp(cdp), Prepares(i, cdp, f, a),
           NEW new, new = CdpWithoutRow(i, cdp, r, z - a)
    PROVE  IsCdp(new) /\ Prepares(i, new, Painted(f, a, z, r), z)
<1>1. /\ IsCdp(new)
      /\ new.unkn = IF IsNan(r) THEN cdp.unkn + (z - a) ELSE cdp.unkn
      /\ new.val = IF IsNan(r) THEN cdp.val ELSE CalculateCdpVal(i, cdp.val, r, z - a)
  <2> DEFINE k == z - a
             w == CalculateCdpVal(i, cdp.val, r, k)
  <2>1. new = IF IsNan(r) THEN [cdp EXCEPT !.unkn = @ + k] ELSE [cdp EXCEPT !.val = w]
    BY DEF CdpWithoutRow
  <2> HIDE DEF k, w
  <2>2. /\ IsCdp(new)
        /\ new.unkn = IF IsNan(r) THEN cdp.unkn + k ELSE cdp.unkn
        /\ new.val = IF IsNan(r) THEN cdp.val ELSE w
    BY <2>1 DEF IsCdp
  <2> QED
    BY <2>2 DEF k, w
<1> QED
  BY <1>1, WithoutIs

\* What an update at time t makes of the scratch area of one data source.
Updated(t, i, n, f, r, a, z, cdp, new) ==
    /\ last_up \in Nat /\ t \in Nat /\ last_up <= t /\ Elapsed(t) > 0
    /\ i \in RRAs /\ n \in Nat /\ f \in [1..n -> Values] /\ r \in Values
    /\ a = Done(last_up) /\ z = Done(t) /\ z <= n /\ IsCdp(cdp)
    /\ Cnt(i) > 1 => Prepares(i, cdp, f, a)
    /\ new = UpdateCdp(i, cdp, r, Elapsed(t))

(* update_cdp in all cases.                                                *)
LEMMA UpdateCdpIs ==
    ASSUME NEW t, NEW i, NEW n, NEW f, NEW r, NEW a, NEW z, NEW cdp, NEW new,
           Updated(t, i, n, f, r, a, z, cdp, new)
    PROVE  /\ IsCdp(new)
           /\ Cnt(i) > 1 => Prepares(i, new, Painted(f, a, z, r), z)
           /\ Provides(i, new, Painted(f, a, z, r), Full(i, a) + 1, Full(i, z), FALSE)
<1>1. /\ last_up \in Nat /\ t \in Nat /\ last_up <= t /\ Elapsed(t) > 0
      /\ i \in RRAs /\ n \in Nat /\ f \in [1..n -> Values] /\ r \in Values
      /\ a = Done(last_up) /\ z = Done(t) /\ z <= n /\ IsCdp(cdp)
      /\ Cnt(i) > 1 => Prepares(i, cdp, f, a)
      /\ new = UpdateCdp(i, cdp, r, Elapsed(t))
  BY DEF Updated
<1> USE <1>1
<1> DEFINE e == Elapsed(t)
<1>2. a \in Nat /\ z \in Nat
  BY PdpStartIs
<1>3. e = z - a
  BY <1>2, StepsIs DEF Steps, Elapsed
<1>4. /\ RraStepCnt(i, e) = Full(i, z) - Full(i, a)
      /\ RraStepCnt(i, e) > 0 => CarriedPdps(i, e) = z - RowBase(i, z)
  BY StepCntFull
<1>5. StartPdpOffset(i) = RowBase(i, a) + Cnt(i) - a
  BY OffsetIs
<1>6. e > 0 /\ new = UpdateCdp(i, cdp, r, e)
  OBVIOUS
<1> HIDE DEF e
<1>7. a < z
  BY <1>2, <1>3, <1>6
<1>8. Cnt(i) \in Nat \ {0} /\ Full(i, a) \in Nat /\ Full(i, z) \in Nat /\ Full(i, a) <= Full(i, z)
  BY <1>2, <1>7, FullIs, FullMore
<1>9. CASE Cnt(i) = 1
  <2>1. new = CdpSingle(cdp, r, z - a)
    BY <1>3, <1>6, <1>9 DEF UpdateCdp, Cnt
  <2>2. IsCdp(new) /\ Provides(i, new, Painted(f, a, z, r), Full(i, a) + 1, Full(i, z), FALSE)
    BY <1>2, <1>7, <1>9, <2>1, SingleIs
  <2>3. ~(Cnt(i) > 1)
    BY <1>9
  <2> QED
    BY <2>2, <2>3, Zenon
<1>10. CASE Cnt(i) # 1 /\ RraStepCnt(i, e) > 0
  <2>1. new = CdpWithRow(i, cdp, r, e)
    BY <1>6, <1>10 DEF UpdateCdp, Cnt
  <2>2. Full(i, a) < Full(i, z) /\ Prepares(i, cdp, f, a) /\ CarriedPdps(i, e) = z - RowBase(i, z)
    BY <1>4, <1>8, <1>10
  <2> QED
    BY <1>2, <1>5, <1>7, <2>1, <2>2, WithRowIs
<1>11. CASE Cnt(i) # 1 /\ ~(RraStepCnt(i, e) > 0)
  <2>1. new = CdpWithoutRow(i, cdp, r, z - a)
    BY <1>3, <1>6, <1>11 DEF UpdateCdp, Cnt
  <2>2. Full(i, a) = Full(i, z) /\ Prepares(i, cdp, f, a)
    BY <1>4, <1>8, <1>11
  <2>3. IsCdp(new) /\ Prepares(i, new, Painted(f, a, z, r), z)
    BY <1>2, <1>7, <2>1, <2>2, WithoutRowIs
  <2>4. Provides(i, new, Painted(f, a, z, r), Full(i, a) + 1, Full(i, z), FALSE)
    BY <1>8, <2>2 DEF Provides
  <2> QED
    BY <2>3, <2>4
<1> QED
  BY <1>9, <1>10, <1>11

-----------------------------------------------------------------------------
(* The rows of an archive and their list                                   *)

\* The first n rows of a list are rows x, x - 1, ... of archive i, as far as it reaches back.
Holds(i, list, n, reach, F, x) ==
    \A k \in 1..n : list[k] = [d \in DS |-> IF k <= reach THEN RowOf(i, F[d], x - (k - 1))
                                            ELSE DNAN]

(* A row that is written next.                                             *)
LEMMA HoldsPushed ==
    ASSUME NEW i, NEW list, NEW n \in Nat \ {0}, Len(list) = n, NEW reach \in Nat, reach <= n,
           NEW F, NEW x \in Int, Holds(i, list, n, reach, F, x),
           NEW row, row = [d \in DS |-> RowOf(i, F[d], x + 1)]
    PROVE  Holds(i, RR!Pushed(list, row), n, IF reach < n THEN reach + 1 ELSE reach, F, x + 1)
<1> DEFINE new == RR!Pushed(list, row)
           far == IF reach < n THEN reach + 1 ELSE reach
<1>1. \A k \in 1..n : new[k] = IF k = 1 THEN row ELSE list[k - 1]
  BY DEF RR!Pushed
<1>2. far \in Nat /\ far >= 1 /\ \A k \in 2..n : k <= far <=> k - 1 <= reach
  OBVIOUS
<1> HIDE DEF new, far
<1>3. ASSUME NEW k \in 1..n
      PROVE  new[k] = [d \in DS |-> IF k <= far THEN RowOf(i, F[d], (x + 1) - (k - 1)) ELSE DNAN]
  <2>1. CASE k = 1
    <3>1. (x + 1) - (k - 1) = x + 1 /\ k <= far /\ new[k] = row
      BY <1>1, <1>2, <2>1
    <3> QED
      BY <3>1
  <2>2. CASE k # 1
    <3> DEFINE j == k - 1
    <3>1. k \in 2..n
      BY <2>2
    <3>2. j \in 1..n /\ (x + 1) - (k - 1) = x - (j - 1)
      BY <3>1
    <3>3. k <= far <=> j <= reach
      BY <1>2, <3>1
    <3>4. j \in 1..n /\ (x + 1) - (k - 1) = x - (j - 1) /\ (k <= far <=> j <= reach)
      BY <3>2, <3>3
    <3>5. new[k] = list[j]
      BY <1>1, <2>2
    <3> HIDE DEF j
    <3>6. list[j] = [d \in DS |-> IF j <= reach THEN RowOf(i, F[d], x - (j - 1)) ELSE DNAN]
      BY <3>4 DEF Holds
    <3> QED
      BY <3>4, <3>5, <3>6
  <2> QED
    BY <2>1, <2>2
<1> QED
  BY <1>3 DEF Holds, new, far

(* Rows that are added are unknown, as they should be.                     *)
LEMMA HoldsGrown ==
    ASSUME NEW i, NEW list, NEW n \in Nat, Len(list) = n, NEW reach \in Nat, reach <= n,
           NEW F, NEW x \in Int, Holds(i, list, n, reach, F, x), NEW m \in Nat
    PROVE  Holds(i, RR!Grown(list, m), n + m, reach, F, x)
<1> DEFINE new == RR!Grown(list, m)
<1>1. \A k \in 1..(n + m) : new[k] = IF k <= n THEN list[k] ELSE UnknownRow
  BY DEF RR!Grown
<1> HIDE DEF new
<1>2. ASSUME NEW k \in 1..(n + m)
      PROVE  new[k] = [d \in DS |-> IF k <= reach THEN RowOf(i, F[d], x - (k - 1)) ELSE DNAN]
  <2>1. CASE k <= n
    <3>1. k \in 1..n /\ new[k] = list[k]
      BY <1>1, <2>1
    <3> QED
      BY <3>1 DEF Holds
  <2>2. CASE ~(k <= n)
    <3>1. new[k] = UnknownRow /\ ~(k <= reach)
      BY <1>1, <2>2
    <3> QED
      BY <3>1 DEF UnknownRow
  <2> QED
    BY <2>1, <2>2
<1> QED
  BY <1>2 DEF Holds, new

(* Rows that are left keep their place.                                    *)
LEMMA HoldsShrunk ==
    ASSUME NEW i, NEW list, NEW n \in Nat, Len(list) = n, NEW reach \in Nat,
           NEW F, NEW x \in Int, Holds(i, list, n, reach, F, x), NEW m \in 1..(n - 1)
    PROVE  Holds(i, RR!Shrunk(list, m), n - m, IF reach < n - m THEN reach ELSE n - m, F, x)
<1> DEFINE new == RR!Shrunk(list, m)
           far == IF reach < n - m THEN reach ELSE n - m
<1>1. \A k \in 1..(n - m) : k \in 1..n /\ new[k] = list[k] /\ (k <= reach <=> k <= far)
  BY DEF RR!Shrunk
<1> HIDE DEF new, far
<1>2. ASSUME NEW k \in 1..(n - m)
      PROVE  new[k] = [d \in DS |-> IF k <= far THEN RowOf(i, F[d], x - (k - 1)) ELSE DNAN]
  <2>1. k \in 1..n /\ new[k] = list[k] /\ (k <= reach <=> k <= far)
    BY <1>1
  <2>2. list[k] = [d \in DS |-> IF k <= reach THEN RowOf(i, F[d], x - (k - 1)) ELSE DNAN]
    BY <2>1 DEF Holds
  <2> QED
    BY <2>1, <2>2
<1> QED
  BY <1>2 DEF Holds, new, far

(* New PDPs change nothing about the rows that were full before.           *)
LEMMA HoldsPainted ==
    ASSUME NEW i \in RRAs, NEW n \in Nat, NEW F \in [DS -> [1..n -> Values]],
           NEW R \in [DS -> Values], NEW a \in Nat, NEW t \in Nat, a <= t, t <= n,
           NEW G, \A d \in DS : G[d] = Painted(F[d], a, t, R[d]),
           NEW list, NEW len \in Nat, NEW reach \in Nat, Holds(i, list, len, reach, F, Full(i, a))
    PROVE  Holds(i, list, len, reach, G, Full(i, a))
<1>1. /\ Cnt(i) \in Nat \ {0} /\ Full(i, a) \in Nat /\ Cnt(i) * Full(i, a) <= a
      /\ Cnt(i) * Full(i, a) \in Nat
  BY FullIs
<1> DEFINE x == Full(i, a)
           c == Cnt(i)
<1>2. x \in Nat /\ c \in Nat \ {0} /\ c * x <= a /\ c * x \in Nat
  BY <1>1
<1>3. ASSUME NEW k \in 1..len, NEW d \in DS
      PROVE  RowOf(i, G[d], Full(i, a) - (k - 1)) = RowOf(i, F[d], Full(i, a) - (k - 1))
  <2> DEFINE m == Full(i, a) - (k - 1)
  <2>1. m \in Int /\ k - 1 \in Nat
    BY <1>1
  <2>2. Cnt(i) * m <= a
    <3> DEFINE j == k - 1
    <3> HIDE DEF x, c
    <3>1. j \in Nat
      BY <2>1
    <3> HIDE DEF j
    <3>2. c * (x - j) = c * x - c * j /\ c * j \in Nat
      BY <1>2, <3>1
    <3>3. c * (x - j) <= a
      <4> DEFINE u == c * x
                 v == c * j
      <4>1. u \in Nat /\ v \in Nat /\ u <= a
        BY <1>2, <3>2
      <4> HIDE DEF u, v
      <4>2. u - v <= a
        BY <4>1
      <4> QED
        BY <3>2, <4>2 DEF u, v
    <3> QED
      BY <3>3 DEF x, c, j
  <2> HIDE DEF m
  <2>3. F[d] \in [1..n -> Values] /\ R[d] \in Values /\ G[d] = Painted(F[d], a, t, R[d])
    OBVIOUS
  <2>4. RowOf(i, Painted(F[d], a, t, R[d]), m) = RowOf(i, F[d], m)
    BY <2>1, <2>2, <2>3, OldRowIs
  <2> QED
    BY <2>3, <2>4 DEF m
<1> QED
  BY <1>3 DEF Holds

\* An archive of n rows during an update: z PDPs are complete and rest rows have yet to be
\* written.  The scratch areas prepare the row that is not complete and hold the rows to be
\* written, the list holds the others.
ArchiveSound(i, cdp, list, n, reach, F, rest, z, B) ==
    /\ n \in Nat \ {0} /\ Len(list) = n /\ reach \in Nat /\ reach <= n /\ rest \in Nat
    /\ z \in Nat
    /\ \A d \in DS : IsCdp(cdp[d]) /\ (Cnt(i) > 1 => Prepares(i, cdp[d], F[d], z))
    /\ Holds(i, list, n, reach, F, Full(i, z) - rest)
    /\ \A d \in DS : Provides(i, cdp[d], F[d], (Full(i, z) - rest) + 1, Full(i, z), i \in B)

(* write_to_rras writes the row that is due.                               *)
LEMMA WriteKeeps ==
    ASSUME NEW i \in RRAs, NEW cdp, NEW list, NEW n, NEW reach, NEW F, NEW rest, NEW z, NEW B,
           ArchiveSound(i, cdp, list, n, reach, F, rest, z, B), rest > 0, NEW row,
           row = [d \in DS |-> IF i \in B THEN cdp[d].secondary ELSE cdp[d].primary]
    PROVE  ArchiveSound(i, cdp, RR!Pushed(list, row), n, IF reach < n THEN reach + 1 ELSE reach,
                        F, rest - 1, z, B \cup {i})
<1> DEFINE y == Full(i, z)
           x == y - rest
           far == IF reach < n THEN reach + 1 ELSE reach
<1>1. /\ n \in Nat \ {0} /\ Len(list) = n /\ reach \in Nat /\ reach <= n /\ rest \in Nat
      /\ z \in Nat
      /\ \A d \in DS : IsCdp(cdp[d]) /\ (Cnt(i) > 1 => Prepares(i, cdp[d], F[d], z))
      /\ Holds(i, list, n, reach, F, x)
      /\ \A d \in DS : Provides(i, cdp[d], F[d], x + 1, y, i \in B)
  BY DEF ArchiveSound
<1>2. y \in Nat
  BY <1>1, FullIs
<1> HIDE DEF y
<1>3. x \in Int /\ x + 1 \in (x + 1)..y /\ y - (rest - 1) = x + 1 /\ rest - 1 \in Nat
  BY <1>1, <1>2
<1>4. far \in Nat /\ far <= n
  BY <1>1
<1> HIDE DEF x
<1>5. row = [d \in DS |-> RowOf(i, F[d], x + 1)]
  <2>1. ASSUME NEW d \in DS
        PROVE  (IF i \in B THEN cdp[d].secondary ELSE cdp[d].primary) = RowOf(i, F[d], x + 1)
    <3>1. Provides(i, cdp[d], F[d], x + 1, y, i \in B)
      BY <1>1
    <3>2. ~(x + 1 > x + 1)
      BY <1>3
    <3> QED
      BY <1>3, <3>1, <3>2 DEF Provides
  <2> QED
    BY <2>1
<1>6. Holds(i, RR!Pushed(list, row), n, far, F, x + 1)
  BY <1>1, <1>3, <1>5, HoldsPushed
<1>7. ASSUME NEW d \in DS
      PROVE  Provides(i, cdp[d], F[d], (x + 1) + 1, y, i \in (B \cup {i}))
  <2>1. Provides(i, cdp[d], F[d], x + 1, y, i \in B)
    BY <1>1
  <2>2. \A m \in ((x + 1) + 1)..y : m \in (x + 1)..y /\ m > x + 1
    BY <1>2, <1>3
  <2> QED
    BY <2>1, <2>2 DEF Provides
<1>8. Len(RR!Pushed(list, row)) = n
  BY <1>1 DEF RR!Pushed
<1> HIDE DEF far
<1>9. ArchiveSound(i, cdp, RR!Pushed(list, row), n, far, F, rest - 1, z, B \cup {i})
  BY <1>1, <1>3, <1>4, <1>6, <1>7, <1>8 DEF ArchiveSound, y
<1> QED
  BY <1>9 DEF far

(* The other archives wait for their turn.                                 *)
LEMMA OthersKeep ==
    ASSUME NEW i, NEW cdp, NEW list, NEW n, NEW reach, NEW F, NEW rest, NEW z, NEW B,
           ArchiveSound(i, cdp, list, n, reach, F, rest, z, B), NEW j, j # i
    PROVE  ArchiveSound(i, cdp, list, n, reach, F, rest, z, B \cup {j})
<1>1. i \in B \cup {j} <=> i \in B
  OBVIOUS
<1>2. ASSUME NEW d \in DS
      PROVE  Provides(i, cdp[d], F[d], (Full(i, z) - rest) + 1, Full(i, z), i \in (B \cup {j}))
  <2>1. Provides(i, cdp[d], F[d], (Full(i, z) - rest) + 1, Full(i, z), i \in B)
    BY DEF ArchiveSound
  <2> QED
    BY <1>1, <2>1 DEF Provides
<1> QED
  BY <1>2 DEF ArchiveSound

(* rrd_resize with GROW.                                                   *)
LEMMA GrowKeeps ==
    ASSUME NEW i \in RRAs, NEW cdp, NEW list, NEW n, NEW reach, NEW F, NEW rest, NEW z, NEW B,
           ArchiveSound(i, cdp, list, n, reach, F, rest, z, B), NEW m \in Nat \ {0}
    PROVE  ArchiveSound(i, cdp, RR!Grown(list, m), n + m, reach, F, rest, z, B)
<1>1. /\ n \in Nat \ {0} /\ Len(list) = n /\ reach \in Nat /\ reach <= n /\ rest \in Nat
      /\ z \in Nat /\ Holds(i, list, n, reach, F, Full(i, z) - rest)
  BY DEF ArchiveSound
<1>2. Full(i, z) \in Nat
  BY <1>1, FullIs
<1>3. Full(i, z) - rest \in Int
  BY <1>1, <1>2
<1>4. Holds(i, RR!Grown(list, m), n + m, reach, F, Full(i, z) - rest)
  BY <1>1, <1>3, HoldsGrown
<1>5. Len(RR!Grown(list, m)) = n + m
  BY <1>1 DEF RR!Grown
<1>6. n + m \in Nat \ {0} /\ reach <= n + m
  BY <1>1
<1> QED
  BY <1>4, <1>5, <1>6 DEF ArchiveSound

(* rrd_resize with SHRINK.                                                 *)
LEMMA ShrinkKeeps ==
    ASSUME NEW i \in RRAs, NEW cdp, NEW list, NEW n, NEW reach, NEW F, NEW rest, NEW z, NEW B,
           ArchiveSound(i, cdp, list, n, reach, F, rest, z, B), NEW m \in 1..(n - 1)
    PROVE  ArchiveSound(i, cdp, RR!Shrunk(list, m), n - m, IF reach < n - m THEN reach ELSE n - m,
                        F, rest, z, B)
<1> DEFINE far == IF reach < n - m THEN reach ELSE n - m
<1>1. /\ n \in Nat \ {0} /\ Len(list) = n /\ reach \in Nat /\ reach <= n /\ rest \in Nat
      /\ z \in Nat /\ Holds(i, list, n, reach, F, Full(i, z) - rest)
  BY DEF ArchiveSound
<1>2. Full(i, z) \in Nat
  BY <1>1, FullIs
<1>3. Full(i, z) - rest \in Int
  BY <1>1, <1>2
<1>4. Holds(i, RR!Shrunk(list, m), n - m, far, F, Full(i, z) - rest)
  BY <1>1, <1>3, HoldsShrunk
<1>5. n - m \in Nat \ {0} /\ far \in Nat /\ far <= n - m
  BY <1>1
<1>6. Len(RR!Shrunk(list, m)) = n - m
  BY <1>1, <1>5 DEF RR!Shrunk
<1> HIDE DEF far
<1>7. ArchiveSound(i, cdp, RR!Shrunk(list, m), n - m, far, F, rest, z, B)
  BY <1>4, <1>5, <1>6 DEF ArchiveSound
<1> QED
  BY <1>7 DEF far

\* An update that completes the PDPs from a + 1 to z, whose rates are R.
Completes(t, a, z, n, F, R, G) ==
    /\ t \in Nat /\ last_up <= t /\ Elapsed(t) > 0 /\ a = Done(last_up) /\ z = Done(t)
    /\ n \in Nat /\ z <= n /\ F \in [DS -> [1..n -> Values]] /\ R \in [DS -> Values]
    /\ G = [d \in DS |-> Painted(F[d], a, z, R[d])]

(* update_all_cdp_prep prepares the rows of an update.                     *)
LEMMA UpdateKeeps ==
    ASSUME last_up \in Nat, NEW t, NEW a, NEW z, NEW n, NEW F, NEW R, NEW G,
           Completes(t, a, z, n, F, R, G),
           NEW i \in RRAs, NEW cdp, NEW list, NEW len, NEW reach, NEW B,
           ArchiveSound(i, cdp, list, len, reach, F, 0, a, B),
           NEW new, new = [d \in DS |-> UpdateCdp(i, cdp[d], R[d], Elapsed(t))]
    PROVE  ArchiveSound(i, new, list, len, reach, G, RraStepCnt(i, Elapsed(t)), z, {})
<1>1. /\ t \in Nat /\ last_up <= t /\ Elapsed(t) > 0 /\ a = Done(last_up) /\ z = Done(t)
      /\ n \in Nat /\ z <= n /\ F \in [DS -> [1..n -> Values]] /\ R \in [DS -> Values]
      /\ G = [d \in DS |-> Painted(F[d], a, z, R[d])]
  BY DEF Completes
<1>2. a \in Nat /\ z \in Nat
  BY <1>1, PdpStartIs
<1>3. /\ len \in Nat \ {0} /\ Len(list) = len /\ reach \in Nat /\ reach <= len
      /\ \A d \in DS : IsCdp(cdp[d]) /\ (Cnt(i) > 1 => Prepares(i, cdp[d], F[d], a))
      /\ Holds(i, list, len, reach, F, Full(i, a) - 0)
  BY DEF ArchiveSound
<1>4. a <= z
  <2>1. Steps(last_up, t) = z - a /\ Steps(last_up, t) \in Nat
    BY <1>1, StepsIs
  <2> QED
    BY <1>2, <2>1
<1>5. Full(i, a) \in Nat /\ Full(i, z) \in Nat /\ Full(i, a) <= Full(i, z)
  BY <1>2, <1>4, FullIs, FullMore
<1> DEFINE rest == RraStepCnt(i, Elapsed(t))
<1>6. rest = Full(i, z) - Full(i, a)
  BY <1>1, StepCntFull
<1> HIDE DEF rest
<1>7. rest \in Nat /\ Full(i, z) - rest = Full(i, a) /\ Full(i, a) - 0 = Full(i, a)
  BY <1>5, <1>6
<1>8. ASSUME NEW d \in DS
      PROVE  /\ IsCdp(new[d])
             /\ Cnt(i) > 1 => Prepares(i, new[d], G[d], z)
             /\ Provides(i, new[d], G[d], Full(i, a) + 1, Full(i, z), FALSE)
  <2> DEFINE c == cdp[d]
             f == F[d]
             r == R[d]
  <2>1. /\ G[d] = Painted(f, a, z, r) /\ new[d] = UpdateCdp(i, c, r, Elapsed(t))
        /\ f \in [1..n -> Values] /\ r \in Values /\ IsCdp(c)
        /\ Cnt(i) > 1 => Prepares(i, c, f, a)
    BY <1>1, <1>3
  <2> HIDE DEF c, f, r
  <2> DEFINE w == UpdateCdp(i, c, r, Elapsed(t))
  <2>2. w = UpdateCdp(i, c, r, Elapsed(t))
    OBVIOUS
  <2> HIDE DEF w
  <2>3. Updated(t, i, n, f, r, a, z, c, w)
    BY <1>1, <2>1, <2>2 DEF Updated
  <2>4. /\ IsCdp(w)
        /\ Cnt(i) > 1 => Prepares(i, w, Painted(f, a, z, r), z)
        /\ Provides(i, w, Painted(f, a, z, r), Full(i, a) + 1, Full(i, z), FALSE)
    BY <2>3, UpdateCdpIs
  <2>5. new[d] = w
    BY <2>1, <2>2
  <2> QED
    BY <2>1, <2>4, <2>5
<1>9. \A d \in DS : G[d] = Painted(F[d], a, z, R[d])
  BY <1>1
<1>10. Holds(i, list, len, reach, F, Full(i, a))
  BY <1>3, <1>7
<1>11. Holds(i, list, len, reach, G, Full(i, a))
  BY <1>1, <1>2, <1>3, <1>4, <1>9, <1>10, HoldsPainted
<1>12. ASSUME NEW d \in DS
       PROVE  Provides(i, new[d], G[d], (Full(i, z) - rest) + 1, Full(i, z), i \in {})
  BY <1>7, <1>8 DEF Provides
<1>13. ArchiveSound(i, new, list, len, reach, G, rest, z, {})
  BY <1>2, <1>3, <1>7, <1>8, <1>11, <1>12 DEF ArchiveSound
<1> QED
  BY <1>13 DEF rest

(* rrd_create counts the PDPs before the file was created as unknown.      *)
LEMMA MissingIs ==
    ASSUME NEW i \in RRAs, NEW t \in Nat
    PROVE  MissingPdps(i, t) = Done(t) - RowBase(i, Done(t))
<1> DEFINE k == PdpStep
           c == Cnt(i)
           a == Done(t)
           q == Full(i, a)
           r == a - RowBase(i, a)
<1>1. k \in Nat \ {0} /\ c \in Nat \ {0} /\ a \in Nat /\ PdpStart(t) = k * a
  BY StepIs, PdpStartIs
<1>2. q \in Nat /\ RowBase(i, a) = c * q /\ RowBase(i, a) <= a /\ a < RowBase(i, a) + c
      /\ RowBase(i, a) \in Nat
  BY <1>1, FullIs
<1>3. r \in Nat /\ r < c /\ a = c * q + r
  BY <1>1, <1>2
<1>4. MissingPdps(i, t) = (PdpStart(t) % (k * c)) \div k
  BY DEF MissingPdps, PdpStart, Cnt
<1> HIDE DEF k, c, a, q, r
<1>5. k * a = (k * c) * q + k * r
  <2>1. k * a = k * (c * q + r)
    BY <1>3
  <2>2. k * (c * q + r) = k * (c * q) + k * r
    BY <1>1, <1>2, <1>3
  <2>3. k * (c * q) = (k * c) * q
    BY <1>1, <1>2
  <2> QED
    BY <2>1, <2>2, <2>3
<1>6. k * c \in Nat \ {0} /\ k * r \in Nat
  BY <1>1, <1>3
<1>7. k * r < k * c
  <2>1. r * k < c * k
    BY <1>1, <1>3, Scaled
  <2>2. r * k = k * r /\ c * k = k * c
    BY <1>1, <1>3
  <2> QED
    BY <2>1, <2>2
<1>8. (k * a) % (k * c) = k * r
  <2> DEFINE R == k * c
             x == k * r
             y == k * a
  <2>1. R \in Nat \ {0} /\ y = R * q + x /\ q \in Int
    BY <1>2, <1>5, <1>6
  <2>2. x \in 0 .. R - 1
    BY <1>6, <1>7
  <2> HIDE DEF R, x, y
  <2>3. y \in Int /\ y \div R = q /\ y % R = x
    BY <2>1, <2>2, DivUnique
  <2> QED
    BY <2>3 DEF R, x, y
<1>9. (k * r) \div k = r
  BY <1>1, <1>3, ExactDiv
<1>10. MissingPdps(i, t) = r
  BY <1>1, <1>4, <1>8, <1>9
<1> QED
  BY <1>10 DEF r, a

(* A new archive.                                                          *)
LEMMA NewKeeps ==
    ASSUME NEW i \in RRAs, NEW t \in Nat, NEW n \in Nat \ {0}, NEW len \in Nat,
           NEW F, F = [d \in DS |-> [p \in 1..len |-> DNAN]],
           NEW list, Len(list) = n, \A k \in 1..n : list[k] = UnknownRow,
           NEW cdp, cdp = [d \in DS |-> [val |-> DNAN, unkn |-> MissingPdps(i, t),
                                         primary |-> Num(0), secondary |-> Num(0)]]
    PROVE  ArchiveSound(i, cdp, list, n, n, F, 0, Done(t), {})
<1> DEFINE z == Done(t)
<1>1. z \in Nat
  BY PdpStartIs
<1>2. Full(i, z) \in Nat
  BY <1>1, FullIs
<1>3. MissingPdps(i, t) = z - RowBase(i, z)
  BY MissingIs
<1> HIDE DEF z
<1>4. ASSUME NEW d \in DS, NEW S
      PROVE  KnownIn(F[d], S) = {}
  BY DEF KnownIn, IsNan
<1>5. ASSUME NEW d \in DS
      PROVE  IsCdp(cdp[d]) /\ Prepares(i, cdp[d], F[d], z)
  <2>1. /\ IsCdp(cdp[d]) /\ cdp[d].val = DNAN /\ cdp[d].unkn = z - RowBase(i, z)
    BY <1>3 DEF IsCdp
  <2>2. z - RowBase(i, z) = (z - RowBase(i, z)) - 0
    <3>1. RowBase(i, z) \in Nat
      BY <1>1, FullIs
    <3> QED
      BY <1>1, <3>1
  <2>3. cdp[d].unkn = (z - RowBase(i, z)) - Cardinality({})
    BY <2>1, <2>2, FS_EmptySet
  <2>4. StandsFor(i, cdp[d].val, F[d], {})
    <3>1. Total(F[d], {}) = Num(0)
      BY TotalEmpty
    <3>2. \A w : IfNan(DNAN, w) = w
      BY DEF IfNan, IsNan
    <3> QED
      BY <2>1, <3>1, <3>2 DEF StandsFor, Top
  <2> QED
    BY <1>4, <2>1, <2>3, <2>4 DEF Prepares
<1>6. Holds(i, list, n, n, F, Full(i, z) - 0)
  <2>1. ASSUME NEW k \in 1..n, NEW d \in DS
        PROVE  RowOf(i, F[d], (Full(i, z) - 0) - (k - 1)) = DNAN
    BY <1>4, RowUnknown
  <2> QED
    BY <2>1 DEF Holds, UnknownRow
<1>7. ASSUME NEW d \in DS
      PROVE  Provides(i, cdp[d], F[d], (Full(i, z) - 0) + 1, Full(i, z), i \in {})
  <2>1. \A m \in ((Full(i, z) - 0) + 1)..Full(i, z) : FALSE
    BY <1>2
  <2> QED
    BY <2>1 DEF Provides
<1>8. ArchiveSound(i, cdp, list, n, n, F, 0, z, {})
  BY <1>1, <1>5, <1>6, <1>7 DEF ArchiveSound
<1> QED
  BY <1>8 DEF z

-----------------------------------------------------------------------------
(* The inductive invariant of the file                                     *)

RowsInv ==
    /\ depth \in [RRAs -> Nat]
    /\ \A i \in RRAs : ArchiveSound(i, cdp_prep[i], Lists[i], row_cnt[i], depth[i], pdps,
                                    todo[i], Done(now), begun)

FileInv == PrepInv /\ RingInv /\ RowsInv

(* The archives of a new file.                                             *)
LEMMA RowsInit == Init => RowsInv
<1> SUFFICES ASSUME Init PROVE RowsInv
  OBVIOUS
<1>1. RingInv /\ RR!Init
  BY FileInit
<1> DEFINE n == MaxTime \div PdpStep
<1>2. /\ last_up \in Nat /\ n \in Nat /\ now = last_up /\ begun = {} /\ depth = row_cnt
      /\ todo = [i \in RRAs |-> 0]
      /\ pdps = [d \in DS |-> [p \in 1..n |-> DNAN]]
      /\ cdp_prep = [i \in RRAs |-> [d \in DS |->
                       [val |-> DNAN, unkn |-> MissingPdps(i, last_up),
                        primary |-> Num(0), secondary |-> Num(0)]]]
  <2>1. MaxTime \in Nat /\ PdpStep \in Nat \ {0}
    BY FileAssumption
  <2>2. Done(MaxTime) \in Nat
    BY <2>1, PdpStartIs
  <2>3. n \in Nat
    BY <2>2 DEF Done
  <2>4. last_up \in Nat
    BY FileAssumption DEF Init
  <2> QED
    BY <2>3, <2>4 DEF Init
<1> HIDE DEF n
<1>3. row_cnt \in [RRAs -> Nat \ {0}]
  BY <1>1 DEF RingInv
<1>4. depth \in [RRAs -> Nat]
  BY <1>2, <1>3
<1>5. ASSUME NEW i \in RRAs
      PROVE  ArchiveSound(i, cdp_prep[i], Lists[i], row_cnt[i], depth[i], pdps,
                          todo[i], Done(now), begun)
  <2> DEFINE cdp == cdp_prep[i]
             list == Lists[i]
             len == row_cnt[i]
  <2>1. len \in Nat \ {0}
    BY <1>3
  <2>2. list = NewestFirst(rows[i], cur_row[i], len)
    BY DEF Lists
  <2>3. Len(list) = len
    BY <2>1, <2>2, NewestFirstLen
  <2>4. \A k \in 1..len : list[k] = UnknownRow
    BY <1>1, <2>3 DEF RR!Init
  <2>5. cdp = [d \in DS |-> [val |-> DNAN, unkn |-> MissingPdps(i, last_up),
                             primary |-> Num(0), secondary |-> Num(0)]]
    BY <1>2
  <2> HIDE DEF cdp, list, len
  <2>6. ArchiveSound(i, cdp, list, len, len, pdps, 0, Done(last_up), {})
    BY <1>2, <2>1, <2>3, <2>4, <2>5, NewKeeps
  <2> QED
    BY <1>2, <2>6 DEF cdp, list, len
<1> QED
  BY <1>4, <1>5 DEF RowsInv

(* A step that leaves archives, scratch areas and PDPs alone.              *)
LEMMA RowsUnchanged ==
    ASSUME RowsInv, UNCHANGED <<cdp_prep, ringVars, pdps, todo, begun, now, depth>>
    PROVE  RowsInv'
BY DEF RowsInv, Lists, ringVars

(* The PDPs after an update.                                               *)
LEMMA PdpsPainted ==
    ASSUME FileTyped, NEW t \in (last_up + 1)..MaxTime, NEW new, NEW temp,
           Remember(new, t - last_up, t, temp)
    PROVE  pdps' = [d \in DS |-> Painted(pdps[d], Done(last_up), Done(t), temp[d])]
<1> DEFINE n == MaxTime \div PdpStep
           a == Done(last_up)
           z == Done(t)
<1>1. last_up \in Nat /\ t \in Nat /\ last_up <= t /\ pdps \in [DS -> [1..n -> Values]]
  BY DEF FileTyped
<1>2. \A p \in Nat : (p * PdpStep \in (PdpStart(last_up) + 1)..t) <=> p \in (a + 1)..z
  BY <1>1, StepsBetween
<1>3. pdps' = [d \in DS |-> [p \in 1..n |->
                 IF p * PdpStep \in (PdpStart(last_up) + 1)..t THEN temp[d] ELSE pdps[d][p]]]
  BY DEF Remember
<1>4. \A p \in 1..n : p \in Nat
  <2>1. n \in Int
    BY FileAssumption, DivMod
  <2> QED
    BY <2>1
<1> HIDE DEF n, a, z
<1>5. ASSUME NEW d \in DS
      PROVE  [p \in 1..n |-> IF p * PdpStep \in (PdpStart(last_up) + 1)..t THEN temp[d]
                             ELSE pdps[d][p]] = Painted(pdps[d], a, z, temp[d])
  <2>1. DOMAIN pdps[d] = 1..n
    BY <1>1
  <2>2. \A p \in 1..n : (p * PdpStep \in (PdpStart(last_up) + 1)..t) <=> p \in (a + 1)..z
    BY <1>2, <1>4
  <2> QED
    BY <2>1, <2>2, Zenon DEF Painted
<1> QED
  BY <1>3, <1>5 DEF a, z

(* An update within a step changes neither PDPs nor rows.                  *)
LEMMA RowsWithinStep == FileInv /\ ArgWithinStep => RowsInv'
<1> SUFFICES ASSUME FileInv, ArgWithinStep PROVE RowsInv'
  OBVIOUS
<1>1. PICK t \in (last_up + 1)..MaxTime, u \in Inputs : ArgWithinStep!(t, u)
  BY DEF ArgWithinStep
<1> DEFINE new == [d \in DS |-> PdpNew(d, u[d], t - last_up)]
<1>2. /\ Idle /\ Elapsed(t) = 0 /\ now' = t /\ Remember(new, t - last_up, t, new)
      /\ UNCHANGED <<cdp_prep, ringVars, todo, begun, depth>>
  BY <1>1
<1> HIDE DEF new
<1>3. FileTyped
  BY DEF FileInv, PrepInv
<1>4. last_up \in Nat /\ t \in Nat /\ last_up <= t /\ now = last_up
      /\ pdps \in [DS -> [1..(MaxTime \div PdpStep) -> Values]]
  BY <1>2, <1>3 DEF FileTyped
<1>5. Done(t) = Done(last_up)
  <2>1. Steps(last_up, t) = Done(t) - Done(last_up) /\ Done(t) \in Nat /\ Done(last_up) \in Nat
    BY <1>4, StepsIs, PdpStartIs
  <2>2. Steps(last_up, t) = 0
    BY <1>2 DEF Steps, Elapsed
  <2> QED
    BY <2>1, <2>2
<1>6. pdps' = [d \in DS |-> Painted(pdps[d], Done(last_up), Done(t), new[d])]
  BY <1>2, <1>3, PdpsPainted
<1>7. pdps' = pdps
  <2>1. Done(last_up) \in Nat
    BY <1>4, PdpStartIs
  <2>2. (Done(last_up) + 1)..Done(t) = {}
    BY <1>5, <2>1
  <2>3. ASSUME NEW d \in DS
        PROVE  Painted(pdps[d], Done(last_up), Done(t), new[d]) = pdps[d]
    <3>1. pdps[d] = [s \in DOMAIN pdps[d] |-> pdps[d][s]]
      BY <1>4
    <3> QED
      BY <2>2, <3>1 DEF Painted
  <2> QED
    BY <1>4, <1>6, <2>3
<1>8. Done(now') = Done(now)
  BY <1>2, <1>4, <1>5
<1>9. RowsInv
  BY DEF FileInv
<1> QED
  BY <1>2, <1>7, <1>8, <1>9 DEF RowsInv, Lists, ringVars

(* An update that completes PDPs, before its rows are written.             *)
LEMMA RowsCompletes == FileInv /\ ArgCompletesPdps => RowsInv'
<1> SUFFICES ASSUME FileInv, ArgCompletesPdps PROVE RowsInv'
  OBVIOUS
<1>1. PICK t \in (last_up + 1)..MaxTime, u \in Inputs : ArgCompletesPdps!(t, u)
  BY DEF ArgCompletesPdps
<1> DEFINE new == [d \in DS |-> PdpNew(d, u[d], t - last_up)]
           temp == [d \in DS |-> PdpTemp(d, new[d], t - last_up, t)]
           prep == [d \in DS |-> PdpCarried(d, new[d], t - last_up, t)]
<1>2. /\ Idle /\ Elapsed(t) > 0 /\ now' = t
      /\ pdp_prep' = [d \in DS |-> [PdpCarried(d, new[d], t - last_up, t) EXCEPT !.last_ds = u[d]]]
      /\ cdp_prep' = [i \in RRAs |-> [d \in DS |->
                         UpdateCdp(i, cdp_prep[i][d], temp[d], Elapsed(t))]]
      /\ todo' = [i \in RRAs |-> RraStepCnt(i, Elapsed(t))]
      /\ begun' = {}
      /\ Remember(new, t - last_up, t, temp)
      /\ UNCHANGED <<ringVars, depth>>
  BY <1>1
<1>3. pdp_prep' = [d \in DS |-> [prep[d] EXCEPT !.last_ds = u[d]]]
  BY <1>2
<1>4. new = [d \in DS |-> PdpNew(d, u[d], t - last_up)]
      /\ temp = [d \in DS |-> PdpTemp(d, new[d], t - last_up, t)]
      /\ prep = [d \in DS |-> PdpCarried(d, new[d], t - last_up, t)]
  OBVIOUS
<1> HIDE DEF new, prep, temp
<1>5. Computed(t, u, new, temp, prep) /\ Stored(t, u, new, temp, prep)
  BY <1>2, <1>3, <1>4 DEF Computed, Stored
<1>6. PrepInv /\ RowsInv /\ FileTyped
  BY DEF FileInv, PrepInv
<1>7. temp \in [DS -> Values]
  BY <1>2, <1>5, <1>6, ArgPrep
<1>8. last_up \in Nat /\ t \in Nat /\ last_up <= t /\ now = last_up /\ t <= MaxTime
      /\ pdps \in [DS -> [1..(MaxTime \div PdpStep) -> Values]]
  BY <1>2, <1>6 DEF FileTyped
<1>9. pdps' = [d \in DS |-> Painted(pdps[d], Done(last_up), Done(t), temp[d])]
  BY <1>2, <1>6, PdpsPainted
<1>10. Done(t) <= MaxTime \div PdpStep /\ MaxTime \div PdpStep \in Nat
  <2>1. MaxTime \in Nat /\ PdpStep \in Nat \ {0}
    BY FileAssumption
  <2>2. t \div PdpStep <= MaxTime \div PdpStep
    BY <1>8, <2>1, DivMono
  <2>3. Done(MaxTime) \in Nat
    BY <2>1, PdpStartIs
  <2> QED
    BY <2>2, <2>3 DEF Done
<1> DEFINE a == Done(last_up)
           z == Done(t)
           n == MaxTime \div PdpStep
           G == [d \in DS |-> Painted(pdps[d], a, z, temp[d])]
<1>11. Completes(t, a, z, n, pdps, temp, G)
  BY <1>2, <1>7, <1>8, <1>10 DEF Completes
<1>12. pdps' = G /\ Done(now) = a /\ Done(now') = z
  BY <1>2, <1>8, <1>9
<1> HIDE DEF a, z, n, G
<1>13. ASSUME NEW i \in RRAs
       PROVE  ArchiveSound(i, cdp_prep'[i], Lists[i], row_cnt[i], depth[i], pdps',
                           todo'[i], Done(now'), begun')
  <2> DEFINE cdp == cdp_prep[i]
             list == Lists[i]
             len == row_cnt[i]
             reach == depth[i]
             w == cdp_prep'[i]
  <2>1. ArchiveSound(i, cdp, list, len, reach, pdps, 0, a, begun)
    <3>1. todo[i] = 0
      BY <1>2 DEF Idle
    <3> QED
      BY <1>6, <1>12, <3>1 DEF RowsInv
  <2>2. w = [d \in DS |-> UpdateCdp(i, cdp[d], temp[d], Elapsed(t))]
    BY <1>2
  <2> HIDE DEF cdp, list, len, reach, w
  <2>3. ArchiveSound(i, w, list, len, reach, G, RraStepCnt(i, Elapsed(t)), z, {})
    BY <1>8, <1>11, <2>1, <2>2, UpdateKeeps
  <2>4. todo'[i] = RraStepCnt(i, Elapsed(t)) /\ begun' = {}
    BY <1>2
  <2> QED
    BY <1>12, <2>3, <2>4 DEF list, len, reach, w
<1> QED
  BY <1>2, <1>6, <1>13 DEF RowsInv, Lists, ringVars

(* A row is written.                                                       *)
LEMMA RowsWritten == FileInv /\ WriteRow => RowsInv'
<1> SUFFICES ASSUME FileInv, WriteRow PROVE RowsInv'
  OBVIOUS
<1>1. PICK i \in RRAs : WriteRow!(i)
  BY DEF WriteRow
<1> DEFINE row == [d \in DS |-> IF i \in begun THEN cdp_prep[i][d].secondary
                                ELSE cdp_prep[i][d].primary]
<1>2. /\ todo[i] > 0
      /\ cur_row' = [cur_row EXCEPT ![i] = NextRow(cur_row[i], row_cnt[i])]
      /\ rows' = [rows EXCEPT ![i] = [@ EXCEPT ![NextRow(cur_row[i], row_cnt[i])] = row]]
      /\ todo' = [todo EXCEPT ![i] = @ - 1]
      /\ begun' = begun \cup {i}
      /\ depth' = [depth EXCEPT ![i] = IF @ < row_cnt[i] THEN @ + 1 ELSE @]
      /\ UNCHANGED <<cdp_prep, row_cnt, now, pdps>>
  BY <1>1 DEF headVars
<1>3. row = [d \in DS |-> IF i \in begun THEN cdp_prep[i][d].secondary
                          ELSE cdp_prep[i][d].primary]
  OBVIOUS
<1> HIDE DEF row
<1>4. RingInv /\ RowsInv /\ todo \in [RRAs -> Nat]
  BY DEF FileInv, PrepInv, FileTyped
<1>5. RingInv' /\ Lists' = [Lists EXCEPT ![i] = RR!Pushed(Lists[i], row)]
  BY <1>2, <1>4, WriteLists
<1> DEFINE far == IF depth[i] < row_cnt[i] THEN depth[i] + 1 ELSE depth[i]
<1>6. depth \in [RRAs -> Nat] /\ depth' = [depth EXCEPT ![i] = far]
  BY <1>2, <1>4 DEF RowsInv
<1>7. far \in Nat
  BY <1>6
<1>8. depth' \in [RRAs -> Nat]
  BY <1>6, <1>7
<1>9. ASSUME NEW j \in RRAs
      PROVE  ArchiveSound(j, cdp_prep[j], Lists'[j], row_cnt[j], depth'[j], pdps,
                          todo'[j], Done(now), begun \cup {i})
  <2>1. ArchiveSound(j, cdp_prep[j], Lists[j], row_cnt[j], depth[j], pdps,
                     todo[j], Done(now), begun)
    BY <1>4 DEF RowsInv
  <2>2. CASE j # i
    <3>1. Lists'[j] = Lists[j] /\ depth'[j] = depth[j] /\ todo'[j] = todo[j]
      BY <1>2, <1>4, <1>5, <1>6, <2>2 DEF Lists
    <3> QED
      BY <2>1, <2>2, <3>1, OthersKeep
  <2>3. CASE j = i
    <3> DEFINE cdp == cdp_prep[i]
               list == Lists[i]
               n == row_cnt[i]
               reach == depth[i]
               rest == todo[i]
               z == Done(now)
    <3>1. /\ ArchiveSound(i, cdp, list, n, reach, pdps, rest, z, begun) /\ rest > 0
          /\ row = [d \in DS |-> IF i \in begun THEN cdp[d].secondary ELSE cdp[d].primary]
      BY <1>2, <1>3, <2>1, <2>3
    <3>2. /\ Lists'[i] = RR!Pushed(list, row) /\ todo'[i] = rest - 1
          /\ depth'[i] = IF reach < n THEN reach + 1 ELSE reach
      BY <1>2, <1>4, <1>5, <1>6 DEF Lists
    <3> HIDE DEF cdp, list, n, reach, rest, z
    <3>3. ArchiveSound(i, cdp, RR!Pushed(list, row), n, IF reach < n THEN reach + 1 ELSE reach,
                       pdps, rest - 1, z, begun \cup {i})
      BY <3>1, WriteKeeps
    <3> QED
      BY <2>3, <3>2, <3>3 DEF cdp, n, z
  <2> QED
    BY <2>2, <2>3
<1> QED
  BY <1>2, <1>8, <1>9 DEF RowsInv

(* An archive gets more rows.                                              *)
LEMMA RowsGrown == FileInv /\ Grow => RowsInv'
<1> SUFFICES ASSUME FileInv, Grow PROVE RowsInv'
  OBVIOUS
<1>1. PICK i \in RRAs, m \in 1..MaxResize :
        /\ rows' = [rows EXCEPT ![i] = GrownRows(@, cur_row[i], row_cnt[i], m, UnknownRow)]
        /\ row_cnt' = [row_cnt EXCEPT ![i] = @ + m]
        /\ cur_row' = cur_row
        /\ UNCHANGED <<cdp_prep, todo, begun, now, pdps, depth>>
  BY DEF Grow, headVars, loopVars, histVars
<1>2. m \in Nat \ {0}
  BY FileAssumption
<1>3. RingInv /\ RowsInv /\ row_cnt \in [RRAs -> Nat \ {0}]
  BY DEF FileInv, RingInv
<1>4. Lists' = [Lists EXCEPT ![i] = RR!Grown(Lists[i], m)]
  BY <1>1, <1>2, <1>3, GrowLists
<1>5. ASSUME NEW j \in RRAs
      PROVE  ArchiveSound(j, cdp_prep[j], Lists'[j], row_cnt'[j], depth[j], pdps,
                          todo[j], Done(now), begun)
  <2>1. ArchiveSound(j, cdp_prep[j], Lists[j], row_cnt[j], depth[j], pdps,
                     todo[j], Done(now), begun)
    BY <1>3 DEF RowsInv
  <2>2. CASE j # i
    <3>1. Lists'[j] = Lists[j] /\ row_cnt'[j] = row_cnt[j]
      BY <1>1, <1>3, <1>4, <2>2 DEF Lists
    <3> QED
      BY <2>1, <3>1
  <2>3. CASE j = i
    <3> DEFINE cdp == cdp_prep[i]
               list == Lists[i]
               n == row_cnt[i]
               reach == depth[i]
               rest == todo[i]
               z == Done(now)
    <3>1. ArchiveSound(i, cdp, list, n, reach, pdps, rest, z, begun)
      BY <2>1, <2>3
    <3>2. Lists'[i] = RR!Grown(list, m) /\ row_cnt'[i] = n + m
      BY <1>1, <1>3, <1>4 DEF Lists
    <3> HIDE DEF cdp, list, n, reach, rest, z
    <3>3. ArchiveSound(i, cdp, RR!Grown(list, m), n + m, reach, pdps, rest, z, begun)
      BY <1>2, <3>1, GrowKeeps
    <3> QED
      BY <2>3, <3>2, <3>3 DEF cdp, reach, rest, z
  <2> QED
    BY <2>2, <2>3
<1>6. depth \in [RRAs -> Nat]
  BY <1>3 DEF RowsInv
<1> QED
  BY <1>1, <1>5, <1>6 DEF RowsInv

(* An archive gets fewer rows.                                             *)
LEMMA RowsShrunk == FileInv /\ Shrink => RowsInv'
<1> SUFFICES ASSUME FileInv, Shrink PROVE RowsInv'
  OBVIOUS
<1>1. PICK i \in RRAs, m \in 1..MaxResize :
        /\ m < row_cnt[i]
        /\ rows' = [rows EXCEPT ![i] = ShrunkRows(@, cur_row[i], row_cnt[i], m)]
        /\ cur_row' = [cur_row EXCEPT ![i] = ShrunkCur(@, row_cnt[i], m)]
        /\ row_cnt' = [row_cnt EXCEPT ![i] = @ - m]
        /\ depth' = [depth EXCEPT ![i] = IF @ < row_cnt'[i] THEN @ ELSE row_cnt'[i]]
        /\ UNCHANGED <<cdp_prep, todo, begun, now, pdps>>
  BY DEF Shrink, headVars, loopVars
<1>2. m \in Nat \ {0}
  BY FileAssumption
<1>3. RingInv /\ RowsInv /\ row_cnt \in [RRAs -> Nat \ {0}]
  BY DEF FileInv, RingInv
<1>4. Lists' = [Lists EXCEPT ![i] = RR!Shrunk(Lists[i], m)]
  BY <1>1, <1>2, <1>3, ShrinkLists
<1> DEFINE far == IF depth[i] < row_cnt[i] - m THEN depth[i] ELSE row_cnt[i] - m
<1>5. /\ m \in 1..(row_cnt[i] - 1) /\ row_cnt'[i] = row_cnt[i] - m /\ depth \in [RRAs -> Nat]
      /\ row_cnt[i] - m \in Nat
  BY <1>1, <1>2, <1>3 DEF RowsInv
<1>6. depth' = [depth EXCEPT ![i] = far] /\ far \in Nat
  BY <1>1, <1>5
<1>7. depth' \in [RRAs -> Nat]
  BY <1>5, <1>6
<1>8. ASSUME NEW j \in RRAs
      PROVE  ArchiveSound(j, cdp_prep[j], Lists'[j], row_cnt'[j], depth'[j], pdps,
                          todo[j], Done(now), begun)
  <2>1. ArchiveSound(j, cdp_prep[j], Lists[j], row_cnt[j], depth[j], pdps,
                     todo[j], Done(now), begun)
    BY <1>3 DEF RowsInv
  <2>2. CASE j # i
    <3>1. Lists'[j] = Lists[j] /\ row_cnt'[j] = row_cnt[j] /\ depth'[j] = depth[j]
      BY <1>1, <1>3, <1>4, <1>5, <1>6, <2>2 DEF Lists
    <3> QED
      BY <2>1, <3>1
  <2>3. CASE j = i
    <3> DEFINE cdp == cdp_prep[i]
               list == Lists[i]
               n == row_cnt[i]
               reach == depth[i]
               rest == todo[i]
               z == Done(now)
    <3>1. ArchiveSound(i, cdp, list, n, reach, pdps, rest, z, begun) /\ m \in 1..(n - 1)
      BY <1>5, <2>1, <2>3
    <3>2. /\ Lists'[i] = RR!Shrunk(list, m) /\ row_cnt'[i] = n - m
          /\ depth'[i] = IF reach < n - m THEN reach ELSE n - m
      BY <1>1, <1>3, <1>4, <1>5, <1>6 DEF Lists
    <3> HIDE DEF cdp, list, n, reach, rest, z
    <3>3. ArchiveSound(i, cdp, RR!Shrunk(list, m), n - m, IF reach < n - m THEN reach ELSE n - m,
                       pdps, rest, z, begun)
      BY <3>1, ShrinkKeeps
    <3> QED
      BY <2>3, <3>2, <3>3 DEF cdp, rest, z
  <2> QED
    BY <2>2, <2>3
<1> QED
  BY <1>1, <1>7, <1>8 DEF RowsInv

(* The inductive invariant of the file.                                    *)
LEMMA RowsNext == FileInv /\ [Next]_vars => FileInv'
<1> SUFFICES ASSUME FileInv, [Next]_vars PROVE FileInv'
  OBVIOUS
<1>1. PrepInv' /\ RingInv'
  BY PrepNext, FileStep DEF FileInv
<1>2. CASE ArgFails \/ UNCHANGED vars
  <2>1. UNCHANGED <<cdp_prep, ringVars, pdps, todo, begun, now, depth>>
    BY <1>2 DEF ArgFails, vars, headVars, loopVars, histVars
  <2> QED
    BY <1>1, <2>1, RowsUnchanged DEF FileInv
<1> QED
  BY <1>1, <1>2, RowsWithinStep, RowsCompletes, RowsWritten, RowsGrown, RowsShrunk
     DEF Next, FileInv

-----------------------------------------------------------------------------
(* Rows                                                                    *)

\* The number of the newest row of archive i between two updates.
Newest(i) == Full(i, Done(last_up))

(* When the newest row ended.                                              *)
LEMMA CalEndIs ==
    ASSUME last_up \in Nat, NEW i \in RRAs
    PROVE  Newest(i) \in Nat /\ CalEnd(i) = RowStep(i) * Newest(i)
<1> DEFINE c == Cnt(i)
           S == RowStep(i)
<1>1. c \in Nat \ {0} /\ PdpStep \in Nat \ {0} /\ S = PdpStep * c /\ S \in Nat \ {0}
  BY StepIs
<1>2. Done(last_up) \in Nat
  BY PdpStartIs
<1>3. Newest(i) \in Nat
  BY <1>2, FullIs DEF Newest
<1>4. last_up \div S = Newest(i)
  <2>1. last_up \div (PdpStep * c) = (last_up \div PdpStep) \div c
    BY <1>1, DivDiv
  <2> QED
    BY <1>1, <2>1 DEF Newest, Full, Done
<1> HIDE DEF c, S
<1>5. last_up = S * (last_up \div S) + (last_up % S) /\ last_up % S \in Int
      /\ S * (last_up \div S) \in Int
  <2>1. last_up \in Int /\ S \in Nat \ {0}
    BY <1>1
  <2>2. last_up % S \in 0 .. S - 1 /\ last_up \div S \in Int
        /\ last_up = S * (last_up \div S) + (last_up % S)
    BY <2>1, DivMod
  <2>3. S * (last_up \div S) \in Int
    BY <1>1, <1>3, <1>4
  <2> QED
    BY <2>1, <2>2, <2>3
<1>6. last_up - (last_up % S) = S * Newest(i)
  BY <1>4, <1>5
<1> QED
  BY <1>3, <1>6 DEF CalEnd, S

(* What archive i should say j rows before its newest one.                 *)
LEMMA ExpectedIs ==
    ASSUME last_up \in Nat, NEW i \in RRAs, NEW j \in Int, depth \in [RRAs -> Nat],
           pdps \in [DS -> [1..(MaxTime \div PdpStep) -> Values]]
    PROVE  Expected(i, RowStep(i) * (Newest(i) - j)) =
             [d \in DS |-> IF j \in 0..(depth[i] - 1) THEN RowOf(i, pdps[d], Newest(i) - j)
                           ELSE DNAN]
<1> DEFINE S == RowStep(i)
           x == Newest(i)
           h == depth[i]
           t == S * (x - j)
<1>1. S \in Nat \ {0} /\ x \in Nat /\ h \in Nat /\ CalEnd(i) = S * x
  BY StepIs, CalEndIs
<1> HIDE DEF S, x, h
<1>2. t = S * x - j * S /\ S * x \in Int /\ j * S \in Int /\ h * S \in Int /\ t \in Int
  BY <1>1
<1>3. (0 <= j) <=> (0 <= j * S)
  <2>1. j < 0 <=> j * S < 0 * S
    BY <1>1, Scaled
  <2>2. 0 * S = 0
    BY <1>1
  <2> QED
    BY <1>2, <2>1, <2>2
<1>4. (j < h) <=> (j * S < h * S)
  BY <1>1, Scaled
<1>5. t \in ((S * x - h * S) + 1)..(S * x) <=> j \in 0..(h - 1)
  <2> DEFINE u == S * x
             v == j * S
             w == h * S
  <2>1. u \in Int /\ v \in Int /\ w \in Int /\ t = u - v /\ t \in Int
        /\ (0 <= j <=> 0 <= v) /\ (j < h <=> v < w)
    BY <1>2, <1>3, <1>4
  <2> HIDE DEF u, v, w, t
  <2>2. t \in ((u - w) + 1)..u <=> 0 <= v /\ v < w
    BY <2>1
  <2>3. j \in 0..(h - 1) <=> 0 <= j /\ j < h
    BY <1>1
  <2> QED
    BY <2>1, <2>2, <2>3 DEF u, v, w
<1>6. ASSUME NEW d \in DS
      PROVE  Consolidated(i, d, t) = RowOf(i, pdps[d], x - j)
  <2>1. x - j \in Int
    BY <1>1
  <2> DEFINE m == x - j
  <2> HIDE DEF m
  <2>2. Consolidated(i, d, RowStep(i) * m) = RowOf(i, pdps[d], m)
    BY <2>1, ConsolidatedIs DEF m
  <2> QED
    BY <2>2 DEF m, S
<1> HIDE DEF t
<1>7. Expected(i, t) = [d \in DS |-> IF t \in ((S * x - h * S) + 1)..(S * x)
                                     THEN Consolidated(i, d, t) ELSE DNAN]
  BY <1>1 DEF Expected, S, h
<1>8. Expected(i, t) = [d \in DS |-> IF j \in 0..(h - 1) THEN RowOf(i, pdps[d], x - j) ELSE DNAN]
  BY <1>5, <1>6, <1>7
<1> QED
  BY <1>8 DEF t, S, x, h

(* Between two updates the list of an archive is what it should be.        *)
LEMMA ListIs ==
    ASSUME FileInv, Idle, NEW i \in RRAs, NEW k \in 1..row_cnt[i]
    PROVE  Lists[i][k] = Expected(i, RowStep(i) * (Newest(i) - (k - 1)))
<1>1. FileTyped /\ RowsInv
  BY DEF FileInv, PrepInv
<1>2. last_up \in Nat /\ now = last_up /\ depth \in [RRAs -> Nat]
      /\ pdps \in [DS -> [1..(MaxTime \div PdpStep) -> Values]] /\ todo[i] = 0
  BY <1>1 DEF FileTyped, RowsInv, Idle
<1>3. Newest(i) \in Nat
  BY <1>2, CalEndIs
<1>4. ArchiveSound(i, cdp_prep[i], Lists[i], row_cnt[i], depth[i], pdps, 0, Done(last_up), begun)
  BY <1>1, <1>2 DEF RowsInv
<1>5. Holds(i, Lists[i], row_cnt[i], depth[i], pdps, Newest(i))
  <2>1. Holds(i, Lists[i], row_cnt[i], depth[i], pdps, Newest(i) - 0)
    BY <1>4 DEF ArchiveSound, Newest
  <2>2. Newest(i) - 0 = Newest(i)
    BY <1>3
  <2> QED
    BY <2>1, <2>2
<1>6. Lists[i][k] = [d \in DS |-> IF k <= depth[i] THEN RowOf(i, pdps[d], Newest(i) - (k - 1))
                                  ELSE DNAN]
  BY <1>5 DEF Holds
<1>7. k - 1 \in Int /\ (k - 1 \in 0..(depth[i] - 1) <=> k <= depth[i])
  <2>1. row_cnt[i] \in Nat /\ depth[i] \in Nat
    BY <1>2, <1>4 DEF ArchiveSound
  <2> QED
    BY <2>1
<1> DEFINE j == k - 1
<1>8. j \in Int
  BY <1>7
<1> HIDE DEF j
<1>9. Expected(i, RowStep(i) * (Newest(i) - j)) =
        [d \in DS |-> IF j \in 0..(depth[i] - 1) THEN RowOf(i, pdps[d], Newest(i) - j) ELSE DNAN]
  BY <1>2, <1>8, ExpectedIs
<1> QED
  BY <1>6, <1>7, <1>9 DEF j

(* The inductive invariant implies the property.                           *)
LEMMA RowsAre == FileInv => RowsSound
<1> SUFFICES ASSUME FileInv, Idle, NEW i \in RRAs, NEW k \in 1..row_cnt[i]
             PROVE  NewestFirst(rows[i], cur_row[i], row_cnt[i])[k] =
                      Expected(i, CalEnd(i) - (k - 1) * RowStep(i))
  BY DEF RowsSound
<1>1. last_up \in Nat /\ row_cnt[i] \in Nat
  BY DEF FileInv, PrepInv, FileTyped, RingInv
<1>2. Lists[i][k] = Expected(i, RowStep(i) * (Newest(i) - (k - 1)))
  BY ListIs
<1>3. Lists[i] = NewestFirst(rows[i], cur_row[i], row_cnt[i])
  BY DEF Lists
<1>4. RowStep(i) * (Newest(i) - (k - 1)) = CalEnd(i) - (k - 1) * RowStep(i)
  <2> DEFINE S == RowStep(i)
             x == Newest(i)
             j == k - 1
  <2>1. S \in Int /\ x \in Int /\ j \in Int /\ CalEnd(i) = S * x
    BY <1>1, StepIs, CalEndIs
  <2> HIDE DEF S, x, j
  <2>2. S * (x - j) = S * x - j * S
    BY <2>1
  <2> QED
    BY <2>1, <2>2 DEF S, x, j
<1> QED
  BY <1>2, <1>3, <1>4

(* Between two updates every row of every archive, counted back from the   *)
(* current one, is the consolidation of the PDPs of its own time slot: for *)
(* all archives, data sources, readings and times, however many steps the  *)
(* updates spanned, and whatever resizes came between (update_cdp,         *)
(* write_to_rras, rrd_resize).                                             *)
THEOREM RowsAreSound == Spec => []RowsSound
<1>1. Init => FileInv
  BY PrepInit, FileInit, RowsInit DEF FileInv
<1>2. FileInv /\ [Next]_vars => FileInv'
  BY RowsNext
<1> QED
  BY <1>1, <1>2, RowsAre, PTL DEF Spec

-----------------------------------------------------------------------------
(* The archive of choice *)

\* Of two archives with keys in P and Q the first is better.
Better(P, Q, i, j) == P[i] > P[j] \/ (P[i] = P[j] /\ Q[i] < Q[j])

\* The first of the best ones.
FirstBest(P, Q, s, i) ==
    i \in s /\ \A j \in s \ {i} : ~Better(P, Q, j, i) /\ (j < i => Better(P, Q, i, j))

(* The first of the best, with one more to choose from.                    *)
LEMMA FirstBestAdd ==
    ASSUME NEW X \in SUBSET Nat, NEW P \in [X -> Int], NEW Q \in [X -> Int],
           NEW s \in SUBSET X, NEW x \in X \ s, NEW i, FirstBest(P, Q, s, i)
    PROVE  \E j : FirstBest(P, Q, s \cup {x}, j)
<1>1. /\ i \in X /\ i \in Nat /\ x \in Nat /\ i # x /\ i \in s
      /\ P[i] \in Int /\ P[x] \in Int /\ Q[i] \in Int /\ Q[x] \in Int
  BY DEF FirstBest
<1>2. CASE Better(P, Q, x, i) \/ (~Better(P, Q, i, x) /\ x < i)
  <2>1. ASSUME NEW j \in (s \cup {x}) \ {x}
        PROVE  ~Better(P, Q, j, x) /\ (j < x => Better(P, Q, x, j))
    <3>1. j \in s /\ j \in Nat /\ P[j] \in Int /\ Q[j] \in Int
      OBVIOUS
    <3>2. j = i \/ (~Better(P, Q, j, i) /\ (j < i => Better(P, Q, i, j)))
      BY <3>1 DEF FirstBest
    <3> QED
      BY <1>1, <1>2, <3>1, <3>2 DEF Better
  <2> QED
    BY <2>1 DEF FirstBest
<1>3. CASE ~(Better(P, Q, x, i) \/ (~Better(P, Q, i, x) /\ x < i))
  <2>1. ASSUME NEW j \in (s \cup {x}) \ {i}
        PROVE  ~Better(P, Q, j, i) /\ (j < i => Better(P, Q, i, j))
    <3>1. CASE j = x
      BY <1>1, <1>3, <3>1
    <3>2. CASE j # x
      BY <3>2 DEF FirstBest
    <3> QED
      BY <3>1, <3>2
  <2> QED
    BY <1>1, <2>1 DEF FirstBest
<1> QED
  BY <1>2, <1>3

(* There is a first of the best.                                           *)
LEMMA FirstBestExists ==
    ASSUME NEW X \in SUBSET Nat, IsFiniteSet(X), X # {}, NEW P \in [X -> Int], NEW Q \in [X -> Int]
    PROVE  \E i : FirstBest(P, Q, X, i)
<1> DEFINE A == {s \in SUBSET X : s = {} \/ \E i : FirstBest(P, Q, s, i)}
<1>1. A \in SUBSET SUBSET X /\ {} \in A
  OBVIOUS
<1>2. ASSUME NEW s \in A, NEW x \in X \ s
      PROVE  s \cup {x} \in A
  <2>1. CASE s = {}
    <3>1. FirstBest(P, Q, s \cup {x}, x)
      BY <2>1 DEF FirstBest
    <3> QED
      BY <3>1
  <2>2. CASE s # {}
    <3>1. PICK i : FirstBest(P, Q, s, i)
      BY <2>2
    <3>2. \E j : FirstBest(P, Q, s \cup {x}, j)
      BY <3>1, FirstBestAdd
    <3> QED
      BY <3>2
  <2> QED
    BY <2>1, <2>2
<1> HIDE DEF A
<1>3. A = SUBSET X
  BY <1>1, <1>2, SubsetInduction
<1>4. X \in A
  BY <1>3
<1> QED
  BY <1>4 DEF A

(* If an archive has the consolidation function of the wish, the loop of   *)
(* rrd_fetch_fn chooses one.                                               *)
LEMMA ChosenIs ==
    ASSUME last_up \in Nat, row_cnt \in [RRAs -> Nat \ {0}], NEW w \in Wishes, Candidates(w) # {}
    PROVE  ChosenRra(w) \in RRAs
<1> DEFINE full == {i \in Candidates(w) : CalStart(i) <= w.start}
           part == Candidates(w) \ full
           zero == [i \in full |-> 0]
           diff == [i \in full |-> StepDiff(i, w)]
           match == [i \in part |-> PartMatch(i, w)]
           gap == [i \in part |-> StepDiff(i, w)]
           one == CHOOSE i \in full : \A j \in full \ {i} :
                    ~(StepDiff(j, w) < StepDiff(i, w))
                    /\ (j < i => StepDiff(i, w) < StepDiff(j, w))
           longer(i, j) == \/ PartMatch(i, w) > PartMatch(j, w)
                           \/ PartMatch(i, w) = PartMatch(j, w) /\ StepDiff(i, w) < StepDiff(j, w)
           other == CHOOSE i \in part : \A j \in part \ {i} :
                      ~longer(j, i) /\ (j < i => longer(i, j))
<1>1. full \subseteq RRAs /\ part \subseteq RRAs /\ (full # {} \/ part # {})
  BY DEF Candidates
<1>2. RRAs \subseteq Nat /\ IsFiniteSet(RRAs)
  <2>1. PICK n \in Nat : RRAs = 1..n
    BY FileAssumption DEF RRAs
  <2> QED
    BY <2>1, FS_Interval
<1>3. w.start \in Nat /\ w.end \in Nat /\ w.step \in Nat
  BY FetchAssumption
<1>4. ASSUME NEW i \in RRAs
      PROVE  StepDiff(i, w) \in Int /\ PartMatch(i, w) \in Int
  <2>1. RowStep(i) \in Nat /\ CalEnd(i) \in Int /\ row_cnt[i] \in Nat
    <3>1. RowStep(i) \in Nat /\ Newest(i) \in Nat /\ CalEnd(i) = RowStep(i) * Newest(i)
      BY StepIs, CalEndIs
    <3> QED
      BY <3>1
  <2>2. RowStep(i) * row_cnt[i] \in Int
    BY <2>1
  <2> QED
    BY <1>3, <2>1, <2>2 DEF StepDiff, PartMatch, CalStart
<1>5. ChosenRra(w) = IF full # {} THEN one ELSE other
  BY DEF ChosenRra
<1>6. CASE full # {}
  <2> HIDE DEF full
  <2>1. full \in SUBSET Nat /\ IsFiniteSet(full) /\ zero \in [full -> Int] /\ diff \in [full -> Int]
    <3>1. full \in SUBSET Nat /\ IsFiniteSet(full)
      BY <1>1, <1>2, FS_Subset
    <3>2. zero \in [full -> Int]
      BY <1>1, <1>4
    <3>3. diff \in [full -> Int]
      BY <1>1, <1>4
    <3> QED
      BY <3>1, <3>2, <3>3
  <2>2. PICK i : FirstBest(zero, diff, full, i)
    BY <1>6, <2>1, FirstBestExists
  <2>3. i \in full /\ \A j \in full \ {i} : ~(StepDiff(j, w) < StepDiff(i, w))
                                          /\ (j < i => StepDiff(i, w) < StepDiff(j, w))
    BY <2>2 DEF FirstBest, Better
  <2>4. one \in full
    BY <2>3
  <2> QED
    BY <1>1, <1>5, <1>6, <2>4
<1>7. CASE full = {}
  <2>1. part # {}
    BY <1>1, <1>7
  <2> HIDE DEF full, part
  <2>2. part \in SUBSET Nat /\ IsFiniteSet(part) /\ match \in [part -> Int] /\ gap \in [part -> Int]
    <3>1. part \in SUBSET Nat /\ IsFiniteSet(part)
      BY <1>1, <1>2, FS_Subset
    <3>2. match \in [part -> Int]
      BY <1>1, <1>4
    <3>3. gap \in [part -> Int]
      BY <1>1, <1>4
    <3> QED
      BY <3>1, <3>2, <3>3
  <2>3. PICK i : FirstBest(match, gap, part, i)
    BY <2>1, <2>2, FirstBestExists
  <2>4. i \in part /\ \A j \in part \ {i} : ~longer(j, i) /\ (j < i => longer(i, j))
    BY <2>3 DEF FirstBest, Better
  <2> HIDE DEF longer
  <2>5. other \in part
    BY <2>4
  <2> QED
    BY <1>1, <1>5, <1>7, <2>5
<1> QED
  BY <1>6, <1>7

-----------------------------------------------------------------------------
(* The rows of a fetch *)

(* Quotient and remainder of a time.                                       *)
LEMMA DivRest ==
    ASSUME NEW S \in Nat \ {0}, NEW s \in Nat
    PROVE  s \div S \in Nat /\ s = S * (s \div S) + (s % S) /\ s % S \in 0 .. S - 1
<1>1. s \in Int
  OBVIOUS
<1>2. s \div S \in Int /\ s = S * (s \div S) + (s % S) /\ s % S \in 0 .. S - 1
  BY <1>1, DivMod
<1> QED
  BY <1>2, DivNat

(* The real start and end are multiples of the step around the wish.       *)
LEMMA RealTimes ==
    ASSUME NEW w \in Wishes, NEW S \in Nat \ {0}
    PROVE  \E p \in Nat, q \in Nat :
             /\ p <= q /\ RealStart(w, S) = S * p /\ RealEnd(w, S) = S * (q + 1)
             /\ RealStart(w, S) <= w.start /\ w.end < RealEnd(w, S)
<1> DEFINE s == w.start
           e == w.end
           p == s \div S
           q == e \div S
<1>1. s \in Nat /\ e \in Nat /\ s <= e
  BY FetchAssumption
<1> HIDE DEF s, e
<1>2. p \in Nat /\ s = S * p + (s % S) /\ s % S \in 0 .. S - 1
  BY <1>1, DivRest
<1>3. q \in Nat /\ e = S * q + (e % S) /\ e % S \in 0 .. S - 1
  BY <1>1, DivRest
<1>4. p <= q
  BY <1>1, DivMono
<1> HIDE DEF p, q
<1>5. S * p \in Int /\ S * q \in Int /\ S * (q + 1) = S * q + S
  BY <1>2, <1>3
<1>6. s - (s % S) = S * p /\ s - (s % S) <= s
  <2> DEFINE r == s % S
             v == S * p
  <2>1. s \in Int /\ v \in Int /\ r \in Nat /\ s = v + r
    BY <1>1, <1>2, <1>5
  <2> HIDE DEF r, v
  <2>2. s - r = v /\ s - r <= s
    BY <2>1
  <2> QED
    BY <2>2 DEF r, v
<1>7. e + (S - (e % S)) = S * (q + 1) /\ e < e + (S - (e % S))
  <2> DEFINE r == e % S
             v == S * q
  <2>1. e \in Int /\ v \in Int /\ r \in 0 .. S - 1 /\ e = v + r /\ S * (q + 1) = v + S
    BY <1>1, <1>3, <1>5
  <2> HIDE DEF r, v
  <2>2. e + (S - r) = v + S /\ e < e + (S - r)
    BY <2>1
  <2> QED
    BY <2>1, <2>2 DEF r
<1> QED
  BY <1>2, <1>3, <1>4, <1>6, <1>7 DEF RealStart, RealEnd, s, e

\* The window that starts after row number p and ends with row number q + 1, in an archive
\* of n rows of S seconds whose newest row is number x.
Offsets(S, x, n, p, q) ==
    /\ StartOffset(S * p, S, S * x - S * (n - 1)) = (p - x) + n
    /\ n - (S * x - S * (q + 1)) \div S = (n - x) + (q + 1)
    /\ (S * (q + 1) - S * p) \div S = (q + 1) - p
    /\ S * (q + 1) - S * p = ((q + 1) - p) * S

(* start_offset and end_offset, in rows.                                   *)
LEMMA OffsetsAre ==
    ASSUME NEW S \in Nat \ {0}, NEW x \in Int, NEW n \in Int, NEW p \in Int, NEW q \in Int
    PROVE  Offsets(S, x, n, p, q)
<1> DEFINE a == (p - x) + n
           b == x - (q + 1)
           c == (q + 1) - p
<1>1. a \in Int /\ b \in Int /\ c \in Int
  OBVIOUS
<1>2. (S * p + S) - (S * x - S * (n - 1)) = S * a
  OBVIOUS
<1>3. S * x - S * (q + 1) = S * b
  OBVIOUS
<1>4. S * (q + 1) - S * p = S * c /\ S * c = c * S
  OBVIOUS
<1> HIDE DEF a, b, c
<1>5. (S * a) \div S = a /\ (S * b) \div S = b /\ (S * c) \div S = c
  BY <1>1, ExactDiv
<1>6. n - b = (n - x) + (q + 1)
  BY DEF b
<1> QED
  BY <1>2, <1>3, <1>4, <1>5, <1>6 DEF Offsets, StartOffset, a, c

(* What has been skipped is not skipped again.                             *)
LEMMA Shifted ==
    ASSUME NEW pointer \in Int, NEW at \in Int, NEW skip \in Int, NEW cur \in Int, NEW v \in Int,
           cur + 1 + skip = v + pointer
    PROVE  pointer + at - skip = (cur + 1 + at) - v
OBVIOUS

\* The pointer moves over the row j rows before the current one.
Pointed(n, cur, skip, at, pointer, j) ==
    /\ n \in Nat \ {0} /\ cur \in 0..(n - 1) /\ skip \in Nat /\ at \in 0..(n - 1)
    /\ pointer = (cur + 1 + skip) % n /\ j = (n - 1) - at

(* The pointer, which wraps around at the end of the file, is at the row   *)
(* it should be at.                                                        *)
LEMMA PointerIs ==
    ASSUME NEW n, NEW cur, NEW skip, NEW at, NEW pointer, NEW j,
           Pointed(n, cur, skip, at, pointer, j)
    PROVE  (pointer + at - skip) % n = IF j <= cur THEN cur - j ELSE cur - j + n
<1>1. /\ n \in Nat \ {0} /\ cur \in 0..(n - 1) /\ skip \in Nat /\ at \in 0..(n - 1)
      /\ pointer = (cur + 1 + skip) % n /\ j = (n - 1) - at
  BY DEF Pointed
<1> DEFINE u == cur + 1 + skip
           k == u \div n
           y == cur + 1 + at
<1>2. u \in Int /\ y \in Int
  BY <1>1
<1>3. u % n \in Int /\ k \in Int /\ u = n * k + (u % n)
  <2> HIDE DEF u
  <2> QED
    BY <1>1, <1>2, DivMod
<1>4. pointer = u % n
  BY <1>1
<1> HIDE DEF k
<1>5. n * k \in Int
  BY <1>1, <1>3
<1>6. pointer + at - skip = y - n * k
  <2> DEFINE v == n * k
  <2>1. v \in Int /\ u = v + pointer /\ pointer \in Int
    BY <1>1, <1>3, <1>4, <1>5
  <2>2. cur + 1 + skip = v + pointer
    BY <2>1
  <2>3. pointer \in Int /\ at \in Int /\ skip \in Int /\ cur \in Int
    BY <1>1, <2>1
  <2> HIDE DEF v
  <2>4. pointer + at - skip = y - v
    BY <2>1, <2>3, <2>2, Shifted
  <2> QED
    BY <2>4 DEF v
<1>7. (y - n * k) % n = y % n
  <2> HIDE DEF y
  <2> QED
    BY <1>1, <1>2, <1>3, DivShift
<1>8. y % n = IF j <= cur THEN cur - j ELSE cur - j + n
  <2> DEFINE r == IF j <= cur THEN cur - j ELSE cur - j + n
             g == IF j <= cur THEN 1 ELSE 0
  <2>1. r \in 0 .. n - 1 /\ g \in Int
    BY <1>1
  <2>2. y = n * g + r
    BY <1>1
  <2> HIDE DEF y, r, g
  <2>3. y % n = r
    BY <1>1, <2>1, <2>2, DivUnique
  <2> QED
    BY <2>3 DEF r
<1> QED
  BY <1>6, <1>7, <1>8

\* The rows of a window, in terms of the list of the archive.
RowWindow(i, S, x, n, p, q, first, k, j) ==
    /\ i \in RRAs /\ S \in Nat \ {0} /\ S = RowStep(i) /\ x \in Int /\ CalEnd(i) = S * x
    /\ n = row_cnt[i] /\ p \in Int /\ q \in Int /\ first = (p - x) + n
    /\ k \in 1..((q + 1) - p) /\ j = x - (p + k)

(* A row of the window is the row of the list for its time, or unknown     *)
(* outside the archive.                                                    *)
LEMMA WindowIs ==
    ASSUME RingInv, NEW i, NEW S, NEW x, NEW n, NEW p, NEW q, NEW first, NEW k, NEW j,
           RowWindow(i, S, x, n, p, q, first, k, j)
    PROVE  Window(i, first, (q + 1) - p, RraPointer(i, S * p, S * (q + 1), first))[k] =
             IF j \in 0..(n - 1) THEN Lists[i][j + 1] ELSE UnknownRow
<1> DEFINE pointer == RraPointer(i, S * p, S * (q + 1), first)
           at == first + k - 1
           skip == Skipped(first)
           win == Window(i, first, (q + 1) - p, pointer)
<1>1. /\ i \in RRAs /\ S \in Nat \ {0} /\ S = RowStep(i) /\ x \in Int /\ CalEnd(i) = S * x
      /\ n = row_cnt[i] /\ p \in Int /\ q \in Int /\ first = (p - x) + n
      /\ k \in 1..((q + 1) - p) /\ j = x - (p + k)
  BY DEF RowWindow
<1> USE <1>1
<1>2. n \in Nat \ {0} /\ cur_row[i] \in 0..(n - 1)
  BY DEF RingInv
<1>3. at \in Int /\ first \in Int /\ skip \in Nat /\ j \in Int /\ at = (n - 1) - j
  <2>1. k \in Int /\ first \in Int /\ first = (p - x) + n
    BY <1>2
  <2>2. at \in Int /\ j \in Int /\ at = (n - 1) - j
    BY <1>2, <2>1
  <2>3. skip \in Nat
    BY <2>1 DEF Skipped
  <2> QED
    BY <2>1, <2>2, <2>3
<1>4. win[k] = IF at \notin 0..(n - 1) THEN UnknownRow
               ELSE rows[i][(pointer + at - skip) % n]
  BY DEF Window
<1>5. at \in 0..(n - 1) <=> j \in 0..(n - 1)
  BY <1>2, <1>3
<1>6. CASE j \notin 0..(n - 1)
  BY <1>4, <1>5, <1>6
<1>7. CASE j \in 0..(n - 1)
  <2>1. S * p <= S * x
    <3>1. ~(x < p)
      BY <1>2, <1>7
    <3>2. x < p <=> x * S < p * S
      BY Scaled
    <3>3. x * S = S * x /\ p * S = S * p /\ S * x \in Int /\ S * p \in Int
      OBVIOUS
    <3> QED
      BY <3>1, <3>2, <3>3
  <2>2. S * (q + 1) >= (S * x - S * (n - 1)) - S
    <3> DEFINE y == q + 1
               v == x - n
    <3>1. y \in Int /\ v \in Int /\ ~(y < v)
      BY <1>2, <1>7
    <3>2. (S * x - S * (n - 1)) - S = v * S
      BY <1>2
    <3>3. S * (q + 1) = y * S
      OBVIOUS
    <3> HIDE DEF y, v
    <3>4. y < v <=> y * S < v * S
      BY <3>1, Scaled
    <3>5. y * S \in Int /\ v * S \in Int
      BY <3>1
    <3>6. y * S >= v * S
      BY <3>1, <3>4, <3>5
    <3> QED
      BY <3>2, <3>3, <3>6
  <2>3. pointer = (cur_row[i] + 1 + skip) % n
    BY <2>1, <2>2 DEF RraPointer, FirstTime
  <2>4. at \in 0..(n - 1) /\ j = (n - 1) - at
    BY <1>2, <1>3, <1>5, <1>7
  <2> HIDE DEF pointer, at, skip
  <2>5. (pointer + at - skip) % n = IF j <= cur_row[i] THEN cur_row[i] - j ELSE cur_row[i] - j + n
    <3>1. Pointed(n, cur_row[i], skip, at, pointer, j)
      BY <1>2, <1>3, <2>3, <2>4 DEF Pointed
    <3> QED
      BY <3>1, PointerIs
  <2>6. Lists[i][j + 1] = IF j <= cur_row[i] THEN rows[i][cur_row[i] - j]
                          ELSE rows[i][cur_row[i] - j + n]
    <3> DEFINE k1 == j + 1
    <3>1. k1 \in 1..n /\ k1 - 1 = j
      BY <1>2, <1>7
    <3> HIDE DEF k1
    <3>2. Lists[i][k1] = IF k1 - 1 <= cur_row[i] THEN rows[i][cur_row[i] - (k1 - 1)]
                         ELSE rows[i][cur_row[i] - (k1 - 1) + n]
      BY <3>1 DEF Lists, NewestFirst
    <3> QED
      BY <3>1, <3>2 DEF k1
  <2>7. win[k] = rows[i][(pointer + at - skip) % n]
    BY <1>4, <2>4
  <2> QED
    BY <1>7, <2>5, <2>6, <2>7 DEF pointer
<1> QED
  BY <1>6, <1>7

(* A row that is j rows before the newest one.                             *)
LEMMA ExpectedOutside ==
    ASSUME FileInv, Idle, NEW i \in RRAs, NEW j \in Int
    PROVE  Expected(i, RowStep(i) * (Newest(i) - j)) =
             IF j \in 0..(row_cnt[i] - 1) THEN Lists[i][j + 1] ELSE UnknownRow
<1>1. FileTyped /\ RowsInv
  BY DEF FileInv, PrepInv
<1>2. /\ last_up \in Nat /\ depth \in [RRAs -> Nat]
      /\ pdps \in [DS -> [1..(MaxTime \div PdpStep) -> Values]]
  BY <1>1 DEF FileTyped, RowsInv
<1>3. row_cnt[i] \in Nat /\ depth[i] \in Nat /\ depth[i] <= row_cnt[i]
  BY <1>1 DEF RowsInv, ArchiveSound
<1>4. CASE j \in 0..(row_cnt[i] - 1)
  <2> DEFINE k == j + 1
  <2>1. k \in 1..row_cnt[i] /\ k - 1 = j
    BY <1>3, <1>4
  <2> HIDE DEF k
  <2>2. Lists[i][k] = Expected(i, RowStep(i) * (Newest(i) - (k - 1)))
    BY <2>1, ListIs
  <2> QED
    BY <1>4, <2>1, <2>2 DEF k
<1>5. CASE j \notin 0..(row_cnt[i] - 1)
  <2>1. j \notin 0..(depth[i] - 1)
    BY <1>3, <1>5
  <2>2. Expected(i, RowStep(i) * (Newest(i) - j)) =
          [d \in DS |-> IF j \in 0..(depth[i] - 1) THEN RowOf(i, pdps[d], Newest(i) - j)
                        ELSE DNAN]
    BY <1>2, ExpectedIs
  <2> QED
    BY <1>5, <2>1, <2>2 DEF UnknownRow
<1> QED
  BY <1>4, <1>5

(* What rrd_fetch_fn returns for one archive.                              *)
LEMMA FetchedIs ==
    ASSUME FileInv, Idle, NEW w \in Wishes, NEW i \in RRAs
    PROVE  LET f == Fetched(w, i)
           IN  /\ f.start <= w.start /\ w.end < f.end
               /\ Len(f.data) * f.step = f.end - f.start
               /\ Len(f.data) <= f.room
               /\ \A k \in 1..Len(f.data) : f.data[k] = Expected(i, f.start + k * f.step)
<1> DEFINE S == RowStep(i)
           x == Newest(i)
           n == row_cnt[i]
           start == RealStart(w, S)
           end == RealEnd(w, S)
           first == StartOffset(start, S, FirstTime(i))
           last == n - (CalEnd(i) - end) \div S
           data == Window(i, first, last - first, RraPointer(i, start, end, first))
           room == (end - start) \div S + 1
<1>1. last_up \in Nat /\ RingInv /\ n \in Nat \ {0}
  BY DEF FileInv, PrepInv, FileTyped, RingInv
<1>2. S \in Nat \ {0} /\ x \in Nat /\ CalEnd(i) = S * x
  BY <1>1, StepIs, CalEndIs
<1>3. PICK p \in Nat, q \in Nat :
        /\ p <= q /\ RealStart(w, S) = S * p /\ RealEnd(w, S) = S * (q + 1)
        /\ RealStart(w, S) <= w.start /\ w.end < RealEnd(w, S)
  BY <1>2, RealTimes
<1> DEFINE len == (q + 1) - p
<1>4. FirstTime(i) = S * x - S * (n - 1)
  BY <1>2 DEF FirstTime
<1>5. Fetched(w, i) = [start |-> start, end |-> end, step |-> S, room |-> room, data |-> data]
  BY DEF Fetched
<1>6. S = RowStep(i) /\ n = row_cnt[i] /\ x = Newest(i)
  OBVIOUS
<1> HIDE DEF S, x, n
<1>7. /\ first = (p - x) + n /\ last = (n - x) + (q + 1)
      /\ (end - start) \div S = len /\ end - start = len * S
  <2>1. x \in Int /\ n \in Int /\ p \in Int /\ q \in Int
    BY <1>1, <1>2
  <2>2. Offsets(S, x, n, p, q)
    BY <1>2, <2>1, OffsetsAre
  <2> QED
    BY <1>2, <1>3, <1>4, <2>2 DEF Offsets
<1>8. len \in Nat /\ last - first = len
  BY <1>1, <1>2, <1>3, <1>7
<1>9. data = Window(i, first, len, RraPointer(i, S * p, S * (q + 1), first))
  BY <1>3, <1>8
<1>10. Len(data) = len
  BY <1>8, <1>9 DEF Window
<1>11. room = len + 1
  BY <1>7
<1>12. ASSUME NEW k \in 1..len
       PROVE  data[k] = Expected(i, start + k * S)
  <2> DEFINE j == x - (p + k)
  <2>1. j \in Int /\ p \in Int /\ q \in Int /\ k \in Int /\ x \in Int
    BY <1>2, <1>8
  <2>2. start + k * S = S * (x - j)
    <3>1. x - j = p + k
      BY <2>1
    <3>2. S * (p + k) = S * p + k * S
      BY <1>2, <2>1
    <3> QED
      BY <1>3, <3>1, <3>2
  <2>3. j = x - (p + k)
    OBVIOUS
  <2> HIDE DEF j, first, data
  <2>4. Window(i, first, (q + 1) - p, RraPointer(i, S * p, S * (q + 1), first))[k] =
          IF j \in 0..(n - 1) THEN Lists[i][j + 1] ELSE UnknownRow
    <3>1. RowWindow(i, S, x, n, p, q, first, k, j)
      BY <1>1, <1>2, <1>6, <1>7, <2>1, <2>3 DEF RowWindow
    <3> QED
      BY <1>1, <3>1, WindowIs
  <2>5. Expected(i, S * (x - j)) = IF j \in 0..(n - 1) THEN Lists[i][j + 1] ELSE UnknownRow
    BY <1>6, <2>1, ExpectedOutside
  <2> QED
    BY <1>9, <2>2, <2>4, <2>5
<1> HIDE DEF start, end, data, room, len
<1>13. start <= w.start /\ w.end < end
  BY <1>3 DEF start, end
<1>14. len <= room
  BY <1>8, <1>11
<1> QED
  BY <1>5, <1>7, <1>10, <1>12, <1>13, <1>14

(* The inductive invariant implies the property.                           *)
LEMMA FetchesAre == FileInv => FetchSound
<1> SUFFICES ASSUME FileInv, Idle, NEW w \in Wishes, Candidates(w) # {}
             PROVE  LET f == Fetched(w, ChosenRra(w))
                    IN  /\ f.start <= w.start /\ w.end < f.end
                        /\ Len(f.data) * f.step = f.end - f.start
                        /\ Len(f.data) <= f.room
                        /\ \A k \in 1..Len(f.data) :
                             f.data[k] = Expected(ChosenRra(w), f.start + k * f.step)
  BY DEF FetchSound
<1>1. last_up \in Nat /\ row_cnt \in [RRAs -> Nat \ {0}]
  BY DEF FileInv, PrepInv, FileTyped, RingInv
<1>2. ChosenRra(w) \in RRAs
  BY <1>1, ChosenIs
<1> QED
  BY <1>2, FetchedIs

(* For every wish an archive can answer, the rows fetched cover the wished *)
(* time, fit into the memory allocated for them, and each is the           *)
(* consolidation of the PDPs of the time it is returned for, or unknown    *)
(* outside the archive (rrd_fetch_fn).                                     *)
THEOREM FetchesAreSound == Spec => []FetchSound
<1>1. Init => FileInv
  BY PrepInit, FileInit, RowsInit DEF FileInv
<1>2. FileInv /\ [Next]_vars => FileInv'
  BY RowsNext
<1> QED
  BY <1>1, <1>2, FetchesAre, PTL DEF Spec
=============================================================================
