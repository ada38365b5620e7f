---------------------------- MODULE Numbers_proofs -----------------------------
(***************************************************************************)
(* Facts about numbers that the proofs need and the library does not give: *)
(* the least-number principle, which takes the place of induction, and the *)
(* powers of two.                                                          *)
(***************************************************************************)
EXTENDS Integers, FiniteSets, FiniteSetTheorems, WellFoundedInduction, TLAPS

\* A set of natural numbers that is not empty has a least element.
LEMMA LeastNumber ==
    ASSUME NEW T \in SUBSET Nat, T # {}
    PROVE  \E x \in T : \A y \in T : x <= y
<1> DEFINE R == OpToRel(<, Nat)
<1>1. IsWellFoundedOn(R, Nat)
  BY NatLessThanWellFounded
<1>2. \A x, y \in Nat : y < x => <<y, x>> \in R
  BY DEF OpToRel
<1> HIDE DEF R
<1>3. PICK x \in T : \A y \in T : ~(<<y, x>> \in R)
  BY <1>1, WFMin
<1>4. ASSUME NEW y \in T PROVE x <= y
  <2>1. x \in Nat /\ y \in Nat
    OBVIOUS
  <2>2. ~(y < x)
    BY <1>2, <1>3, <2>1
  <2> QED
    BY <2>1, <2>2
<1> QED
  BY <1>4

\* A set of numbers that holds zero and every successor up to n holds them all.
LEMMA UpTo ==
    ASSUME NEW n \in Nat, NEW T, 0 \in T,
           \A i \in 1..n : i - 1 \in T => i \in T
    PROVE  0..n \subseteq T
<1> SUFFICES ASSUME (0..n) \ T # {} PROVE FALSE
  OBVIOUS
<1> DEFINE Rest == (0..n) \ T
<1>0. Rest \in SUBSET Nat /\ Rest # {}
  OBVIOUS
<1> HIDE DEF Rest
<1>1. PICK x \in Rest : \A y \in Rest : x <= y
  BY <1>0, LeastNumber
<1> USE DEF Rest
<1>2. x \in 1..n /\ x - 1 \in 0..n
  BY <1>1
<1>3. x - 1 \in T
  BY <1>1, <1>2
<1> QED
  BY <1>1, <1>2, <1>3

-----------------------------------------------------------------------------
LEMMA PowerOfTwo ==
    ASSUME NEW k \in Nat
    PROVE  2^k \in Nat /\ Cardinality(SUBSET (1..k)) = 2^k /\ IsFiniteSet(SUBSET (1..k))
<1>1. IsFiniteSet(1..k) /\ Cardinality(1..k) = k
  BY FS_Interval
<1>2. IsFiniteSet(SUBSET (1..k)) /\ Cardinality(SUBSET (1..k)) = 2^k
  BY <1>1, FS_SUBSET
<1> QED
  BY <1>2, FS_CardinalityType

\* The subsets of 1..k+1 are those without k+1 and as many with it.
LEMMA PowerDoubles ==
    ASSUME NEW k \in Nat
    PROVE  2^(k + 1) = 2 * 2^k
<1> DEFINE A == SUBSET (1..k)
           f == [T \in A |-> T \cup {k + 1}]
           B == {f[T] : T \in A}
<1>1. SUBSET (1..(k + 1)) = A \cup B
  <2>1. 1..(k + 1) = (1..k) \cup {k + 1}
    OBVIOUS
  <2>2. ASSUME NEW T \in SUBSET (1..(k + 1)), k + 1 \in T PROVE T \in B
    <3>1. T \ {k + 1} \in A
      BY <2>1
    <3>2. T = f[T \ {k + 1}]
      BY <2>2, <3>1
    <3> QED
      BY <3>1, <3>2
  <2>3. ASSUME NEW T \in SUBSET (1..(k + 1)), k + 1 \notin T PROVE T \in A
    BY <2>1, <2>3
  <2>4. A \subseteq SUBSET (1..(k + 1)) /\ B \subseteq SUBSET (1..(k + 1))
    BY <2>1
  <2> HIDE DEF A, B
  <2> QED
    BY <2>2, <2>3, <2>4
<1>2. A \cap B = {}
  <2>1. \A T \in A : k + 1 \notin T
    OBVIOUS
  <2>2. \A T \in B : k + 1 \in T
    OBVIOUS
  <2> HIDE DEF A, B
  <2> QED
    BY <2>1, <2>2
<1>3. f \in Surjection(A, B)
  BY DEF Surjection
<1>4. f \in Injection(A, B)
  <2>1. ASSUME NEW S \in A, NEW T \in A, f[S] = f[T] PROVE S = T
    <3>1. k + 1 \notin S /\ k + 1 \notin T
      OBVIOUS
    <3>2. S \cup {k + 1} = T \cup {k + 1}
      BY <2>1
    <3> QED
      BY <3>1, <3>2
  <2>2. f \in [A -> B]
    OBVIOUS
  <2> HIDE DEF A, B, f
  <2> QED
    BY <2>1, <2>2 DEF Injection, IsInjective
<1>5. IsFiniteSet(A) /\ Cardinality(A) = 2^k /\ 2^k \in Nat
  BY PowerOfTwo
<1> HIDE DEF A, B, f
<1>6. IsFiniteSet(B) /\ Cardinality(B) = 2^k
  BY <1>3, <1>4, <1>5, FS_Surjection
<1>7. Cardinality(A \cap B) = 0
  BY <1>2, FS_EmptySet
<1>8. Cardinality(A \cup B) = Cardinality(A) + Cardinality(B) - Cardinality(A \cap B)
  BY <1>5, <1>6, FS_Union
<1>9. Cardinality(SUBSET (1..(k + 1))) = 2^(k + 1)
  BY PowerOfTwo
<1> DEFINE p == 2^k
           q == 2^(k + 1)
<1>10. /\ p \in Nat /\ Cardinality(A) = p /\ Cardinality(B) = p
       /\ Cardinality(A \cup B) = q
  BY <1>1, <1>5, <1>6, <1>9
<1> HIDE DEF p, q
<1>11. q = 2 * p
  BY <1>7, <1>8, <1>10
<1> QED
  BY <1>11 DEF p, q

LEMMA PowerPositive ==
    ASSUME NEW k \in Nat
    PROVE  2^k \in Nat \ {0}
<1>1. SUBSET (1..k) # {}
  OBVIOUS
<1> QED
  BY <1>1, PowerOfTwo, FS_EmptySet

-----------------------------------------------------------------------------
\* A quotient of naturals, as the inequality that defines it.
LEMMA QuotientBound ==
    ASSUME NEW n \in Nat, NEW d \in Nat, d > 0
    PROVE  n \div d \in Nat /\ d * (n \div d) <= n
  OBVIOUS

\* A product of naturals grows with each factor.
LEMMA ProductMonotone ==
    ASSUME NEW x \in Nat, NEW r \in Nat, NEW s \in Nat, r <= s
    PROVE  x * r <= x * s
  OBVIOUS

LEMMA QuotientExact ==
    ASSUME NEW n \in Nat, NEW d \in Nat, d > 0
    PROVE  /\ n \div d \in Nat /\ n % d \in Nat /\ n % d < d
           /\ n = (n \div d) * d + (n % d)
  OBVIOUS

\* What holds of products with a positive factor holds without it.
LEMMA Cancel ==
    ASSUME NEW a \in Int, NEW b \in Int, NEW c \in Nat, c > 0
    PROVE  /\ a * c <= b * c => a <= b
           /\ a * c < b * c => a < b
<1>1. ASSUME a > b PROVE a * c > b * c
  BY <1>1
<1>2. ASSUME a >= b PROVE a * c >= b * c
  BY <1>2
<1> QED
  BY <1>1, <1>2

\* Rounding the quotient of a and q to the nearest: an error of half a unit, of
\* at least h units, is one of at most a 2h-th.
LEMMA RoundedQuotient ==
    ASSUME NEW a \in Nat, NEW q \in Nat, q > 0, NEW h \in Nat, h * q <= a, NEW up \in BOOLEAN,
           2 * (a % q) > q => up, up => 2 * (a % q) >= q
    PROVE  LET m == IF up THEN a \div q + 1 ELSE a \div q IN
           /\ m \in Nat /\ h <= m
           /\ m * q * (2 * h) <= a * (2 * h + 1)
           /\ a * (2 * h - 1) <= m * q * (2 * h)
<1> DEFINE d == a \div q
           r == a % q
           m == IF up THEN d + 1 ELSE d
<1>1. d \in Nat /\ r \in Nat /\ r < q /\ a = d * q + r
  BY QuotientExact
<1> HIDE DEF d, r
<1>2. h <= d
  <2>1. h * q < (d + 1) * q
    BY <1>1
  <2> QED
    BY <1>1, <2>1, Cancel
<1>3. m \in Nat /\ h <= m
  BY <1>1, <1>2
<1>4. 2 * (m * q) <= 2 * a + q /\ 2 * a - q <= 2 * (m * q)
  <2>1. CASE up
    <3>1. m * q = a - r + q /\ 2 * r >= q
      BY <1>1, <2>1 DEF r
    <3> QED
      BY <1>1, <3>1
  <2>2. CASE ~up
    <3>1. m * q = a - r /\ 2 * r <= q
      BY <1>1, <2>2 DEF r
    <3> QED
      BY <1>1, <3>1
  <2> QED
    BY <2>1, <2>2
<1> HIDE DEF m
<1> DEFINE w == m * q
<1>5. w \in Nat
  BY <1>3
<1>6. m * q * (2 * h) = h * (2 * w)
  BY <1>3
<1> HIDE DEF w
<1>7. h * (2 * w) <= h * (2 * a + q) /\ h * (2 * a - q) <= h * (2 * w)
  BY <1>4, <1>5 DEF w
<1>8. h * (2 * a + q) = a * (2 * h) + h * q /\ h * (2 * a - q) = a * (2 * h) - h * q
  OBVIOUS
<1>9. a * (2 * h + 1) = a * (2 * h) + a /\ a * (2 * h - 1) = a * (2 * h) - a
  OBVIOUS
<1>10. m * q * (2 * h) <= a * (2 * h + 1) /\ a * (2 * h - 1) <= m * q * (2 * h)
  BY <1>5, <1>6, <1>7, <1>8, <1>9
<1> QED
  BY <1>3, <1>10 DEF m, d, r

\* Bounds of quotients compose: a bound of b / c by p / q and one of m / d by
\* (b * k) / c, each with its factor, give one of m / d by (p * k) / q.
LEMMA BoundsCompose ==
    ASSUME NEW b \in Nat, NEW c \in Nat, c > 0, NEW m \in Nat, NEW d \in Nat,
           NEW p \in Nat, NEW q \in Nat, NEW k \in Nat,
           NEW f \in Nat, NEW g \in Nat, NEW u \in Nat, NEW v \in Nat
    PROVE  /\ b * q * f <= p * c * g /\ m * c * u <= b * k * d * v =>
                 m * q * (f * u) <= p * k * d * (g * v)
           /\ p * c * g <= b * q * f /\ b * k * d * v <= m * c * u =>
                 p * k * d * (g * v) <= m * q * (f * u)
<1> DEFINE e == k * d * v
           h == q * f
           A == b * q * f
           B == p * c * g
           C == m * c * u
           D == b * k * d * v
           X == m * q * (f * u)
           Y == p * k * d * (g * v)
<1>1. e \in Nat /\ h \in Nat
  OBVIOUS
<1>2. C * h = X * c /\ D * h = A * e /\ B * e = Y * c
  OBVIOUS
<1>3. A \in Nat /\ B \in Nat /\ C \in Nat /\ D \in Nat /\ X \in Nat /\ Y \in Nat
  OBVIOUS
<1> HIDE DEF A, B, C, D, X, Y, e, h
<1>4. ASSUME A <= B, C <= D PROVE X <= Y
  <2>1. C * h <= D * h /\ A * e <= B * e
    BY <1>1, <1>3, <1>4
  <2>2. X * c <= Y * c
    BY <1>1, <1>2, <1>3, <2>1
  <2> QED
    BY <1>3, <2>2, Cancel
<1>5. ASSUME B <= A, D <= C PROVE Y <= X
  <2>1. D * h <= C * h /\ B * e <= A * e
    BY <1>1, <1>3, <1>5
  <2>2. Y * c <= X * c
    BY <1>1, <1>2, <1>3, <2>1
  <2> QED
    BY <1>3, <2>2, Cancel
<1> QED
  BY <1>4, <1>5 DEF A, B, C, D, X, Y

\* A bound of m / d by p / q bounds its integer part, whatever the factors are.
LEMMA BoundsFloor ==
    ASSUME NEW m \in Nat, NEW d \in Nat, d > 0, NEW p \in Nat, NEW q \in Nat, q > 0,
           NEW f \in Nat, f > 0, NEW g \in Nat, NEW n \in Nat
    PROVE  /\ m \div d \in Nat
           /\ m * q * f <= p * d * g /\ p * g < n * q * f => m \div d < n
           /\ p * d * g <= m * q * f /\ n * q * f <= p * g => n <= m \div d
<1> DEFINE l == m \div d
           r == m % d
           e == q * f
<1>1. l \in Nat /\ r \in Nat /\ r < d /\ m = l * d + r
  BY QuotientExact
<1>2. e \in Nat /\ e > 0
  OBVIOUS
<1>3. m * q * f = m * e /\ p * d * g = (p * g) * d /\ n * q * f = n * e
  OBVIOUS
<1>4. m * e \in Nat /\ p * g \in Nat /\ n * e \in Nat /\ n * d \in Nat /\ l * d \in Nat
      /\ (n * e) * d = (n * d) * e
  BY <1>1
<1> HIDE DEF l, r, e
<1>5. ASSUME m * e <= (p * g) * d, p * g < n * e PROVE l < n
  <2>1. (p * g) * d < (n * e) * d
    BY <1>4, <1>5
  <2>2. m * e < (n * d) * e
    BY <1>2, <1>4, <1>5, <2>1
  <2>3. m < n * d
    BY <1>2, <1>4, <2>2, Cancel
  <2>4. l * d < n * d
    BY <1>1, <1>4, <2>3
  <2> QED
    BY <1>1, <2>4, Cancel
<1>6. ASSUME (p * g) * d <= m * e, n * e <= p * g PROVE n <= l
  <2>1. (n * e) * d <= (p * g) * d
    BY <1>4, <1>6
  <2>2. (n * d) * e <= m * e
    BY <1>2, <1>4, <1>6, <2>1
  <2>3. n * d <= m
    BY <1>2, <1>4, <2>2, Cancel
  <2>4. n * d < (l + 1) * d
    BY <1>1, <2>3
  <2> QED
    BY <1>1, <2>4, Cancel
<1> QED
  BY <1>1, <1>3, <1>5, <1>6 DEF l

-----------------------------------------------------------------------------
\* Two factors that are off by one part in u leave the integer part of n, or one
\* less, if u has room for four times n.
LEMMA TwoRoundings ==
    ASSUME NEW n \in Nat, n > 0, NEW u \in Nat, 4 * n <= u, NEW q \in Nat, q > 0
    PROVE  /\ n * q * ((u + 1) * (u + 1)) < (n + 1) * q * (u * u)
           /\ (n - 1) * q * (u * u) <= n * q * ((u - 1) * (u - 1))
<1> DEFINE s == u * u
           v == n * u
           w == n * s
<1>1. s \in Nat /\ v \in Nat /\ w \in Nat
  OBVIOUS
<1>2. 4 * v <= s /\ 4 * u <= s
  <2>1. (4 * n) * u <= u * u /\ 4 * u <= u * u
    OBVIOUS
  <2>2. (4 * n) * u = 4 * v
    OBVIOUS
  <2> QED
    BY <2>1, <2>2
<1>3. (u + 1) * (u + 1) = s + 2 * u + 1 /\ (u - 1) * (u - 1) = s - 2 * u + 1
  OBVIOUS
<1>4. /\ n * (s + 2 * u + 1) = w + 2 * v + n /\ n * (s - 2 * u + 1) = w - 2 * v + n
      /\ (n + 1) * s = w + s /\ (n - 1) * s = w - s
  <2>1. n * (s + 2 * u + 1) = n * s + n * (2 * u) + n /\ n * (s - 2 * u + 1) = n * s - n * (2 * u) + n
    BY <1>1
  <2>2. n * (2 * u) = 2 * v
    OBVIOUS
  <2> QED
    BY <1>1, <2>1, <2>2
<1> HIDE DEF s, v, w
<1> DEFINE a == n * (s + 2 * u + 1)
           b == n * (s - 2 * u + 1)
           c == (n + 1) * s
           d == (n - 1) * s
<1>5. a < c /\ d <= b /\ a \in Int /\ b \in Int /\ c \in Int /\ d \in Int
  BY <1>1, <1>2, <1>4
<1>6. n * q * (s + 2 * u + 1) = a * q /\ n * q * (s - 2 * u + 1) = b * q
  BY <1>1
<1>7. (n + 1) * q * s = c * q /\ (n - 1) * q * s = d * q
  BY <1>1
<1> HIDE DEF a, b, c, d
<1>8. a * q < c * q /\ d * q <= b * q
  BY <1>5
<1> QED
  BY <1>3, <1>6, <1>7, <1>8 DEF s

\* Three such factors do the same to w / q, a number of parts of which d make
\* one, if u has room for four times as many parts.
LEMMA ThreeRoundings ==
    ASSUME NEW w \in Nat, NEW q \in Nat, q > 0, NEW u \in Nat, 4 <= u,
           NEW d \in Nat, d > 0, NEW c \in Nat, d * w = c * q, 4 * (d * w) <= q * u,
           NEW e \in Nat, e * q <= w, w < (e + 1) * q
    PROVE  /\ w * ((u + 1) * (u + 1) * (u + 1)) < (e + 1) * q * (u * u * u)
           /\ (e - 1) * q * (u * u * u) <= w * ((u - 1) * (u - 1) * (u - 1))
<1> DEFINE s == u * u
           t == u * u * u
           r == 3 * s + 3 * u + 1
           l == 3 * s - 3 * u + 1
           v == d * w
           p == q * u
           x == (e + 1) * q
           y == (e - 1) * q
<1>1. /\ (u + 1) * (u + 1) * (u + 1) = t + r
      /\ (u - 1) * (u - 1) * (u - 1) = t - l
      /\ s \in Nat /\ t \in Nat /\ v \in Nat /\ p \in Nat /\ p > 0
      /\ x \in Int /\ y \in Int
  OBVIOUS
<1>2. 4 * u <= s
  OBVIOUS
<1>3. p * s = q * t
  OBVIOUS
<1> HIDE DEF s
<1>4. r \in Nat /\ l \in Nat /\ r < 4 * s /\ l < 4 * s
  BY <1>1, <1>2
<1> HIDE DEF r, l, t
<1>5. v * r < q * t /\ v * l <= q * t
  <2> HIDE DEF v, p
  <2>1. 4 * v <= p
    BY DEF v, p
  <2>2. (4 * v) * r <= p * r /\ (4 * v) * l <= p * l
    BY <1>1, <1>4, <2>1
  <2>3. p * r < p * (4 * s) /\ p * l < p * (4 * s)
    BY <1>1, <1>4
  <2>4. p * (4 * s) = 4 * (p * s) /\ (4 * v) * r = 4 * (v * r) /\ (4 * v) * l = 4 * (v * l)
    BY <1>1, <1>4
  <2> DEFINE vr == v * r
             vl == v * l
             ps == p * s
  <2>5. vr \in Nat /\ vl \in Nat /\ ps \in Nat
    BY <1>1, <1>4
  <2>6. 4 * vr < 4 * ps /\ 4 * vl < 4 * ps
    <3> DEFINE i == p * r
               j == p * l
               k == p * (4 * s)
               g == (4 * v) * r
               h == (4 * v) * l
    <3>1. i \in Nat /\ j \in Nat /\ k = 4 * ps /\ g = 4 * vr /\ h = 4 * vl
      BY <1>1, <1>4, <2>4
    <3>2. g <= i /\ h <= j /\ i < k /\ j < k
      BY <2>2, <2>3
    <3> HIDE DEF i, j, k, g, h, vr, vl, ps
    <3> QED
      BY <2>5, <3>1, <3>2
  <2> HIDE DEF vr, vl, ps
  <2>7. vr < ps /\ vl <= ps
    BY <2>5, <2>6
  <2> QED
    BY <1>3, <2>7 DEF vr, vl, ps
<1>6. v + q <= d * x
  <2>1. d * w < d * x
    OBVIOUS
  <2>2. c * q < (d * (e + 1)) * q
    <3>1. (d * (e + 1)) * q = d * x
      OBVIOUS
    <3> QED
      BY <2>1, <3>1
  <2>3. c < d * (e + 1)
    <3> DEFINE k == d * (e + 1)
    <3>1. k \in Int
      OBVIOUS
    <3> HIDE DEF k
    <3> QED
      BY <2>2, <3>1, Cancel DEF k
  <2>4. (c + 1) * q <= (d * (e + 1)) * q
    <3> DEFINE k == d * (e + 1)
    <3>1. k \in Int
      OBVIOUS
    <3> HIDE DEF k
    <3> QED
      BY <2>3, <3>1 DEF k
  <2>5. (d * (e + 1)) * q = d * x /\ (c + 1) * q = c * q + q
    OBVIOUS
  <2> QED
    BY <2>4, <2>5
<1>7. w * (t + r) < x * t
  <2>1. (v + q) * t <= (d * x) * t
    <3> DEFINE k == d * x
    <3>1. k \in Int
      BY <1>1
    <3> HIDE DEF k, v
    <3> QED
      BY <1>1, <1>6, <3>1 DEF k
  <2>2. v * (t + r) < (v + q) * t
    <3>1. v * (t + r) = v * t + v * r /\ (v + q) * t = v * t + q * t
      <4> HIDE DEF v
      <4> QED
        BY <1>1, <1>4
    <3> DEFINE i == v * t
               j == v * r
               k == q * t
    <3>2. i \in Nat /\ j \in Nat /\ k \in Nat /\ j < k
      BY <1>1, <1>4, <1>5
    <3> HIDE DEF i, j, k
    <3>3. i + j < i + k
      BY <3>2
    <3> QED
      BY <3>1, <3>3 DEF i, j, k
  <2>3. v * (t + r) = (w * (t + r)) * d /\ (d * x) * t = (x * t) * d
    <3> HIDE DEF x
    <3> QED
      BY <1>1, <1>4
  <2> DEFINE a == w * (t + r)
             b == x * t
             k == (v + q) * t
  <2>4. a \in Int /\ b \in Int /\ k \in Int
    BY <1>1, <1>4
  <2>5. a * d < k /\ k <= b * d
    BY <2>1, <2>2, <2>3
  <2> HIDE DEF a, b, k
  <2>6. a * d < b * d
    <3> DEFINE i == a * d
               j == b * d
    <3>1. i \in Int /\ j \in Int
      BY <2>4
    <3> HIDE DEF i, j
    <3>2. i < j
      BY <2>4, <2>5, <3>1 DEF i, j
    <3> QED
      BY <3>2 DEF i, j
  <2> QED
    BY <2>4, <2>6, Cancel DEF a, b
<1>8. y * t <= w * (t - l)
  <2>1. w * l <= q * t
    <3>1. w * l <= v * l
      <4>1. w <= v
        OBVIOUS
      <4> HIDE DEF v
      <4> QED
        BY <1>1, <1>4, <4>1
    <3> DEFINE i == w * l
               j == v * l
               k == q * t
    <3>2. i \in Int /\ j \in Int /\ k \in Int
      BY <1>1, <1>4
    <3>3. i <= j /\ j <= k
      BY <1>5, <3>1
    <3> HIDE DEF i, j, k
    <3>4. i <= k
      BY <3>2, <3>3
    <3> QED
      BY <3>4 DEF i, k
  <2>2. y <= w - q
    BY <1>1
  <2>3. y * t <= (w - q) * t
    <3> HIDE DEF y
    <3> QED
      BY <1>1, <2>2
  <2>4. (w - q) * t = w * t - q * t /\ w * (t - l) = w * t - w * l
    BY <1>1, <1>4
  <2> DEFINE i == w * t
             j == w * l
             k == q * t
             g == y * t
  <2>5. i \in Int /\ j \in Int /\ k \in Int /\ g \in Int /\ j <= k /\ g <= i - k
    BY <1>1, <1>4, <2>1, <2>3, <2>4
  <2> HIDE DEF i, j, k, g
  <2>6. g <= i - j
    BY <2>5
  <2> QED
    BY <2>4, <2>6 DEF i, j, g
<1> QED
  BY <1>1, <1>7, <1>8 DEF t

\* A number a / b, rounded to the nearest integer and, after one more factor,
\* cut to one: the second is the first, or one less.
LEMMA RoundedAndCut ==
    ASSUME NEW a \in Nat, NEW b \in Nat, b > 0, NEW u \in Nat, u > 0, 2 * a <= b * u
    PROVE  LET n == (2 * a + b) \div (2 * b) IN
           /\ n \in Nat
           /\ a * (u + 1) < (n + 1) * b * u
           /\ (n - 1) * b * u <= a * (u - 1)
<1> DEFINE n == (2 * a + b) \div (2 * b)
           r == (2 * a + b) % (2 * b)
           p == b * u
           k == n * p
           v == a * u
           m == n * (2 * b)
<1>1. n \in Nat /\ r \in Nat /\ r < 2 * b /\ 2 * a + b = m + r
  BY QuotientExact
<1> HIDE DEF n, r
<1>2. p \in Nat /\ k \in Nat /\ v \in Nat /\ m \in Nat
  BY <1>1
<1>3. /\ (n + 1) * b * u = k + p /\ (n - 1) * b * u = k - p
      /\ a * (u + 1) = v + a /\ a * (u - 1) = v - a
  BY <1>1
<1>4. m * u = 2 * k
  BY <1>1
<1>5. 2 * v + p < 2 * k + 2 * p /\ 2 * k <= 2 * v + p
  <2>1. 2 * a + b < m + 2 * b /\ m <= 2 * a + b
    BY <1>1, <1>2
  <2> HIDE DEF m
  <2>2. (2 * a + b) * u < (m + 2 * b) * u /\ m * u <= (2 * a + b) * u
    BY <1>2, <2>1
  <2>3. (2 * a + b) * u = 2 * v + p /\ (m + 2 * b) * u = m * u + 2 * p
    BY <1>2
  <2> HIDE DEF v, p, k
  <2> QED
    BY <1>2, <1>4, <2>2, <2>3
<1>6. 2 * a <= p
  OBVIOUS
<1> DEFINE A == a * (u + 1)
           B == (n + 1) * b * u
           C == (n - 1) * b * u
           D == a * (u - 1)
<1>7. A = v + a /\ B = k + p /\ C = k - p /\ D = v - a
  BY <1>3
<1> HIDE DEF p, k, v, m, A, B, C, D
<1>8. A < B /\ C <= D
  BY <1>2, <1>5, <1>6, <1>7
<1> QED
  BY <1>1, <1>8 DEF n, A, B, C, D

=============================================================================
