---------------------------- MODULE MatrixProofs ----------------------------
(***************************************************************************)
(* InvertedMatrix returns inverses, and so does GetInverse for pivots that *)
(* come in order; products, cross products and rotations are right:        *)
(* matrices of every size, every field of remainders.                      *)
(* The argument for inverses: what an operation makes of a row is a        *)
(* combination of two rows; sums are linear, so the companion, which takes *)
(* the operations too, times the original stays the matrix; and the matrix *)
(* takes the form of the unit matrix column by column.  The rest are       *)
(* identities of polynomials, modulo the prime.                            *)
(***************************************************************************)
EXTENDS RowReduction, Sequences, WellFoundedInduction, TLAPS

-----------------------------------------------------------------------------
(* Remainders                                                              *)

\* Equal modulo p.
Same(a, b, p) == \E q \in Int : a = b + q * p

\* A number and its remainder are the same modulo p.
LEMMA ModIs ==
  ASSUME NEW a \in Int, NEW p \in Nat \ {0}
  PROVE  a % p \in 0..p - 1 /\ Same(a, a % p, p)
<1>1. a = p * (a \div p) + (a % p) /\ a % p \in 0..p - 1 /\ a \div p \in Int
  OBVIOUS
<1>2. PICK q \in Int : q = a \div p
  BY <1>1
<1>3. a = (a % p) + q * p
  BY <1>1, <1>2
<1> QED
  BY <1>1, <1>2, <1>3 DEF Same

\* Two remainders that are the same modulo p are equal.
LEMMA SmallSame ==
  ASSUME NEW p \in Nat \ {0}, NEW a \in 0..p - 1, NEW b \in 0..p - 1, Same(a, b, p)
  PROVE  a = b
<1>1. PICK q \in Int : a = b + q * p
  BY DEF Same
<1>2. q = 0
  <2>1. CASE q >= 1
    <3>1. q * p >= p
      BY <2>1
    <3> QED
      BY <1>1, <3>1
  <2>2. CASE q <= -1
    <3>1. q * p <= -p
      BY <2>2
    <3> QED
      BY <1>1, <3>1
  <2> QED
    BY <2>1, <2>2
<1> QED
  BY <1>1, <1>2

\* Being the same modulo p is reflexive,
LEMMA SameRefl ==
  ASSUME NEW a \in Int, NEW p \in Nat \ {0}
  PROVE  Same(a, a, p)
<1>1. a = a + 0 * p
  OBVIOUS
<1> QED
  BY <1>1 DEF Same

\* symmetric
LEMMA SameSym ==
  ASSUME NEW a \in Int, NEW b \in Int, NEW p \in Nat \ {0}, Same(a, b, p)
  PROVE  Same(b, a, p)
<1>1. PICK q \in Int : a = b + q * p
  BY DEF Same
<1>2. b = a + (-q) * p
  BY <1>1
<1> QED
  BY <1>2 DEF Same

\* and transitive.
LEMMA SameTrans ==
  ASSUME NEW a \in Int, NEW b \in Int, NEW c \in Int, NEW p \in Nat \ {0},
         Same(a, b, p), Same(b, c, p)
  PROVE  Same(a, c, p)
<1>1. PICK q \in Int : a = b + q * p
  BY DEF Same
<1>2. PICK r \in Int : b = c + r * p
  BY DEF Same
<1>3. PICK s \in Int : s = q + r
  OBVIOUS
<1>4. a = c + s * p
  BY <1>1, <1>2, <1>3
<1> QED
  BY <1>4 DEF Same

\* Sums of the same are the same,
LEMMA SamePlus ==
  ASSUME NEW a \in Int, NEW b \in Int, NEW c \in Int, NEW d \in Int, NEW p \in Nat \ {0},
         Same(a, b, p), Same(c, d, p)
  PROVE  Same(a + c, b + d, p)
<1>1. PICK q \in Int : a = b + q * p
  BY DEF Same
<1>2. PICK r \in Int : c = d + r * p
  BY DEF Same
<1>3. PICK s \in Int : s = q + r
  OBVIOUS
<1>4. a + c = b + d + s * p
  BY <1>1, <1>2, <1>3
<1> QED
  BY <1>4 DEF Same

\* and so are products.
LEMMA SameTimes ==
  ASSUME NEW a \in Int, NEW b \in Int, NEW c \in Int, NEW d \in Int, NEW p \in Nat \ {0},
         Same(a, b, p), Same(c, d, p)
  PROVE  Same(a * c, b * d, p)
<1>1. PICK q \in Int : a = b + q * p
  BY DEF Same
<1>2. PICK r \in Int : c = d + r * p
  BY DEF Same
<1>3. a * c = b * d + (q * d + r * b + q * r * p) * p
  BY <1>1, <1>2
<1>4. q * d + r * b + q * r * p \in Int
  OBVIOUS
<1> QED
  BY <1>3, <1>4 DEF Same

\* The remainders are equal when the numbers are the same modulo p.
LEMMA ModSame ==
  ASSUME NEW a \in Int, NEW b \in Int, NEW p \in Nat \ {0}
  PROVE  a % p = b % p <=> Same(a, b, p)
<1>1. /\ a % p \in 0..p - 1 /\ b % p \in 0..p - 1
      /\ Same(a, a % p, p) /\ Same(b, b % p, p)
  BY ModIs
<1>2. ASSUME a % p = b % p PROVE Same(a, b, p)
  <2>1. a % p \in Int /\ b % p \in Int
    BY <1>1
  <2>2. Same(b % p, b, p)
    BY <1>1, <2>1, SameSym
  <2> QED
    BY <1>1, <1>2, <2>1, <2>2, SameTrans
<1>3. ASSUME Same(a, b, p) PROVE a % p = b % p
  <2>1. a % p \in Int /\ b % p \in Int
    BY <1>1
  <2>2. Same(a % p, a, p)
    BY <1>1, <2>1, SameSym
  <2>3. Same(a % p, b % p, p)
    BY <1>1, <1>3, <2>1, <2>2, SameTrans
  <2> QED
    BY <1>1, <2>3, SmallSame
<1> QED
  BY <1>2, <1>3

-----------------------------------------------------------------------------
(* Sums and products                                                       *)

\* t holds the partial sums of f.
Adds(t, f, n) ==
  t \in [0..n -> Int] /\ t[0] = 0 /\ \A k \in 1..n : t[k] = t[k - 1] + f[k]

\* A set of numbers that is not empty has a least one.
LEMMA LeastOf ==
  ASSUME NEW S \in SUBSET Nat, S # {}
  PROVE  \E n \in S : \A m \in S : n <= m
<1>1. \E n \in S : \A m \in S : ~ (<<m, n>> \in OpToRel(<, Nat))
  BY NatLessThanWellFounded, WFMin, Zenon
<1>2. \A n, m \in Nat : m < n => <<m, n>> \in OpToRel(<, Nat)
  BY Zenon DEF OpToRel
<1>3. PICK n \in S : \A m \in S : ~ (m < n)
  BY <1>1, <1>2
<1>4. \A m \in S : n <= m
  BY <1>3
<1> QED
  BY <1>4

\* A set with 0, and with the successor of each of its members, has every number.
LEMMA FromZero ==
  ASSUME NEW T \in SUBSET Nat, 0 \in T, \A n \in Nat : n \in T => n + 1 \in T
  PROVE  T = Nat
<1> SUFFICES ASSUME T # Nat PROVE FALSE
  OBVIOUS
<1>1. PICK n \in Nat \ T : \A m \in Nat \ T : n <= m
  BY LeastOf
<1>2. n - 1 \in Nat /\ n - 1 \in T
  BY <1>1
<1> QED
  BY <1>1, <1>2

\* t[k] is step[k] of t[k - 1].
Iterates(t, a, step, n) ==
  t \in [0..n -> Int] /\ t[0] = a /\ \A k \in 1..n : t[k] = step[k][t[k - 1]]

\* Such a t exists.
LEMMA IteratesExists ==
  ASSUME NEW n \in Nat, NEW a \in Int, NEW step \in [1..n -> [Int -> Int]]
  PROVE  \E t : Iterates(t, a, step, n)
<1> DEFINE T == {m \in Nat : m <= n => \E t : Iterates(t, a, step, m)}
<1>1. 0 \in T
  <2>1. PICK t : t = [k \in 0..0 |-> a]
    OBVIOUS
  <2>2. Iterates(t, a, step, 0)
    BY <2>1 DEF Iterates
  <2> QED
    BY <2>2
<1>2. ASSUME NEW m \in Nat, m \in T PROVE m + 1 \in T
  <2>1. CASE m + 1 <= n
    <3>1. PICK t : Iterates(t, a, step, m)
      BY <1>2, <2>1
    <3>2. PICK u : u = [k \in 0..m + 1 |-> IF k = m + 1 THEN step[m + 1][t[m]] ELSE t[k]]
      OBVIOUS
    <3>3. m + 1 \in 1..n /\ \A k \in 0..m : t[k] \in Int
      BY <2>1, <3>1 DEF Iterates
    <3>4. step[m + 1] \in [Int -> Int] /\ t[m] \in Int
      BY <3>3
    <3>5. step[m + 1][t[m]] \in Int
      BY <3>4
    <3>6. u \in [0..m + 1 -> Int]
      BY <3>2, <3>3, <3>5
    <3>7. \A k \in 0..m : u[k] = t[k]
      BY <3>2
    <3>8. u[m + 1] = step[m + 1][u[m]]
      BY <3>2, <3>7
    <3>9. \A k \in 1..m : u[k] = step[k][u[k - 1]]
      <4>1. \A k \in 1..m : t[k] = step[k][t[k - 1]]
        BY <3>1 DEF Iterates
      <4>2. \A k \in 1..m : k \in 0..m /\ k - 1 \in 0..m
        OBVIOUS
      <4>3. \A k \in 1..m : u[k] = t[k] /\ u[k - 1] = t[k - 1]
        BY <3>7, <4>2
      <4> QED
        BY <4>1, <4>3
    <3>10. u[0] = a
      BY <3>1, <3>7 DEF Iterates
    <3>11. \A k \in 1..m + 1 : k = m + 1 \/ k \in 1..m
      OBVIOUS
    <3>12. (m + 1) - 1 = m
      OBVIOUS
    <3>13. \A k \in 1..m + 1 : u[k] = step[k][u[k - 1]]
      BY <3>8, <3>9, <3>11, <3>12, Zenon
    <3>14. Iterates(u, a, step, m + 1)
      BY <3>6, <3>10, <3>13, Zenon DEF Iterates
    <3> QED
      BY <3>14
  <2>2. CASE ~ (m + 1 <= n)
    BY <2>2
  <2> QED
    BY <2>1, <2>2
<1>3. T \in SUBSET Nat
  OBVIOUS
<1> HIDE DEF T
<1>4. n \in T
  BY <1>1, <1>2, <1>3, FromZero
<1> QED
  BY <1>4 DEF T

\* The partial sums of a function exist.
LEMMA AddsExists ==
  ASSUME NEW n \in Nat, NEW f \in [1..n -> Int]
  PROVE  \E t : Adds(t, f, n)
<1>1. PICK step : step = [k \in 1..n |-> [u \in Int |-> u + f[k]]]
  OBVIOUS
<1>2. step \in [1..n -> [Int -> Int]]
  BY <1>1
<1>3. PICK t : Iterates(t, 0, step, n)
  <2>1. 0 \in Int
    OBVIOUS
  <2> QED
    BY <1>2, <2>1, IteratesExists, Zenon
<1>4. \A k \in 1..n : k - 1 \in 0..n
  OBVIOUS
<1>5. Adds(t, f, n)
  BY <1>1, <1>3, <1>4 DEF Iterates, Adds
<1> QED
  BY <1>5

\* SumTo is the last of them.
LEMMA SumIs ==
  ASSUME NEW n \in Nat, NEW f \in [1..n -> Int]
  PROVE  \E t : Adds(t, f, n) /\ SumTo(f, n) = t[n]
<1> DEFINE Is(g) == g = [k \in 0..n |-> IF k = 0 THEN 0 ELSE g[k - 1] + f[k]]
<1>1. PICK t : Adds(t, f, n)
  BY AddsExists
<1>2. Is(t)
  BY <1>1 DEF Adds
<1>3. PICK g : g = CHOOSE h : Is(h)
  OBVIOUS
<1>4. Is(g)
  BY <1>2, <1>3, Zenon
<1>5. SumTo(f, n) = g[n]
  BY <1>3, Zenon DEF SumTo
<1> HIDE DEF Is
<1>6. g[n] = t[n]
  <2> DEFINE T == {k \in Nat : k <= n => g[k] = t[k]}
  <2>1. /\ n \in Nat /\ g[0] = 0
        /\ \A k \in 1..n : g[k] = g[k - 1] + f[k]
    BY <1>4 DEF Is
  <2>2. /\ t[0] = 0
        /\ \A k \in 1..n : t[k] = t[k - 1] + f[k]
    BY <1>1 DEF Adds
  <2>3. 0 \in T /\ T \in SUBSET Nat
    BY <2>1, <2>2
  <2>4. ASSUME NEW k \in Nat, k \in T PROVE k + 1 \in T
    <3>1. CASE k + 1 <= n
      <4>1. k + 1 \in 1..n /\ (k + 1) - 1 = k /\ g[k] = t[k]
        BY <2>4, <3>1
      <4> QED
        BY <2>1, <2>2, <4>1
    <3>2. CASE ~ (k + 1 <= n)
      BY <3>2
    <3> QED
      BY <3>1, <3>2
  <2> HIDE DEF T
  <2>5. n \in T
    BY <2>3, <2>4, FromZero
  <2> QED
    BY <2>5 DEF T
<1> QED
  BY <1>1, <1>5, <1>6

\* Two combinations with the same coefficients are added.
LEMMA OneMore ==
  ASSUME NEW p \in Nat \ {0}, NEW x \in Int, NEW y \in Int, NEW a \in Int, NEW b \in Int,
         NEW c \in Int, NEW d \in Int, NEW e \in Int, NEW g \in Int,
         Same(a, x * b + y * c, p), Same(d, x * e + y * g, p)
  PROVE  Same(a + d, x * (b + e) + y * (c + g), p)
<1>1. PICK u \in Int : u = x * b + y * c
  OBVIOUS
<1>2. PICK v \in Int : v = x * e + y * g
  OBVIOUS
<1>3. Same(a + d, u + v, p)
  BY <1>1, <1>2, SamePlus
<1>4. u + v = x * (b + e) + y * (c + g)
  BY <1>1, <1>2
<1> QED
  BY <1>3, <1>4

\* A sum whose terms are combinations is the combination of the sums.
LEMMA SumLinear ==
  ASSUME NEW p \in Nat \ {0}, NEW n \in Nat, NEW f \in [1..n -> Int],
         NEW g \in [1..n -> Int], NEW h \in [1..n -> Int], NEW x \in Int, NEW y \in Int,
         \A k \in 1..n : Same(f[k], x * g[k] + y * h[k], p)
  PROVE  /\ SumTo(f, n) \in Int /\ SumTo(g, n) \in Int /\ SumTo(h, n) \in Int
         /\ Same(SumTo(f, n), x * SumTo(g, n) + y * SumTo(h, n), p)
<1>1. PICK F : Adds(F, f, n) /\ SumTo(f, n) = F[n]
  BY SumIs
<1>2. PICK G : Adds(G, g, n) /\ SumTo(g, n) = G[n]
  BY SumIs
<1>3. PICK H : Adds(H, h, n) /\ SumTo(h, n) = H[n]
  BY SumIs
<1>4. \A k \in 0..n : F[k] \in Int /\ G[k] \in Int /\ H[k] \in Int
  BY <1>1, <1>2, <1>3 DEF Adds
<1> DEFINE T == {k \in Nat : k <= n => Same(F[k], x * G[k] + y * H[k], p)}
<1>5. 0 \in T /\ T \in SUBSET Nat
  <2>1. F[0] = 0 /\ G[0] = 0 /\ H[0] = 0
    BY <1>1, <1>2, <1>3 DEF Adds
  <2>2. F[0] = x * G[0] + y * H[0]
    BY <2>1
  <2> QED
    BY <2>1, <2>2, SameRefl
<1>6. ASSUME NEW k \in Nat, k \in T PROVE k + 1 \in T
  <2>1. CASE k + 1 <= n
    <3>1. Same(F[k], x * G[k] + y * H[k], p)
      BY <1>6, <2>1
    <3>2. k + 1 \in 1..n /\ (k + 1) - 1 = k /\ k \in 0..n
      BY <2>1
    <3>3. Same(f[k + 1], x * g[k + 1] + y * h[k + 1], p)
      BY <3>2
    <3>4. /\ F[k + 1] = F[k] + f[k + 1] /\ G[k + 1] = G[k] + g[k + 1]
          /\ H[k + 1] = H[k] + h[k + 1]
      BY <1>1, <1>2, <1>3, <3>2 DEF Adds
    <3>5. /\ F[k] \in Int /\ G[k] \in Int /\ H[k] \in Int
          /\ f[k + 1] \in Int /\ g[k + 1] \in Int /\ h[k + 1] \in Int
      BY <1>4, <3>2
    <3>6. Same(F[k] + f[k + 1],
               x * (G[k] + g[k + 1]) + y * (H[k] + h[k + 1]), p)
      BY <3>1, <3>3, <3>5, OneMore
    <3>7. Same(F[k + 1], x * G[k + 1] + y * H[k + 1], p)
      BY <3>4, <3>6, Zenon
    <3> QED
      BY <3>7
  <2>2. CASE ~ (k + 1 <= n)
    BY <2>2
  <2> QED
    BY <2>1, <2>2
<1> HIDE DEF T
<1>7. n \in T
  BY <1>5, <1>6, FromZero
<1>8. Same(F[n], x * G[n] + y * H[n], p)
  BY <1>7 DEF T
<1> QED
  BY <1>1, <1>2, <1>3, <1>4, <1>8

\* A sum with one term is that term.
LEMMA SumOne ==
  ASSUME NEW n \in Nat, NEW f \in [1..n -> Int], NEW i \in 1..n,
         \A k \in 1..n : k # i => f[k] = 0
  PROVE  SumTo(f, n) = f[i]
<1>1. PICK F : Adds(F, f, n) /\ SumTo(f, n) = F[n]
  BY SumIs
<1> DEFINE T == {k \in Nat : k <= n => F[k] = IF k < i THEN 0 ELSE f[i]}
<1>2. 0 \in T /\ T \in SUBSET Nat
  BY <1>1 DEF Adds
<1>3. ASSUME NEW k \in Nat, k \in T PROVE k + 1 \in T
  <2>1. CASE k + 1 <= n
    <3>1. k + 1 \in 1..n /\ (k + 1) - 1 = k /\ F[k + 1] = F[k] + f[k + 1]
      BY <1>1, <2>1 DEF Adds
    <3>2. F[k] = IF k < i THEN 0 ELSE f[i]
      BY <1>3, <2>1
    <3>3. f[i] \in Int /\ (k + 1 # i => f[k + 1] = 0)
      BY <3>1
    <3> QED
      BY <3>1, <3>2, <3>3
  <2>2. CASE ~ (k + 1 <= n)
    BY <2>2
  <2> QED
    BY <2>1, <2>2
<1> HIDE DEF T
<1>4. n \in T
  BY <1>2, <1>3, FromZero
<1> QED
  BY <1>1, <1>4 DEF T

\* t holds the partial products of f.
Multiplies(t, f, n) ==
  t \in [0..n -> Int] /\ t[0] = 1 /\ \A k \in 1..n : t[k] = t[k - 1] * f[k]

\* The partial products of a function exist.
LEMMA MultipliesExists ==
  ASSUME NEW n \in Nat, NEW f \in [1..n -> Int]
  PROVE  \E t : Multiplies(t, f, n)
<1>1. PICK step : step = [k \in 1..n |-> [u \in Int |-> u * f[k]]]
  OBVIOUS
<1>2. step \in [1..n -> [Int -> Int]]
  BY <1>1
<1>3. PICK t : Iterates(t, 1, step, n)
  <2>1. 1 \in Int
    OBVIOUS
  <2> QED
    BY <1>2, <2>1, IteratesExists, Zenon
<1>4. \A k \in 1..n : k - 1 \in 0..n
  OBVIOUS
<1>5. Multiplies(t, f, n)
  BY <1>1, <1>3, <1>4 DEF Iterates, Multiplies
<1> QED
  BY <1>5

\* A product with a factor 0 is 0.
LEMMA ProductZero ==
  ASSUME NEW n \in Nat, NEW f \in [1..n -> Int], NEW i \in 1..n, f[i] = 0
  PROVE  ProductTo(f, n) = 0
<1> DEFINE Is(g) == g = [k \in 0..n |-> IF k = 0 THEN 1 ELSE g[k - 1] * f[k]]
<1>1. PICK t : Multiplies(t, f, n)
  BY MultipliesExists
<1>2. Is(t)
  BY <1>1 DEF Multiplies
<1>3. PICK g : g = CHOOSE h : Is(h)
  OBVIOUS
<1>4. Is(g)
  BY <1>2, <1>3, Zenon
<1>5. ProductTo(f, n) = g[n]
  BY <1>3, Zenon DEF ProductTo
<1> HIDE DEF Is
<1>6. g[0] = 1 /\ \A k \in 1..n : g[k] = g[k - 1] * f[k]
  BY <1>4 DEF Is
<1> DEFINE T == {k \in Nat : k <= n => g[k] \in Int /\ (i <= k => g[k] = 0)}
<1>7. 0 \in T /\ T \in SUBSET Nat
  BY <1>6
<1>8. ASSUME NEW k \in Nat, k \in T PROVE k + 1 \in T
  <2>1. CASE k + 1 <= n
    <3>1. k + 1 \in 1..n /\ (k + 1) - 1 = k
      BY <2>1
    <3>2. g[k + 1] = g[k] * f[k + 1] /\ f[k + 1] \in Int
      BY <1>6, <3>1
    <3>3. g[k] \in Int /\ (i <= k => g[k] = 0)
      BY <1>8, <2>1
    <3>4. CASE i = k + 1
      BY <3>2, <3>3, <3>4
    <3>5. CASE i # k + 1
      BY <3>2, <3>3, <3>5
    <3> QED
      BY <3>4, <3>5
  <2>2. CASE ~ (k + 1 <= n)
    BY <2>2
  <2> QED
    BY <2>1, <2>2
<1> HIDE DEF T
<1>9. n \in T
  BY <1>7, <1>8, FromZero
<1> QED
  BY <1>5, <1>9 DEF T

-----------------------------------------------------------------------------
(* Rows                                                                    *)

\* What a matrix may hold.
Elements == 0..shape.prime - 1
SquareMatrices == [Rows -> [Rows -> Elements]]

\* The elements of the matrix are those of a field.
Sound ==
  /\ shape.rows \in Nat \ {0} /\ shape.prime \in Nat \ {0, 1}
  /\ Divides(shape.prime)

\* A row times a column.
RowTimes(v, b, j) == SumTo([k \in Rows |-> v[k] * b[k][j]], shape.rows)

\* What a row becomes is a combination of two.
Combines(v, x, v1, y, v2) ==
  \A k \in Rows : Same(v[k], x * v1[k] + y * v2[k], shape.prime)

\* Mod gives an element, the one that is the same modulo the prime.
LEMMA ElementsAre ==
  ASSUME Sound, NEW a \in Int
  PROVE  /\ Mod(a) \in Elements /\ Same(a, Mod(a), shape.prime) /\ Same(Mod(a), a, shape.prime)
         /\ a \in Elements => Mod(a) = a
<1>1. shape.prime \in Nat \ {0}
  BY DEF Sound
<1>2. a % shape.prime \in Elements /\ Same(a, a % shape.prime, shape.prime)
  BY <1>1, ModIs DEF Elements
<1>3. a % shape.prime \in Int
  BY <1>1, <1>2 DEF Elements
<1>4. Same(a % shape.prime, a, shape.prime)
  BY <1>1, <1>2, <1>3, SameSym
<1>5. a \in Elements => a % shape.prime = a
  BY <1>1, <1>2, SmallSame DEF Elements
<1> QED
  BY <1>2, <1>4, <1>5 DEF Mod

\* Elements that are the same modulo the prime are equal.
LEMMA ElementsSame ==
  ASSUME Sound, NEW a \in Elements, NEW b \in Elements, Same(a, b, shape.prime)
  PROVE  a = b
  BY SmallSame DEF Sound, Elements

\* Elements are numbers, and 0 and 1 are elements.
LEMMA ElementsInt ==
  ASSUME Sound
  PROVE  Elements \subseteq Int /\ 0 \in Elements /\ 1 \in Elements
  BY DEF Sound, Elements

\* The product of a column with a combination of rows is that of the products.
LEMMA RowLinear ==
  ASSUME Sound, NEW b \in SquareMatrices, NEW v \in [Rows -> Elements],
         NEW v1 \in [Rows -> Elements], NEW v2 \in [Rows -> Elements],
         NEW x \in Int, NEW y \in Int, Combines(v, x, v1, y, v2), NEW j \in Rows
  PROVE  /\ RowTimes(v, b, j) \in Int /\ RowTimes(v1, b, j) \in Int /\ RowTimes(v2, b, j) \in Int
         /\ Same(RowTimes(v, b, j), x * RowTimes(v1, b, j) + y * RowTimes(v2, b, j), shape.prime)
<1> DEFINE f == [k \in Rows |-> v[k] * b[k][j]]
           g == [k \in Rows |-> v1[k] * b[k][j]]
           h == [k \in Rows |-> v2[k] * b[k][j]]
<1>1. Rows = 1..shape.rows /\ shape.rows \in Nat /\ shape.prime \in Nat \ {0}
  BY DEF Rows, Sound
<1>2. \A k \in Rows : v[k] \in Int /\ v1[k] \in Int /\ v2[k] \in Int /\ b[k][j] \in Int
  BY ElementsInt DEF SquareMatrices
<1>3. f \in [1..shape.rows -> Int] /\ g \in [1..shape.rows -> Int] /\ h \in [1..shape.rows -> Int]
  <2>1. \A c, d \in Int : c * d \in Int
    OBVIOUS
  <2>2. \A k \in Rows : /\ v[k] * b[k][j] \in Int /\ v1[k] * b[k][j] \in Int
                        /\ v2[k] * b[k][j] \in Int
    BY <1>2, <2>1, Zenon
  <2>3. f \in [Rows -> Int] /\ g \in [Rows -> Int] /\ h \in [Rows -> Int]
    BY <2>2, Zenon
  <2> QED
    BY <1>1, <2>3, Zenon
<1>4. ASSUME NEW k \in 1..shape.rows PROVE Same(f[k], x * g[k] + y * h[k], shape.prime)
  <2>1. k \in Rows
    BY <1>1
  <2>2. PICK d \in Int : d = b[k][j]
    BY <1>2, <2>1
  <2>3. Same(v[k], x * v1[k] + y * v2[k], shape.prime)
    BY <2>1 DEF Combines
  <2>4. x * v1[k] + y * v2[k] \in Int /\ v[k] \in Int /\ v1[k] \in Int /\ v2[k] \in Int
    BY <1>2, <2>1
  <2>5. Same(v[k] * d, (x * v1[k] + y * v2[k]) * d, shape.prime)
    BY <1>1, <2>3, <2>4, SameTimes, SameRefl
  <2>6. (x * v1[k] + y * v2[k]) * d = x * (v1[k] * d) + y * (v2[k] * d)
    BY <2>4
  <2>7. f[k] = v[k] * d /\ g[k] = v1[k] * d /\ h[k] = v2[k] * d
    BY <2>1, <2>2
  <2> QED
    BY <2>5, <2>6, <2>7
<1>5. /\ RowTimes(v, b, j) = SumTo(f, shape.rows) /\ RowTimes(v1, b, j) = SumTo(g, shape.rows)
      /\ RowTimes(v2, b, j) = SumTo(h, shape.rows)
  BY DEF RowTimes
<1> HIDE DEF f, g, h
<1>6. /\ SumTo(f, shape.rows) \in Int /\ SumTo(g, shape.rows) \in Int
      /\ SumTo(h, shape.rows) \in Int
      /\ Same(SumTo(f, shape.rows), x * SumTo(g, shape.rows) + y * SumTo(h, shape.rows),
              shape.prime)
  BY <1>1, <1>3, <1>4, SumLinear
<1> QED
  BY <1>5, <1>6, Zenon

\* A product has elements, each that of a row and a column.
LEMMA ProductIs ==
  ASSUME Sound, NEW a \in SquareMatrices, NEW b \in SquareMatrices
  PROVE  /\ Product(a, b) \in SquareMatrices
         /\ \A i, j \in Rows : /\ RowTimes(a[i], b, j) \in Int
                               /\ Same(Product(a, b)[i][j], RowTimes(a[i], b, j), shape.prime)
<1>1. ASSUME NEW i \in Rows, NEW j \in Rows PROVE RowTimes(a[i], b, j) \in Int
  <2>1. a[i] \in [Rows -> Elements]
    BY DEF SquareMatrices
  <2>2. PICK f : f = [k \in Rows |-> a[i][k] * b[k][j]]
    OBVIOUS
  <2>3. \A k \in Rows : a[i][k] \in Int /\ b[k][j] \in Int
    BY <2>1, ElementsInt DEF SquareMatrices
  <2>6. Rows = 1..shape.rows
    BY DEF Rows
  <2>7. f \in [1..shape.rows -> Int]
    BY <2>2, <2>3, <2>6
  <2>4. PICK F : Adds(F, f, shape.rows) /\ SumTo(f, shape.rows) = F[shape.rows]
    BY <2>7, SumIs DEF Sound
  <2>5. F[shape.rows] \in Int
    BY <2>4 DEF Adds, Sound
  <2> QED
    BY <2>2, <2>4, <2>5 DEF RowTimes
<1>2. Product(a, b) = [i \in Rows |-> [j \in Rows |-> Mod(RowTimes(a[i], b, j))]]
  BY DEF Product, RowTimes
<1>3. \A i, j \in Rows : Product(a, b)[i][j] = Mod(RowTimes(a[i], b, j))
  BY <1>2
<1>4. Product(a, b) \in SquareMatrices
  BY <1>1, <1>2, ElementsAre DEF SquareMatrices
<1> QED
  BY <1>1, <1>3, <1>4, ElementsAre

\* Two rows combined are multiplied to the combination of their products.
LEMMA RowsCombine ==
  ASSUME Sound, NEW a \in SquareMatrices, NEW b \in SquareMatrices, NEW c \in SquareMatrices,
         NEW i \in Rows, NEW r \in Rows, NEW s \in Rows, NEW x \in Int, NEW y \in Int,
         Combines(c[i], x, a[r], y, a[s])
  PROVE  Combines(Product(c, b)[i], x, Product(a, b)[r], y, Product(a, b)[s])
<1>1. shape.prime \in Nat \ {0}
  BY DEF Sound
<1> SUFFICES ASSUME NEW j \in Rows
             PROVE  Same(Product(c, b)[i][j], x * Product(a, b)[r][j] + y * Product(a, b)[s][j],
                         shape.prime)
  BY DEF Combines
<1>2. PICK u : u = RowTimes(c[i], b, j)
  OBVIOUS
<1>3. PICK v : v = RowTimes(a[r], b, j)
  OBVIOUS
<1>4. PICK w : w = RowTimes(a[s], b, j)
  OBVIOUS
<1>5. PICK e : e = Product(c, b)[i][j]
  OBVIOUS
<1>6. PICK f : f = Product(a, b)[r][j]
  OBVIOUS
<1>7. PICK g : g = Product(a, b)[s][j]
  OBVIOUS
<1>8. c[i] \in [Rows -> Elements] /\ a[r] \in [Rows -> Elements] /\ a[s] \in [Rows -> Elements]
  BY DEF SquareMatrices
<1>9. u \in Int /\ v \in Int /\ w \in Int /\ Same(u, x * v + y * w, shape.prime)
  BY <1>2, <1>3, <1>4, <1>8, RowLinear
<1>10. e \in Elements /\ f \in Elements /\ g \in Elements
  <2>1. Product(c, b) \in SquareMatrices /\ Product(a, b) \in SquareMatrices
    BY ProductIs
  <2> QED
    BY <1>5, <1>6, <1>7, <2>1 DEF SquareMatrices
<1>11. Same(e, u, shape.prime) /\ Same(f, v, shape.prime) /\ Same(g, w, shape.prime)
  BY <1>2, <1>3, <1>4, <1>5, <1>6, <1>7, ProductIs
<1>12. e \in Int /\ f \in Int /\ g \in Int
  BY <1>10, ElementsInt
<1>13. Same(v, f, shape.prime) /\ Same(w, g, shape.prime)
  BY <1>1, <1>9, <1>11, <1>12, SameSym
<1>14. Same(x * v + y * w, x * f + y * g, shape.prime)
  <2>1. Same(x * v, x * f, shape.prime)
    BY <1>1, <1>9, <1>12, <1>13, SameTimes, SameRefl
  <2>2. Same(y * w, y * g, shape.prime)
    BY <1>1, <1>9, <1>12, <1>13, SameTimes, SameRefl
  <2>3. x * v \in Int /\ x * f \in Int /\ y * w \in Int /\ y * g \in Int
    BY <1>9, <1>12
  <2> QED
    BY <1>1, <2>1, <2>2, <2>3, SamePlus
<1>15. x * v + y * w \in Int /\ x * f + y * g \in Int
  BY <1>9, <1>12
<1>16. Same(e, x * f + y * g, shape.prime)
  BY <1>1, <1>9, <1>11, <1>12, <1>14, <1>15, SameTrans
<1> QED
  BY <1>5, <1>6, <1>7, <1>16

-----------------------------------------------------------------------------
(* Quotients                                                               *)

\* If e is the inverse of b, then e * a is the quotient of a and b.
LEMMA InverseTimes ==
  ASSUME NEW p \in Nat \ {0}, NEW e \in Int, NEW b \in Int, NEW a \in Int,
         Same(e * b, 1, p)
  PROVE  Same((e * a) * b, a, p)
<1>1. Same((e * b) * a, 1 * a, p)
  BY SameTimes, SameRefl
<1>2. (e * b) * a = (e * a) * b /\ 1 * a = a
  OBVIOUS
<1> QED
  BY <1>1, <1>2

\* A quotient is the product with the inverse, one for every dividend.
LEMMA QuotientIs ==
  ASSUME Sound, NEW b \in Elements \ {0}
  PROVE  \E e \in Elements :
           \A a \in Elements : /\ Quotient(a, b) \in Elements
                               /\ Same(Quotient(a, b), e * a, shape.prime)
                               /\ Same(Quotient(a, b) * b, a, shape.prime)
<1>1. PICK p \in Nat \ {0} : p = shape.prime
  BY DEF Sound
<1>2. b \in 1..p - 1 /\ b \in Int /\ Elements \subseteq Int /\ 1 \in Elements
  BY <1>1, ElementsInt DEF Elements
<1>3. PICK e \in Elements : (e * b) % p = 1
  BY <1>1, <1>2 DEF Sound, Divides, Elements
<1>4. e \in Int /\ e * b \in Int
  BY <1>2, <1>3
<1>5. Same(e * b, 1, p)
  BY <1>3, <1>4, ModIs
<1>6. ASSUME NEW a \in Elements
      PROVE  /\ Quotient(a, b) \in Elements
             /\ Same(Quotient(a, b), e * a, p)
             /\ Same(Quotient(a, b) * b, a, p)
  <2>1. a \in Int /\ e * a \in Int
    BY <1>2, <1>4
  <2>2. PICK t \in Elements : t = Mod(e * a)
    BY <2>1, ElementsAre
  <2>3. Same(t, e * a, p) /\ t \in Int
    BY <1>1, <1>2, <2>1, <2>2, ElementsAre
  <2>4. Same(t * b, (e * a) * b, p)
    BY <1>2, <2>1, <2>3, SameTimes, SameRefl
  <2>5. Same((e * a) * b, a, p)
    BY <1>2, <1>4, <1>5, <2>1, InverseTimes
  <2>6. t * b \in Int /\ (e * a) * b \in Int
    BY <1>2, <2>1, <2>3
  <2>7. Same(t * b, a, p)
    BY <2>1, <2>4, <2>5, <2>6, SameTrans
  <2>8. (t * b) % p = a % p
    BY <2>1, <2>6, <2>7, ModSame
  <2>9. Mod(t * b) = a
    <3>1. Mod(a) = a
      BY <2>1, ElementsAre
    <3> QED
      BY <1>1, <2>8, <3>1 DEF Mod
  <2>10. PICK q : q = Quotient(a, b)
    OBVIOUS
  <2>11. q \in Elements /\ Mod(q * b) = a
    BY <2>9, <2>10, Zenon DEF Quotient, Elements
  <2>12. q \in Int /\ q * b \in Int
    BY <1>2, <2>11
  <2>13. Same(q * b, a, p)
    BY <1>1, <2>11, <2>12, ElementsAre
  <2>14. Same(e * (q * b), e * a, p)
    BY <1>4, <2>1, <2>12, <2>13, SameTimes, SameRefl
  <2>15. Same((e * q) * b, q, p)
    BY <1>2, <1>4, <1>5, <2>12, InverseTimes
  <2>16. (e * q) * b = e * (q * b) /\ e * (q * b) \in Int
    BY <1>2, <1>4, <2>12
  <2>17. Same(q, e * (q * b), p)
    BY <2>12, <2>15, <2>16, SameSym
  <2>18. Same(q, e * a, p)
    BY <2>1, <2>12, <2>14, <2>16, <2>17, SameTrans
  <2> QED
    BY <2>10, <2>11, <2>13, <2>18
<1> QED
  BY <1>1, <1>3, <1>6

\* A quotient, and what subtracting a multiple of a row leaves of an element.
LEMMA QuotientsAre ==
  ASSUME Sound, NEW a \in Elements, NEW b \in Elements \ {0}
  PROVE  /\ Quotient(a, b) \in Elements
         /\ Quotient(0, b) = 0
         /\ Quotient(b, b) = 1
         /\ Mod(a - Quotient(a, b) * b) = 0
<1>1. PICK p \in Nat \ {0} : p = shape.prime
  BY DEF Sound
<1>2. Elements \subseteq Int /\ 0 \in Elements /\ 1 \in Elements
  BY ElementsInt
<1>3. PICK e \in Elements :
        \A c \in Elements : /\ Quotient(c, b) \in Elements
                            /\ Same(Quotient(c, b), e * c, p)
                            /\ Same(Quotient(c, b) * b, c, p)
  BY <1>1, QuotientIs
<1>4. Quotient(0, b) = 0
  <2>1. e * 0 = 0
    BY <1>2, <1>3
  <2>2. Quotient(0, b) \in Elements /\ Same(Quotient(0, b), e * 0, p)
    BY <1>2, <1>3
  <2>3. Same(Quotient(0, b), 0, shape.prime)
    BY <1>1, <2>1, <2>2, Zenon
  <2> QED
    BY <1>2, <2>2, <2>3, ElementsSame
<1>5. Quotient(b, b) = 1
  <2>1. PICK q \in Elements : q = Quotient(b, b) /\ Same(q, e * b, p)
    BY <1>3
  <2>2. PICK u \in Elements : u = Quotient(1, b) /\ Same(u * b, 1, p) /\ Same(u, e * 1, p)
    BY <1>2, <1>3
  <2>3. e * 1 = e /\ e \in Int /\ u \in Int /\ b \in Int /\ q \in Int
    BY <1>2, <1>3, <2>1, <2>2
  <2>4. Same(e, u, p)
    BY <2>2, <2>3, SameSym
  <2>5. Same(e * b, u * b, p)
    BY <2>3, <2>4, SameTimes, SameRefl
  <2>6. e * b \in Int /\ u * b \in Int
    BY <2>3
  <2>7. Same(e * b, 1, p)
    BY <2>2, <2>5, <2>6, SameTrans
  <2>8. Same(q, 1, p)
    BY <2>1, <2>3, <2>6, <2>7, SameTrans
  <2> QED
    BY <1>1, <1>2, <2>1, <2>8, ElementsSame
<1>6. Mod(a - Quotient(a, b) * b) = 0
  <2>1. PICK q \in Elements : q = Quotient(a, b) /\ Same(q * b, a, p)
    BY <1>3
  <2>2. a \in Int /\ q \in Int /\ b \in Int /\ q * b \in Int
    BY <1>2, <2>1
  <2>3. PICK k \in Int : q * b = a + k * p
    BY <2>1 DEF Same
  <2>4. PICK d \in Int : d = a - q * b
    BY <2>2
  <2>5. d = 0 + (-k) * p
    BY <2>2, <2>3, <2>4
  <2>6. Same(d, 0, p)
    BY <2>5 DEF Same
  <2>7. d % p = 0 % p
    BY <2>6, ModSame
  <2>8. Mod(0) = 0
    BY <1>2, ElementsAre
  <2> QED
    BY <1>1, <2>1, <2>4, <2>7, <2>8 DEF Mod
<1> QED
  BY <1>3, <1>4, <1>5, <1>6

\* A multiple of 0 subtracted, and an element subtracted from itself.
LEMMA SubtractsAre ==
  ASSUME Sound, NEW a \in Elements, NEW k \in Int
  PROVE  Mod(a - k * 0) = a /\ Mod(a - a * 1) = 0
<1>1. a \in Int /\ a - k * 0 = a /\ a - a * 1 = 0 /\ 0 \in Elements
  BY ElementsInt
<1>2. Mod(a) = a /\ Mod(0) = 0
  BY <1>1, ElementsAre
<1> QED
  BY <1>1, <1>2, Zenon

-----------------------------------------------------------------------------
(* The operations, and the companion that follows them                     *)

\* Row i of n is a combination of two rows of m.
RowsOf(n, m, x, r, y, s) ==
  \A i \in Rows : Combines(n[i], x[i], m[r[i]], y[i], m[s[i]])

\* If a times b is m, what the rows of a and m both become still is.
LEMMA ProductFollows ==
  ASSUME Sound, NEW a \in SquareMatrices, NEW b \in SquareMatrices, NEW m \in SquareMatrices,
         NEW c \in SquareMatrices, NEW n \in SquareMatrices, Product(a, b) = m,
         NEW x \in [Rows -> Int], NEW y \in [Rows -> Int],
         NEW r \in [Rows -> Rows], NEW s \in [Rows -> Rows],
         RowsOf(c, a, x, r, y, s), RowsOf(n, m, x, r, y, s)
  PROVE  Product(c, b) = n
<1>1. PICK d \in SquareMatrices : d = Product(c, b)
  BY ProductIs
<1>2. ASSUME NEW i \in Rows, NEW j \in Rows PROVE d[i][j] = n[i][j]
  <2>1. Combines(c[i], x[i], a[r[i]], y[i], a[s[i]]) /\ Combines(n[i], x[i], m[r[i]], y[i], m[s[i]])
    BY DEF RowsOf
  <2>2. x[i] \in Int /\ y[i] \in Int /\ r[i] \in Rows /\ s[i] \in Rows
    OBVIOUS
  <2>3. Combines(d[i], x[i], m[r[i]], y[i], m[s[i]])
    BY <1>1, <2>1, <2>2, RowsCombine
  <2>4. /\ d[i][j] \in Elements /\ n[i][j] \in Elements
        /\ m[r[i]][j] \in Elements /\ m[s[i]][j] \in Elements
    BY <2>2 DEF SquareMatrices
  <2>5. PICK w \in Int : w = x[i] * m[r[i]][j] + y[i] * m[s[i]][j]
    BY <2>2, <2>4, ElementsInt
  <2>6. Same(d[i][j], w, shape.prime) /\ Same(n[i][j], w, shape.prime)
    BY <2>1, <2>3, <2>5 DEF Combines
  <2>7. d[i][j] \in Int /\ n[i][j] \in Int /\ shape.prime \in Nat \ {0}
    BY <2>4, ElementsInt DEF Sound
  <2>8. Same(w, n[i][j], shape.prime)
    BY <2>6, <2>7, SameSym
  <2>9. Same(d[i][j], n[i][j], shape.prime)
    BY <2>6, <2>7, <2>8, SameTrans
  <2> QED
    BY <2>4, <2>9, ElementsSame
<1>3. d = n
  BY <1>2 DEF SquareMatrices
<1> QED
  BY <1>1, <1>3

\* A switch of rows makes each row a combination, whatever the matrix.
LEMMA SwitchRowsIs ==
  ASSUME Sound, NEW r \in Rows, NEW s \in Rows
  PROVE  \E x, y \in [Rows -> Int], u \in [Rows -> Rows] :
           \A m \in SquareMatrices : /\ SwitchRows(m, r, s) \in SquareMatrices
                                     /\ RowsOf(SwitchRows(m, r, s), m, x, u, y, u)
<1>1. PICK x : x = [i \in Rows |-> 1]
  OBVIOUS
<1>2. PICK y : y = [i \in Rows |-> 0]
  OBVIOUS
<1>3. PICK u : u = [i \in Rows |-> IF i = s THEN r ELSE IF i = r THEN s ELSE i]
  OBVIOUS
<1>4. x \in [Rows -> Int] /\ y \in [Rows -> Int] /\ u \in [Rows -> Rows]
  BY <1>1, <1>2, <1>3
<1>5. ASSUME NEW m \in SquareMatrices
      PROVE  /\ SwitchRows(m, r, s) \in SquareMatrices
             /\ RowsOf(SwitchRows(m, r, s), m, x, u, y, u)
  <2>1. PICK n : n = SwitchRows(m, r, s)
    OBVIOUS
  <2>2. n \in SquareMatrices
    BY <2>1 DEF SwitchRows, SquareMatrices
  <2>3. ASSUME NEW i \in Rows PROVE n[i] = m[u[i]]
    BY <1>3, <2>1 DEF SwitchRows, SquareMatrices
  <2>4. ASSUME NEW i \in Rows PROVE Combines(n[i], x[i], m[u[i]], y[i], m[u[i]])
    <3> SUFFICES ASSUME NEW k \in Rows
                 PROVE  Same(n[i][k], x[i] * m[u[i]][k] + y[i] * m[u[i]][k], shape.prime)
      BY DEF Combines
    <3>1. PICK v \in Int : v = m[u[i]][k]
      BY <1>4, ElementsInt DEF SquareMatrices
    <3>2. x[i] = 1 /\ y[i] = 0
      BY <1>1, <1>2
    <3>3. x[i] * m[u[i]][k] + y[i] * m[u[i]][k] = v
      BY <3>1, <3>2
    <3>4. n[i][k] = v
      BY <2>3, <3>1
    <3>5. Same(v, v, shape.prime)
      BY SameRefl DEF Sound
    <3> QED
      BY <3>3, <3>4, <3>5
  <2> QED
    BY <2>1, <2>2, <2>4 DEF RowsOf
<1> QED
  BY <1>4, <1>5

\* Each target has a multiple.
Multiples(targets, multiple) == \A i \in targets : multiple[i] \in Int

\* What n, m with multiples of row r subtracted from the targets, holds.
Subtracted(n, m, r, targets, multiple) ==
  /\ n \in SquareMatrices
  /\ \A i \in Rows \ targets : n[i] = m[i]
  /\ \A i \in targets, j \in Rows : n[i][j] = Mod(m[i][j] - multiple[i] * m[r][j])

\* SubtractRow does what Subtracted says.
LEMMA SubtractRowIs ==
  ASSUME Sound, NEW r \in Rows, NEW targets \in SUBSET Rows, NEW multiple,
         Multiples(targets, multiple), NEW m \in SquareMatrices
  PROVE  Subtracted(SubtractRow(m, r, targets, multiple), m, r, targets, multiple)
<1>1. DOMAIN m = Rows /\ \A i \in Rows : DOMAIN m[i] = Rows
  BY DEF SquareMatrices
<1>2. SubtractRow(m, r, targets, multiple) =
        [i \in Rows |-> IF i \in targets
                        THEN [j \in Rows |-> Mod(m[i][j] - multiple[i] * m[r][j])]
                        ELSE m[i]]
  BY <1>1 DEF SubtractRow
<1>3. ASSUME NEW i \in targets, NEW j \in Rows
      PROVE  Mod(m[i][j] - multiple[i] * m[r][j]) \in Elements
  <2>1. m[i][j] \in Int /\ m[r][j] \in Int /\ multiple[i] \in Int
    BY ElementsInt DEF SquareMatrices, Multiples
  <2>2. m[i][j] - multiple[i] * m[r][j] \in Int
    BY <2>1
  <2> QED
    BY <2>2, ElementsAre
<1>4. \A i \in Rows : m[i] \in [Rows -> Elements]
  BY DEF SquareMatrices
<1>5. PICK n : n = SubtractRow(m, r, targets, multiple)
  OBVIOUS
<1>6. n \in SquareMatrices
  BY <1>2, <1>3, <1>4, <1>5 DEF SquareMatrices
<1>7. \A i \in Rows \ targets : n[i] = m[i]
  BY <1>2, <1>5
<1>8. \A i \in targets, j \in Rows : n[i][j] = Mod(m[i][j] - multiple[i] * m[r][j])
  BY <1>2, <1>5
<1> QED
  BY <1>5, <1>6, <1>7, <1>8 DEF Subtracted

\* It makes each row a combination, whatever the matrix.
LEMMA SubtractRowCombines ==
  ASSUME Sound, NEW r \in Rows, NEW targets \in SUBSET Rows, NEW multiple,
         Multiples(targets, multiple)
  PROVE  \E x, y \in [Rows -> Int], u, s \in [Rows -> Rows] :
           \A m \in SquareMatrices : RowsOf(SubtractRow(m, r, targets, multiple), m, x, u, y, s)
<1>1. PICK x : x = [i \in Rows |-> 1]
  OBVIOUS
<1>2. PICK y : y = [i \in Rows |-> IF i \in targets THEN -multiple[i] ELSE 0]
  OBVIOUS
<1>3. PICK u : u = [i \in Rows |-> i]
  OBVIOUS
<1>4. PICK s : s = [i \in Rows |-> r]
  OBVIOUS
<1>5. x \in [Rows -> Int] /\ y \in [Rows -> Int] /\ u \in [Rows -> Rows] /\ s \in [Rows -> Rows]
  BY <1>1, <1>2, <1>3, <1>4 DEF Multiples
<1>6. ASSUME NEW m \in SquareMatrices, NEW i \in Rows
      PROVE  Combines(SubtractRow(m, r, targets, multiple)[i], x[i], m[u[i]], y[i], m[s[i]])
  <2>1. PICK n : n = SubtractRow(m, r, targets, multiple)
    OBVIOUS
  <2>6. /\ \A h \in Rows \ targets : n[h] = m[h]
        /\ \A h \in targets, j \in Rows : n[h][j] = Mod(m[h][j] - multiple[h] * m[r][j])
    <3>1. Subtracted(n, m, r, targets, multiple)
      BY <2>1, SubtractRowIs
    <3> QED
      BY <3>1 DEF Subtracted
  <2> SUFFICES ASSUME NEW k \in Rows
               PROVE  Same(n[i][k], x[i] * m[i][k] + y[i] * m[r][k], shape.prime)
    BY <1>3, <1>4, <2>1 DEF Combines
  <2>2. PICK v \in Int : v = m[i][k]
    BY ElementsInt DEF SquareMatrices
  <2>3. PICK w \in Int : w = m[r][k]
    BY ElementsInt DEF SquareMatrices
  <2>4. CASE i \in targets
    <3>1. PICK l \in Int : l = multiple[i]
      BY <2>4 DEF Multiples
    <3>2. x[i] = 1 /\ y[i] = -l
      BY <1>1, <1>2, <2>4, <3>1
    <3>3. x[i] * m[i][k] + y[i] * m[r][k] = v - l * w
      BY <2>2, <2>3, <3>2
    <3>4. n[i][k] = Mod(v - l * w)
      <4>1. n[i][k] = Mod(m[i][k] - multiple[i] * m[r][k])
        BY <2>4, <2>6
      <4> QED
        BY <2>2, <2>3, <3>1, <4>1, Zenon
    <3>5. v - l * w \in Int
      OBVIOUS
    <3>6. Same(Mod(v - l * w), v - l * w, shape.prime)
      BY <3>5, ElementsAre
    <3> QED
      BY <3>3, <3>4, <3>6, Zenon
  <2>5. CASE i \notin targets
    <3>1. x[i] = 1 /\ y[i] = 0
      BY <1>1, <1>2, <2>5
    <3>2. x[i] * m[i][k] + y[i] * m[r][k] = v
      BY <2>2, <2>3, <3>1
    <3>3. n[i][k] = v
      <4>1. n[i] = m[i]
        BY <2>5, <2>6
      <4> QED
        BY <2>2, <4>1, Zenon
    <3>4. Same(v, v, shape.prime)
      BY SameRefl DEF Sound
    <3> QED
      BY <3>2, <3>3, <3>4, Zenon
  <2> QED
    BY <2>4, <2>5
<1> QED
  BY <1>5, <1>6 DEF RowsOf

\* DivideRow changes one row, to quotients.
LEMMA DivideRowIs ==
  ASSUME Sound, NEW r \in Rows, NEW d \in Elements \ {0}, NEW m \in SquareMatrices
  PROVE  /\ DivideRow(m, r, d) \in SquareMatrices
         /\ \A i \in Rows \ {r} : DivideRow(m, r, d)[i] = m[i]
         /\ \A j \in Rows : DivideRow(m, r, d)[r][j] = Quotient(m[r][j], d)
<1>1. DOMAIN m[r] = Rows
  BY DEF SquareMatrices
<1>2. DivideRow(m, r, d) = [m EXCEPT ![r] = [j \in Rows |-> Quotient(m[r][j], d)]]
  BY <1>1 DEF DivideRow
<1>3. \A j \in Rows : Quotient(m[r][j], d) \in Elements
  BY QuotientsAre DEF SquareMatrices
<1> QED
  BY <1>2, <1>3 DEF SquareMatrices

\* It makes each row a combination, whatever the matrix.
LEMMA DivideRowCombines ==
  ASSUME Sound, NEW r \in Rows, NEW d \in Elements \ {0}
  PROVE  \E x, y \in [Rows -> Int], u \in [Rows -> Rows] :
           \A m \in SquareMatrices : RowsOf(DivideRow(m, r, d), m, x, u, y, u)
<1>1. PICK e \in Elements : \A a \in Elements : Same(Quotient(a, d), e * a, shape.prime)
  BY QuotientIs
<1>2. PICK x : x = [i \in Rows |-> IF i = r THEN e ELSE 1]
  OBVIOUS
<1>3. PICK y : y = [i \in Rows |-> 0]
  OBVIOUS
<1>4. PICK u : u = [i \in Rows |-> i]
  OBVIOUS
<1>5. x \in [Rows -> Int] /\ y \in [Rows -> Int] /\ u \in [Rows -> Rows]
  BY <1>1, <1>2, <1>3, <1>4, ElementsInt
<1>6. ASSUME NEW m \in SquareMatrices, NEW i \in Rows
      PROVE  Combines(DivideRow(m, r, d)[i], x[i], m[u[i]], y[i], m[u[i]])
  <2>1. PICK n : n = DivideRow(m, r, d)
    OBVIOUS
  <2> SUFFICES ASSUME NEW k \in Rows
               PROVE  Same(n[i][k], x[i] * m[i][k] + y[i] * m[i][k], shape.prime)
    BY <1>4, <2>1 DEF Combines
  <2>2. PICK v \in Elements : v = m[i][k]
    BY DEF SquareMatrices
  <2>3. v \in Int /\ e \in Int
    BY <2>2, ElementsInt
  <2>4. x[i] * m[i][k] + y[i] * m[i][k] = IF i = r THEN e * v ELSE v
    BY <1>2, <1>3, <2>2, <2>3
  <2>5. n[i][k] = IF i = r THEN Quotient(v, d) ELSE v
    BY <2>1, <2>2, DivideRowIs
  <2>6. Same(v, v, shape.prime)
    BY <2>3, SameRefl DEF Sound
  <2> QED
    BY <1>1, <2>4, <2>5, <2>6
<1> QED
  BY <1>5, <1>6 DEF RowsOf
-----------------------------------------------------------------------------
(* The inductive invariant                                                 *)

\* The matrix is square.
Square == shape.rows = shape.columns

\* Row i of m is 0.
ZeroRow(m, i) == \A c \in Rows : m[i][c] = 0

\* In the columns before r, m is 0 below the diagonal.
Cleared(m, r) == \A i, c \in Rows : c < r /\ c < i => m[i][c] = 0

\* No element of the diagonal is 0.
NonZeroDiagonal(m) == \A i \in Rows : m[i][i] # 0

\* In FullyReduce: the columns before r are those of the unit matrix.
Reducing(m, r) ==
  /\ Cleared(m, shape.rows) /\ NonZeroDiagonal(m)
  /\ \A i, c \in Rows : c < r => m[i][c] = IF i = c THEN 1 ELSE 0

\* The pivot of a row is its first element that is not 0, or its first.
First(m, r, column) ==
  \/ ZeroRow(m, r) /\ column = 1
  \/ m[r][column] # 0 /\ \A c \in Rows : c < column => m[r][c] = 0

\* The rows before r have their pivots, below which is 0.
Leads(m, p, r) ==
  \A i \in Rows : i < r => First(m, i, p[i]) /\ \A j \in Rows : i < j => m[j][p[i]] = 0

\* The first k pivots are in order.
Ascending(p, k) == \A i \in Rows : i < k /\ i + 1 \in Rows => p[i] <= p[i + 1]

\* In p_Make_RowEchelonForm_UnitMatrix: the pivots are on the diagonal, and the
\* columns before r are 0 but for them.
Diagonalizing(m, p, r) ==
  /\ Cleared(m, shape.rows) /\ NonZeroDiagonal(m)
  /\ \A i \in Rows : p[i] = i
  /\ \A i, c \in Rows : c < r /\ i # c => m[i][c] = 0

\* The second row is about to be divided by the 0 that is its pivot.
AboutToFault(m, p, r) == r = 2 /\ 2 \in Rows /\ p[2] = 1 /\ m[2][1] = 0 /\ m[1][1] # 0

\* The types.
Types ==
  /\ shape \in Shapes
  /\ original \in [Rows -> [Columns -> Elements]]
  /\ matrix \in [Rows -> [Columns -> Elements]]
  /\ companion \in SquareMatrices
  /\ method \in {"Determinant", "InvertedMatrix", "GetDeterminant", "GetInverse"}
  /\ switches \in Nat /\ pivots \in [Rows -> Rows] /\ row \in Nat \ {0} /\ limit \in Nat
  /\ rowPhase \in {"eliminate", "sort", "reduce", "done", "threw", "fault"}

\* What is known where the call stands.
Places ==
  /\ ~Dynamic => Square
  /\ rowPhase = "eliminate" => /\ ~Square => row = 1
                               /\ ~Dynamic => switches = 0 /\ limit = shape.rows - 1
  /\ rowPhase = "sort" => ~Dynamic /\ limit < shape.rows /\ (limit > 0 => row <= limit)
  /\ rowPhase = "reduce" => Square
  /\ rowPhase = "reduce" => Inverts
  /\ rowPhase = "done" => Square
  /\ rowPhase = "done" /\ Inverts => answer = companion

\* The companion times the original is the matrix.
Tracks ==
  Square /\ rowPhase # "fault" /\ (Dynamic \/ (Inverts /\ switches = 0)) =>
    Product(companion, original) = matrix

\* The form of the matrix in the functions of MBDynamicMatrix,
DynamicForm ==
  Square /\ Dynamic =>
    /\ rowPhase = "eliminate" => Cleared(matrix, row)
    /\ rowPhase = "reduce" => Reducing(matrix, row)
    /\ rowPhase = "done" /\ Inverts => matrix = Unit

\* and in GetInverse, as long as no pivots were switched.
StaticForm ==
  ~Dynamic /\ Inverts /\ switches = 0 =>
    /\ rowPhase = "eliminate" => Leads(matrix, pivots, row)
    /\ rowPhase = "sort" => /\ Leads(matrix, pivots, shape.rows + 1)
                            /\ Ascending(pivots, IF limit < shape.rows - 1 THEN shape.rows
                                                                           ELSE row)
    /\ rowPhase = "reduce" => \/ ZeroRow(matrix, 1)
                              \/ AboutToFault(matrix, pivots, row)
                              \/ Diagonalizing(matrix, pivots, row)
    /\ rowPhase = "done" /\ NonZeroDiagonal(matrix) =>
         \A i, j \in Rows : i # j => matrix[i][j] = 0

IInv == Types /\ Places /\ Tracks /\ DynamicForm /\ StaticForm
-----------------------------------------------------------------------------
(* What the steps do to the form of the matrix                             *)

\* There is a first row and a last.
LEMMA RowsAre ==
  ASSUME Sound
  PROVE  Rows = 1..shape.rows /\ shape.rows \in Nat \ {0} /\ 1 \in Rows /\ shape.rows \in Rows
  BY DEF Sound, Rows

\* The columns of a 0 stay: 0 - k * 0 is 0.
LEMMA ZeroLess ==
  ASSUME Sound, NEW k \in Int
  PROVE  Mod(0 - k * 0) = 0
  BY SubtractsAre, ElementsInt

\* What GausEliminate computes in a column: p is brought up to r.
Elimination(m, r, p, u, below, multiple) ==
  /\ p >= r /\ m[p][r] # 0
  /\ u = SwitchRows(m, r, p) /\ below = r + 1..shape.rows
  /\ multiple = [i \in below |-> Quotient(u[i][r], u[r][r])]

\* A column that GausEliminate deals with is cleared below the diagonal.
LEMMA EliminateClears ==
  ASSUME Sound, NEW m \in SquareMatrices, NEW r \in Rows, Cleared(m, r), NEW p \in Rows,
         NEW u, NEW below, NEW multiple, Elimination(m, r, p, u, below, multiple)
  PROVE  /\ u \in SquareMatrices /\ Multiples(below, multiple) /\ below \in SUBSET Rows
         /\ SubtractRow(u, r, below, multiple) \in SquareMatrices
         /\ Cleared(SubtractRow(u, r, below, multiple), r + 1)
<1>0. /\ p >= r /\ m[p][r] # 0
      /\ u = SwitchRows(m, r, p) /\ below = r + 1..shape.rows
      /\ multiple = [i \in below |-> Quotient(u[i][r], u[r][r])]
  BY DEF Elimination
<1>1. u \in SquareMatrices
  BY <1>0, SwitchRowsIs
<1>2. Rows = 1..shape.rows /\ shape.rows \in Nat \ {0} /\ r \in Int /\ p \in Int
  BY RowsAre
<1>3. below \in SUBSET Rows
  BY <1>0, <1>2
<1>4. u[r] = m[p] /\ \A i \in Rows : i # r => u[i] = IF i = p THEN m[r] ELSE m[i]
  BY <1>0 DEF SwitchRows, SquareMatrices
<1>5. PICK d \in Elements \ {0} : d = u[r][r]
  BY <1>0, <1>1, <1>4 DEF SquareMatrices
<1>6. \A i \in below : multiple[i] = Quotient(u[i][r], d) /\ u[i][r] \in Elements
  BY <1>0, <1>1, <1>3, <1>5 DEF SquareMatrices
<1>7. Multiples(below, multiple)
  BY <1>6, QuotientsAre, ElementsInt DEF Multiples
<1>8. PICK n : n = SubtractRow(u, r, below, multiple)
  OBVIOUS
<1>9. Subtracted(n, u, r, below, multiple)
  BY <1>1, <1>3, <1>7, <1>8, SubtractRowIs
<1>10. ASSUME NEW i \in Rows, NEW c \in Rows, c < r, c < i PROVE u[i][c] = 0
  <2>1. m[i][c] = 0
    BY <1>10 DEF Cleared
  <2>2. m[r][c] = 0
    BY <1>10 DEF Cleared
  <2>3. m[p][c] = 0
    <3>1. c < p
      BY <1>0, <1>2, <1>10
    <3> QED
      BY <1>10, <3>1 DEF Cleared
  <2> QED
    BY <1>4, <2>1, <2>2, <2>3
<1>11. ASSUME NEW i \in Rows, NEW c \in Rows, c < r + 1, c < i PROVE n[i][c] = 0
  <2>1. CASE i \notin below
    <3>1. c < r
      BY <1>0, <1>2, <1>11, <2>1
    <3>2. u[i][c] = 0
      BY <1>10, <1>11, <3>1
    <3> QED
      BY <1>9, <2>1, <3>2 DEF Subtracted
  <2>2. CASE i \in below
    <3>1. PICK k \in Int : k = multiple[i]
      BY <1>7, <2>2 DEF Multiples
    <3>2. n[i][c] = Mod(u[i][c] - k * u[r][c])
      BY <1>9, <2>2, <3>1 DEF Subtracted
    <3>3. CASE c < r
      <4>1. u[i][c] = 0 /\ u[r][c] = 0
        BY <1>10, <1>11, <3>3
      <4> QED
        BY <3>2, <4>1, ZeroLess, Zenon
    <3>4. CASE c = r
      <4>1. PICK a \in Elements : a = u[i][c]
        BY <1>6, <2>2, <3>4
      <4>2. k = Quotient(a, d)
        BY <1>6, <2>2, <3>1, <3>4, <4>1
      <4>3. n[i][c] = Mod(a - Quotient(a, d) * d)
        BY <1>5, <3>2, <3>4, <4>1, <4>2, Zenon
      <4> QED
        BY <4>3, QuotientsAre, Zenon
    <3> QED
      BY <1>2, <1>11, <3>3, <3>4
  <2> QED
    BY <2>1, <2>2
<1>12. Cleared(n, r + 1)
  BY <1>11 DEF Cleared
<1> QED
  BY <1>1, <1>3, <1>7, <1>8, <1>9, <1>12 DEF Subtracted

\* So is one that it passes over.
LEMMA PassedClears ==
  ASSUME Sound, NEW m \in SquareMatrices, NEW r \in Rows, Cleared(m, r),
         \A i \in r..shape.rows : m[i][r] = 0
  PROVE  Cleared(m, r + 1)
<1>1. Rows = 1..shape.rows /\ r \in Int
  BY RowsAre
<1> SUFFICES ASSUME NEW i \in Rows, NEW c \in Rows, c < r + 1, c < i PROVE m[i][c] = 0
  BY DEF Cleared
<1>2. CASE c < r
  BY <1>2 DEF Cleared
<1>3. CASE c = r
  BY <1>1, <1>3, RowsAre
<1> QED
  BY <1>1, <1>2, <1>3

\* A step of FullyReduce makes one more column that of the unit matrix.
LEMMA ReduceUnits ==
  ASSUME Sound, NEW m \in SquareMatrices, NEW r \in Rows, Reducing(m, r),
         NEW v, v = DivideRow(m, r, m[r][r]),
         NEW above, above = {i \in 1..r - 1 : v[i][r] # 0},
         NEW multiple, multiple = [i \in above |-> v[i][r]]
  PROVE  /\ v \in SquareMatrices /\ Multiples(above, multiple) /\ above \in SUBSET Rows
         /\ m[r][r] \in Elements \ {0}
         /\ SubtractRow(v, r, above, multiple) \in SquareMatrices
         /\ Reducing(SubtractRow(v, r, above, multiple), r + 1)
<1>1. PICK d \in Elements \ {0} : d = m[r][r]
  BY DEF SquareMatrices, Reducing, NonZeroDiagonal
<1>2. /\ v \in SquareMatrices /\ \A i \in Rows \ {r} : v[i] = m[i]
      /\ \A j \in Rows : v[r][j] = Quotient(m[r][j], d)
  BY <1>1, DivideRowIs
<1>3. Rows = 1..shape.rows /\ shape.rows \in Nat \ {0} /\ r \in Int
  BY RowsAre
<1>4. above \in SUBSET Rows /\ r \notin above
  BY <1>3
<1>5. \A i \in above : multiple[i] = v[i][r] /\ v[i][r] \in Elements
  BY <1>2, <1>4 DEF SquareMatrices
<1>6. Multiples(above, multiple)
  BY <1>5, ElementsInt DEF Multiples
<1>7. PICK n : n = SubtractRow(v, r, above, multiple)
  OBVIOUS
<1>8. Subtracted(n, v, r, above, multiple)
  BY <1>2, <1>4, <1>6, <1>7, SubtractRowIs
<1>9. v[r][r] = 1
  BY <1>1, <1>2, QuotientsAre
<1>10. \A c \in Rows : c < r => v[r][c] = 0
  <2>1. \A c \in Rows : c < r => m[r][c] = 0
    BY <1>3 DEF Reducing
  <2> QED
    BY <1>1, <1>2, <2>1, QuotientsAre, ElementsInt
<1>11. ASSUME NEW i \in Rows, NEW c \in Rows, c < r PROVE n[i][c] = v[i][c]
  <2>1. CASE i \in above
    <3>1. PICK k \in Int : k = multiple[i]
      BY <1>6, <2>1 DEF Multiples
    <3>2. n[i][c] = Mod(v[i][c] - k * v[r][c])
      BY <1>8, <2>1, <3>1 DEF Subtracted
    <3>3. v[r][c] = 0 /\ v[i][c] \in Elements
      BY <1>2, <1>10, <1>11 DEF SquareMatrices
    <3> QED
      BY <3>2, <3>3, SubtractsAre
  <2>2. CASE i \notin above
    BY <1>8, <2>2 DEF Subtracted
  <2> QED
    BY <2>1, <2>2
<1>12. ASSUME NEW i \in Rows, i # r, i < r PROVE n[i][r] = 0
  <2>1. CASE i \in above
    <3>1. PICK a \in Elements : a = v[i][r]
      BY <1>5, <2>1
    <3>2. multiple[i] = a
      BY <1>5, <2>1, <3>1
    <3>3. n[i][r] = Mod(a - a * 1)
      <4>1. n[i][r] = Mod(v[i][r] - multiple[i] * v[r][r])
        BY <1>8, <2>1 DEF Subtracted
      <4> QED
        BY <1>9, <3>1, <3>2, <4>1, Zenon
    <3>4. 0 \in Int
      OBVIOUS
    <3> QED
      BY <3>3, <3>4, SubtractsAre, Zenon
  <2>2. CASE i \notin above
    <3>1. v[i][r] = 0
      BY <1>3, <1>12, <2>2
    <3> QED
      BY <1>8, <2>2, <3>1 DEF Subtracted
  <2> QED
    BY <2>1, <2>2
<1>13. ASSUME NEW i \in Rows, r <= i PROVE n[i] = v[i]
  <2>1. i \notin above
    BY <1>3, <1>13
  <2> QED
    BY <1>8, <2>1 DEF Subtracted
<1>14. ASSUME NEW i \in Rows, NEW c \in Rows, c < i PROVE n[i][c] = 0
  <2>0. m[i][c] = 0
    BY <1>3, <1>14 DEF Reducing, Cleared
  <2>1. CASE i > r
    BY <1>2, <1>3, <1>13, <2>0, <2>1
  <2>2. CASE i = r
    BY <1>3, <1>10, <1>13, <1>14, <2>2
  <2>3. CASE i < r
    <3>1. c < r /\ i # r
      BY <1>3, <1>14, <2>3
    <3> QED
      BY <1>2, <1>11, <2>0, <3>1
  <2> QED
    BY <1>3, <2>1, <2>2, <2>3
<1>15. ASSUME NEW i \in Rows PROVE n[i][i] # 0
  <2>0. m[i][i] # 0
    BY DEF Reducing, NonZeroDiagonal
  <2>1. CASE i > r
    BY <1>2, <1>3, <1>13, <2>0, <2>1
  <2>2. CASE i = r
    BY <1>3, <1>9, <1>13, <2>2
  <2>3. CASE i < r
    <3>1. i # r
      BY <1>3, <2>3
    <3> QED
      BY <1>2, <1>11, <2>0, <2>3, <3>1
  <2> QED
    BY <1>3, <2>1, <2>2, <2>3
<1>16. ASSUME NEW i \in Rows, NEW c \in Rows, c < r + 1
       PROVE  n[i][c] = IF i = c THEN 1 ELSE 0
  <2>1. CASE c < r
    <3>1. m[i][c] = IF i = c THEN 1 ELSE 0
      BY <2>1 DEF Reducing
    <3>2. CASE i = r
      BY <1>3, <1>10, <1>13, <2>1, <3>2
    <3>3. CASE i # r
      BY <1>2, <1>11, <2>1, <3>1, <3>3
    <3> QED
      BY <3>2, <3>3
  <2>2. CASE c = r
    <3>1. CASE i < r
      BY <1>3, <1>12, <2>2, <3>1
    <3>2. CASE i = r
      BY <1>3, <1>9, <1>13, <2>2, <3>2
    <3>3. CASE i > r
      <4>1. c < i /\ i # c
        BY <1>3, <2>2, <3>3
      <4> QED
        BY <1>14, <4>1
    <3> QED
      BY <1>3, <3>1, <3>2, <3>3
  <2> QED
    BY <1>3, <1>16, <2>1, <2>2
<1>17. Reducing(n, r + 1)
  BY <1>14, <1>15, <1>16 DEF Reducing, Cleared, NonZeroDiagonal
<1> QED
  BY <1>1, <1>2, <1>4, <1>6, <1>7, <1>8, <1>17 DEF Subtracted

\* A step of p_RowPreservering_GaussEliminate gives one more row its pivot.
LEMMA ClearsLeads ==
  ASSUME Sound, NEW m \in SquareMatrices, NEW r \in Rows, NEW p \in [Rows -> Rows],
         Leads(m, p, r), NEW column \in Rows, First(m, r, column),
         NEW below, below = {i \in r + 1..shape.rows : m[i][column] # 0},
         m[r][column] = 0 => below = {},
         NEW multiple, multiple = [i \in below |-> Quotient(m[i][column], m[r][column])]
  PROVE  /\ Multiples(below, multiple) /\ below \in SUBSET Rows
         /\ SubtractRow(m, r, below, multiple) \in SquareMatrices
         /\ Leads(SubtractRow(m, r, below, multiple), [p EXCEPT ![r] = column], r + 1)
<1>1. Rows = 1..shape.rows /\ shape.rows \in Nat \ {0} /\ r \in Int
  BY RowsAre
<1>2. below \in SUBSET Rows
  BY <1>1
<1>3. \A i \in below : m[r][column] \in Elements \ {0} /\ m[i][column] \in Elements
  BY <1>2 DEF SquareMatrices
<1>4. Multiples(below, multiple)
  BY <1>3, QuotientsAre, ElementsInt DEF Multiples
<1>5. PICK n : n = SubtractRow(m, r, below, multiple)
  OBVIOUS
<1>6. Subtracted(n, m, r, below, multiple)
  BY <1>2, <1>4, <1>5, SubtractRowIs
<1>7. PICK q : q = [p EXCEPT ![r] = column]
  OBVIOUS
<1>8. q[r] = column /\ \A i \in Rows : i # r => q[i] = p[i]
  BY <1>7
<1>9. \A i \in Rows : i < r + 1 => n[i] = m[i]
  BY <1>1, <1>6 DEF Subtracted
<1>10. ASSUME NEW i \in Rows, i < r + 1 PROVE First(n, i, q[i])
  <2>1. CASE i = r
    BY <1>8, <1>9, <1>10, <2>1 DEF First, ZeroRow
  <2>2. CASE i # r
    <3>1. i < r
      BY <1>1, <1>10, <2>2
    <3>2. First(m, i, p[i])
      BY <3>1 DEF Leads
    <3> QED
      BY <1>8, <1>9, <1>10, <2>2, <3>2 DEF First, ZeroRow
  <2> QED
    BY <2>1, <2>2
<1>11. ASSUME NEW i \in Rows, i < r + 1, NEW j \in Rows, i < j PROVE n[j][q[i]] = 0
  <2>1. CASE i = r
    <3>1. j \in r + 1..shape.rows
      BY <1>1, <1>11, <2>1
    <3>2. CASE j \notin below
      <4>1. m[j][column] = 0 /\ n[j] = m[j]
        BY <1>6, <3>1, <3>2 DEF Subtracted
      <4> QED
        BY <1>8, <2>1, <4>1
    <3>3. CASE j \in below
      <4>1. PICK a \in Elements : a = m[j][column]
        BY <1>3, <3>3
      <4>2. PICK d \in Elements \ {0} : d = m[r][column]
        BY <1>3, <3>3
      <4>3. multiple[j] = Quotient(a, d)
        BY <3>3, <4>1, <4>2
      <4>4. n[j][column] = Mod(m[j][column] - multiple[j] * m[r][column])
        BY <1>6, <3>3 DEF Subtracted
      <4>5. n[j][column] = Mod(a - Quotient(a, d) * d)
        BY <4>1, <4>2, <4>3, <4>4, Zenon
      <4>6. n[j][column] = 0
        BY <4>5, QuotientsAre, Zenon
      <4> QED
        BY <1>8, <2>1, <4>6
    <3> QED
      BY <3>2, <3>3, Zenon
  <2>2. CASE i # r
    <3>1. i < r /\ q[i] = p[i] /\ p[i] \in Rows
      <4>1. i \in Int
        BY <1>1
      <4>2. i < r
        BY <1>1, <1>11, <2>2, <4>1
      <4>3. q[i] = p[i]
        BY <1>8, <2>2, Zenon
      <4> QED
        BY <4>2, <4>3
    <3>2. PICK c \in Rows : c = p[i]
      BY <3>1
    <3>3. m[j][c] = 0 /\ m[r][c] = 0
      BY <1>11, <3>1, <3>2 DEF Leads
    <3>4. CASE j \notin below
      BY <1>6, <3>1, <3>2, <3>3, <3>4 DEF Subtracted
    <3>5. CASE j \in below
      <4>1. PICK k \in Int : k = multiple[j]
        BY <1>4, <3>5 DEF Multiples
      <4>2. n[j][c] = Mod(m[j][c] - k * m[r][c])
        BY <1>6, <3>5, <4>1 DEF Subtracted
      <4>3. n[j][c] = 0
        BY <3>3, <4>2, ZeroLess, Zenon
      <4> QED
        BY <3>1, <3>2, <4>3
    <3> QED
      BY <3>4, <3>5
  <2> QED
    BY <2>1, <2>2
<1>12. Leads(n, q, r + 1)
  BY <1>10, <1>11 DEF Leads
<1> QED
  BY <1>2, <1>4, <1>5, <1>6, <1>7, <1>12 DEF Subtracted

\* Pivots that ascend from row to row ascend.
LEMMA AscendingIs ==
  ASSUME Sound, NEW p \in [Rows -> Rows], Ascending(p, shape.rows), NEW i \in Rows,
         NEW j \in Rows, i <= j
  PROVE  p[i] <= p[j]
<1>1. Rows = 1..shape.rows /\ shape.rows \in Nat \ {0}
  BY RowsAre
<1> DEFINE T == {d \in Nat : i + d \in Rows => p[i] <= p[i + d]}
<1>2. 0 \in T /\ T \in SUBSET Nat
  BY <1>1
<1>3. ASSUME NEW d \in Nat, d \in T PROVE d + 1 \in T
  <2>1. CASE i + d + 1 \in Rows
    <3>1. PICK k \in Rows : k = i + d
      BY <1>1, <2>1
    <3>2. k < shape.rows /\ k + 1 \in Rows
      BY <1>1, <2>1, <3>1
    <3>3. p[k] <= p[k + 1]
      BY <3>1, <3>2 DEF Ascending
    <3>4. p[i] <= p[k]
      BY <1>3, <3>1
    <3>5. p[i] \in Int /\ p[k] \in Int /\ p[k + 1] \in Int
      BY <1>1, <3>2
    <3>6. p[i] <= p[k + 1]
      BY <3>3, <3>4, <3>5
    <3>7. k + 1 = i + (d + 1)
      BY <1>1, <3>1
    <3> QED
      BY <3>6, <3>7
  <2>2. CASE ~ (i + d + 1 \in Rows)
    <3>1. ~ (i + (d + 1) \in Rows)
      BY <1>1, <2>2
    <3> QED
      BY <3>1
  <2> QED
    BY <2>1, <2>2
<1> HIDE DEF T
<1>4. PICK d \in Nat : d = j - i
  BY <1>1
<1>5. d \in T
  BY <1>2, <1>3, FromZero
<1>6. i + d = j
  BY <1>1, <1>4
<1> QED
  BY <1>5, <1>6 DEF T

\* Pivots that are in order, with no row of zeros, are those of the diagonal.
LEMMA PivotsDiagonal ==
  ASSUME Sound, NEW p \in [Rows -> Rows],
         \A i \in Rows : i + 1 \in Rows => p[i] < p[i + 1]
  PROVE  \A i \in Rows : p[i] = i
<1>1. Rows = 1..shape.rows /\ shape.rows \in Nat \ {0} /\ \A i \in Rows : p[i] \in Int
  BY RowsAre
<1>2. ASSUME NEW i \in Rows PROVE p[i] >= i
  <2> DEFINE T == {k \in Nat : k + 1 \in Rows => p[k + 1] >= k + 1}
  <2>1. 0 \in T /\ T \in SUBSET Nat
    BY <1>1
  <2>2. ASSUME NEW k \in Nat, k \in T PROVE k + 1 \in T
    <3>1. CASE k + 1 + 1 \in Rows
      <4>1. k + 1 \in Rows
        BY <1>1, <3>1
      <4>2. p[k + 1] < p[k + 1 + 1] /\ p[k + 1] >= k + 1
        BY <2>2, <3>1, <4>1
      <4>3. p[k + 1 + 1] >= k + 1 + 1
        BY <1>1, <3>1, <4>1, <4>2
      <4> QED
        BY <4>3
    <3>2. CASE ~ (k + 1 + 1 \in Rows)
      BY <3>2
    <3> QED
      BY <3>1, <3>2
  <2> HIDE DEF T
  <2>3. PICK k \in Nat : k = i - 1
    BY <1>1
  <2>4. k \in T /\ k + 1 = i
    <3>1. T = Nat
      BY <2>1, <2>2, FromZero
    <3> QED
      BY <1>1, <2>3, <3>1
  <2> QED
    BY <2>4 DEF T
<1>3. ASSUME NEW i \in Rows PROVE p[i] <= i
  <2> DEFINE T == {d \in Nat : shape.rows - d \in Rows => p[shape.rows - d] <= shape.rows - d}
  <2>1. 0 \in T /\ T \in SUBSET Nat
    BY <1>1
  <2>2. ASSUME NEW d \in Nat, d \in T PROVE d + 1 \in T
    <3>1. CASE shape.rows - (d + 1) \in Rows
      <4>1. PICK k \in Rows : k = shape.rows - (d + 1)
        BY <3>1
      <4>2. k + 1 \in Rows /\ k + 1 = shape.rows - d
        BY <1>1, <4>1
      <4>3. p[k + 1] <= k + 1
        BY <2>2, <4>2
      <4>4. p[k] < p[k + 1]
        BY <4>2
      <4>5. p[k] <= k
        BY <1>1, <4>2, <4>3, <4>4
      <4> QED
        BY <4>1, <4>5
    <3>2. CASE ~ (shape.rows - (d + 1) \in Rows)
      BY <3>2
    <3> QED
      BY <3>1, <3>2
  <2> HIDE DEF T
  <2>3. PICK d \in Nat : d = shape.rows - i
    BY <1>1
  <2>4. d \in T /\ shape.rows - d = i
    <3>1. T = Nat
      BY <2>1, <2>2, FromZero
    <3> QED
      BY <1>1, <2>3, <3>1
  <2> QED
    BY <2>4 DEF T
<1> QED
  BY <1>1, <1>2, <1>3

\* After a sort that switched nothing: the first row is 0, or the second is
\* divided by 0, or the pivots are the diagonal of an upper triangle.
LEMMA SortedForm ==
  ASSUME Sound, NEW m \in SquareMatrices, NEW p \in [Rows -> Rows],
         Leads(m, p, shape.rows + 1), Ascending(p, shape.rows)
  PROVE  ZeroRow(m, 1) \/ AboutToFault(m, p, 2) \/ Diagonalizing(m, p, 2)
<1>1. Rows = 1..shape.rows /\ shape.rows \in Nat \ {0} /\ 1 \in Rows
  BY RowsAre
<1>2. \A i \in Rows : i < shape.rows + 1 /\ p[i] \in Int /\ p[i] >= 1
  BY <1>1
<1>3. \A i \in Rows : First(m, i, p[i]) /\ \A j \in Rows : i < j => m[j][p[i]] = 0
  BY <1>2 DEF Leads
<1>4. CASE \E z \in Rows : ZeroRow(m, z)
  <2>1. PICK z \in Rows : ZeroRow(m, z)
    BY <1>4
  <2>2. CASE z = 1
    BY <2>1, <2>2
  <2>3. CASE z # 1
    <3>1. p[z] = 1
      BY <1>3, <2>1 DEF First, ZeroRow
    <3>2. 2 \in Rows /\ 1 <= 2 /\ 2 <= z
      BY <1>1, <2>3
    <3>3. p[1] <= p[2] /\ p[2] <= p[z]
      BY <1>1, <3>2, AscendingIs
    <3>4. p[1] = 1 /\ p[2] = 1
      BY <1>1, <1>2, <3>1, <3>2, <3>3
    <3>5. m[2][1] = 0
      BY <1>1, <1>3, <3>2, <3>4
    <3>6. ZeroRow(m, 1) \/ m[1][1] # 0
      BY <1>1, <1>3, <3>4 DEF First
    <3> QED
      BY <3>2, <3>4, <3>5, <3>6 DEF AboutToFault
  <2> QED
    BY <2>2, <2>3
<1>5. CASE \A z \in Rows : ~ ZeroRow(m, z)
  <2>1. \A i \in Rows : m[i][p[i]] # 0 /\ \A c \in Rows : c < p[i] => m[i][c] = 0
    BY <1>3, <1>5 DEF First
  <2>2. ASSUME NEW i \in Rows, i + 1 \in Rows PROVE p[i] < p[i + 1]
    <3>1. i < shape.rows /\ i < i + 1
      BY <1>1, <2>2
    <3>2. p[i] <= p[i + 1]
      BY <2>2, <3>1 DEF Ascending
    <3>3. m[i + 1][p[i]] = 0 /\ m[i + 1][p[i + 1]] # 0
      BY <1>3, <2>1, <2>2, <3>1
    <3>4. p[i] # p[i + 1]
      BY <3>3
    <3> QED
      BY <1>2, <2>2, <3>2, <3>4
  <2>3. \A i \in Rows : p[i] = i
    BY <2>2, PivotsDiagonal
  <2>4. NonZeroDiagonal(m)
    BY <2>1, <2>3 DEF NonZeroDiagonal
  <2>5. \A i, c \in Rows : c < i => m[i][c] = 0
    BY <2>1, <2>3
  <2>6. \A i, c \in Rows : c < 2 /\ i # c => m[i][c] = 0
    BY <1>1, <2>5
  <2> QED
    BY <2>3, <2>4, <2>5, <2>6 DEF Diagonalizing, Cleared
<1> QED
  BY <1>4, <1>5

\* A step of p_Make_RowEchelonForm_UnitMatrix clears one more column.
LEMMA ReduceDiagonalizes ==
  ASSUME Sound, NEW m \in SquareMatrices, NEW r \in Rows, NEW p \in [Rows -> Rows],
         Diagonalizing(m, p, r),
         NEW above, above = {i \in 1..r - 1 : m[i][p[r]] # 0},
         NEW multiple, multiple = [i \in above |-> Quotient(m[i][p[r]], m[r][p[r]])]
  PROVE  Diagonalizing(SubtractRow(m, r, above, multiple), p, r + 1)
<1>1. Rows = 1..shape.rows /\ shape.rows \in Nat \ {0} /\ r \in Int
  BY RowsAre
<1>2. above \in SUBSET Rows /\ r \notin above /\ p[r] = r
  BY <1>1 DEF Diagonalizing
<1>3. PICK d \in Elements \ {0} : d = m[r][r]
  BY DEF SquareMatrices, Diagonalizing, NonZeroDiagonal
<1>4. \A i \in above : multiple[i] = Quotient(m[i][r], d) /\ m[i][r] \in Elements
  BY <1>2, <1>3 DEF SquareMatrices
<1>5. Multiples(above, multiple)
  BY <1>4, QuotientsAre, ElementsInt DEF Multiples
<1>6. PICK n : n = SubtractRow(m, r, above, multiple)
  OBVIOUS
<1>7. Subtracted(n, m, r, above, multiple)
  BY <1>2, <1>5, <1>6, SubtractRowIs
<1>8. ASSUME NEW i \in Rows, NEW c \in Rows, c < r PROVE n[i][c] = m[i][c]
  <2>1. CASE i \in above
    <3>1. PICK k \in Int : k = multiple[i]
      BY <1>5, <2>1 DEF Multiples
    <3>2. n[i][c] = Mod(m[i][c] - k * m[r][c])
      BY <1>7, <2>1, <3>1 DEF Subtracted
    <3>3. m[r][c] = 0
      <4>1. r # c
        BY <1>1, <1>8
      <4> QED
        BY <1>8, <4>1 DEF Diagonalizing
    <3>4. m[i][c] \in Elements
      BY DEF SquareMatrices
    <3> QED
      BY <3>2, <3>3, <3>4, SubtractsAre
  <2>2. CASE i \notin above
    BY <1>7, <2>2 DEF Subtracted
  <2> QED
    BY <2>1, <2>2
<1>9. ASSUME NEW i \in Rows, i < r PROVE n[i][r] = 0
  <2>1. CASE i \in above
    <3>1. PICK a \in Elements : a = m[i][r]
      BY <1>4, <2>1
    <3>2. multiple[i] = Quotient(a, d)
      BY <1>4, <2>1, <3>1
    <3>3. n[i][r] = Mod(m[i][r] - multiple[i] * m[r][r])
      BY <1>7, <2>1 DEF Subtracted
    <3>4. n[i][r] = Mod(a - Quotient(a, d) * d)
      BY <1>3, <3>1, <3>2, <3>3, Zenon
    <3> QED
      BY <3>4, QuotientsAre, Zenon
  <2>2. CASE i \notin above
    <3>1. m[i][r] = 0
      BY <1>1, <1>2, <1>9, <2>2
    <3> QED
      BY <1>7, <2>2, <3>1 DEF Subtracted
  <2> QED
    BY <2>1, <2>2
<1>10. ASSUME NEW i \in Rows, r <= i PROVE n[i] = m[i]
  <2>1. i \notin above
    BY <1>1, <1>10
  <2> QED
    BY <1>7, <2>1 DEF Subtracted
<1>11. ASSUME NEW i \in Rows, NEW c \in Rows, c < i PROVE n[i][c] = 0
  <2>1. m[i][c] = 0
    BY <1>1, <1>11 DEF Diagonalizing, Cleared
  <2>2. CASE r <= i
    BY <1>10, <2>1, <2>2
  <2>3. CASE i < r
    <3>1. c < r
      BY <1>1, <1>11, <2>3
    <3> QED
      BY <1>8, <2>1, <3>1
  <2> QED
    BY <1>1, <2>2, <2>3
<1>12. ASSUME NEW i \in Rows PROVE n[i][i] # 0
  <2>1. m[i][i] # 0
    BY DEF Diagonalizing, NonZeroDiagonal
  <2>2. CASE r <= i
    BY <1>10, <2>1, <2>2
  <2>3. CASE i < r
    BY <1>8, <2>1, <2>3
  <2> QED
    BY <1>1, <2>2, <2>3
<1>13. ASSUME NEW i \in Rows, NEW c \in Rows, c < r + 1, i # c PROVE n[i][c] = 0
  <2>1. CASE c < r
    <3>1. m[i][c] = 0
      BY <1>13, <2>1 DEF Diagonalizing
    <3> QED
      BY <1>8, <2>1, <3>1
  <2>2. CASE c = r
    <3>1. CASE i < r
      BY <1>9, <2>2, <3>1
    <3>2. CASE i > r
      <4>1. c < i
        BY <1>1, <2>2, <3>2
      <4> QED
        BY <1>11, <4>1
    <3> QED
      BY <1>1, <1>13, <2>2, <3>1, <3>2
  <2> QED
    BY <1>1, <1>13, <2>1, <2>2
<1>14. \A i \in Rows : p[i] = i
  BY DEF Diagonalizing
<1> QED
  BY <1>6, <1>11, <1>12, <1>13, <1>14 DEF Diagonalizing, Cleared, NonZeroDiagonal

-----------------------------------------------------------------------------
(* The beginning, and what does not change                                 *)

\* The unit matrix is neutral.
LEMMA UnitIs ==
  ASSUME Sound
  PROVE  Unit \in SquareMatrices /\ \A m \in SquareMatrices : Product(Unit, m) = m
<1>1. Rows = 1..shape.rows /\ shape.rows \in Nat \ {0}
  BY RowsAre
<1>2. Unit \in SquareMatrices
  BY ElementsInt DEF Unit, SquareMatrices
<1>3. ASSUME NEW m \in SquareMatrices PROVE Product(Unit, m) = m
  <2>1. PICK n \in SquareMatrices : n = Product(Unit, m)
    BY <1>2, ProductIs
  <2>2. ASSUME NEW i \in Rows, NEW j \in Rows PROVE n[i][j] = m[i][j]
    <3>1. PICK f : f = [k \in Rows |-> Unit[i][k] * m[k][j]]
      OBVIOUS
    <3>2. \A k \in Rows : Unit[i][k] = (IF i = k THEN 1 ELSE 0) /\ m[k][j] \in Int
      BY ElementsInt DEF Unit, SquareMatrices
    <3>3. \A k \in Rows : f[k] = IF k = i THEN m[i][j] ELSE 0
      <4>1. ASSUME NEW k \in Rows PROVE f[k] = IF k = i THEN m[i][j] ELSE 0
        <5>1. PICK a \in Int : a = m[k][j]
          BY <3>2
        <5>2. PICK b \in Int : b = Unit[i][k]
          BY <3>2
        <5>3. f[k] = b * a
          BY <3>1, <5>1, <5>2
        <5>4. b = IF i = k THEN 1 ELSE 0
          BY <3>2, <5>2
        <5> QED
          BY <5>1, <5>3, <5>4
      <4> QED
        BY <4>1
    <3>4. f \in [1..shape.rows -> Int] /\ i \in 1..shape.rows /\ f[i] = m[i][j]
      BY <1>1, <3>1, <3>2, <3>3
    <3>5. SumTo(f, shape.rows) = f[i]
      BY <1>1, <3>3, <3>4, SumOne
    <3>6. n[i][j] = Mod(SumTo(f, shape.rows))
      BY <2>1, <3>1 DEF Product
    <3>7. m[i][j] \in Elements /\ m[i][j] \in Int
      BY <3>2 DEF SquareMatrices
    <3> QED
      BY <3>4, <3>5, <3>6, <3>7, ElementsAre
  <2>3. n = m
    BY <2>2 DEF SquareMatrices
  <2> QED
    BY <2>1, <2>3
<1> QED
  BY <1>2, <1>3

\* A product of the diagonal that is not 0 has no factor 0.
LEMMA DiagonalIs ==
  ASSUME Sound, NEW m \in SquareMatrices, DiagonalProduct(m, Diagonal) # 0
  PROVE  NonZeroDiagonal(m)
<1>1. Rows = 1..shape.rows /\ shape.rows \in Nat
  BY RowsAre
<1>2. PICK f : f = [i \in Rows |-> m[i][Diagonal[i]]]
  OBVIOUS
<1>3. \A i \in Rows : f[i] = m[i][i] /\ m[i][i] \in Int
  BY <1>2, ElementsInt DEF Diagonal, SquareMatrices
<1>4. f \in [1..shape.rows -> Int]
  BY <1>1, <1>2, <1>3
<1>5. DiagonalProduct(m, Diagonal) = Mod(ProductTo(f, shape.rows))
  BY <1>2 DEF DiagonalProduct
<1>6. Mod(0) = 0
  BY ElementsAre, ElementsInt
<1>7. ASSUME NEW i \in Rows, m[i][i] = 0 PROVE FALSE
  <2>1. f[i] = 0 /\ i \in 1..shape.rows
    BY <1>1, <1>3, <1>7
  <2>2. ProductTo(f, shape.rows) = 0
    BY <1>1, <1>4, <2>1, ProductZero
  <2> QED
    BY <1>5, <1>6, <2>2
<1> QED
  BY <1>7 DEF NonZeroDiagonal

\* The assumption on the shapes, for the one in use.
LEMMA ShapeSound ==
  ASSUME ShapesAssumption, shape \in Shapes
  PROVE  Sound /\ shape.columns \in Nat \ {0} /\ shape.entries \subseteq Elements
  BY DEF ShapesAssumption, Sound, Elements

\* The matrices of a square shape are square.
LEMMA MatrixSquare ==
  ASSUME Sound, Types, Square
  PROVE  matrix \in SquareMatrices /\ original \in SquareMatrices /\ companion \in SquareMatrices
  BY DEF Types, Square, SquareMatrices, Rows, Columns

\* The inductive invariant holds in the beginning.
LEMMA Initially ==
  ASSUME ShapesAssumption, ReductionInit
  PROVE  IInv
<1>1. shape \in Shapes /\ Sound /\ shape.columns \in Nat \ {0} /\ shape.entries \subseteq Elements
  BY ShapeSound DEF ReductionInit
<1>2. Types
  <2>1. original \in [Rows -> [Columns -> Elements]]
    BY <1>1 DEF ReductionInit
  <2>2. companion \in SquareMatrices
    BY <1>1, UnitIs DEF ReductionInit
  <2>3. pivots \in [Rows -> Rows] /\ shape.rows - 1 \in Nat
    BY <1>1, RowsAre DEF ReductionInit
  <2>4. method \in {"Determinant", "InvertedMatrix", "GetDeterminant", "GetInverse"}
    BY DEF ReductionInit
  <2> QED
    BY <1>1, <2>1, <2>2, <2>3, <2>4 DEF ReductionInit, Types
<1>3. Places
  BY <1>1 DEF ReductionInit, Places, Square, Dynamic
<1>4. Tracks
  <2> SUFFICES ASSUME Square PROVE Product(companion, original) = matrix
    BY DEF Tracks
  <2>1. original \in SquareMatrices
    BY <1>1, <1>2, MatrixSquare
  <2> QED
    BY <1>1, <2>1, UnitIs DEF ReductionInit
<1>5. DynamicForm /\ StaticForm
  <2>1. \A i \in Rows : ~ (i < 1)
    BY <1>1, RowsAre
  <2>2. row = 1 /\ rowPhase = "eliminate"
    BY DEF ReductionInit
  <2>3. Cleared(matrix, row) /\ Leads(matrix, pivots, row)
    BY <2>1, <2>2 DEF Cleared, Leads
  <2> QED
    BY <2>2, <2>3 DEF DynamicForm, StaticForm
<1> QED
  BY <1>2, <1>3, <1>4, <1>5 DEF IInv

\* What is defined by the arguments stays.
LEMMA Frame ==
  ASSUME UNCHANGED reductionArguments
  PROVE  /\ (Dynamic' <=> Dynamic) /\ (Inverts' <=> Inverts) /\ (Square' <=> Square)
         /\ Rows' = Rows /\ Columns' = Columns /\ Elements' = Elements
         /\ SquareMatrices' = SquareMatrices /\ Unit' = Unit
         /\ Product(companion, original)' = Product(companion', original)
         /\ (Cleared(matrix, row)' <=> Cleared(matrix', row'))
         /\ (Reducing(matrix, row)' <=> Reducing(matrix', row'))
         /\ (NonZeroDiagonal(matrix)' <=> NonZeroDiagonal(matrix'))
         /\ (ZeroRow(matrix, 1)' <=> ZeroRow(matrix', 1))
         /\ (Leads(matrix, pivots, row)' <=> Leads(matrix', pivots', row'))
         /\ (Leads(matrix, pivots, shape.rows + 1)' <=> Leads(matrix', pivots', shape.rows + 1))
         /\ (AboutToFault(matrix, pivots, row)' <=> AboutToFault(matrix', pivots', row'))
         /\ (Diagonalizing(matrix, pivots, row)' <=> Diagonalizing(matrix', pivots', row'))
<1>1. shape' = shape /\ method' = method /\ original' = original
  BY DEF reductionArguments
<1>2. /\ (Dynamic' <=> Dynamic) /\ (Inverts' <=> Inverts) /\ (Square' <=> Square)
      /\ Rows' = Rows /\ Columns' = Columns /\ Elements' = Elements
  BY <1>1 DEF Dynamic, Inverts, Square, Rows, Columns, Elements
<1>3. SquareMatrices' = SquareMatrices /\ Unit' = Unit
  BY <1>2 DEF SquareMatrices, Unit
<1>4. Product(companion, original)' = Product(companion', original)
  BY <1>1 DEF Product, Rows, Mod
<1>5. (Cleared(matrix, row)' <=> Cleared(matrix', row'))
  BY <1>2 DEF Cleared
<1>6. (NonZeroDiagonal(matrix)' <=> NonZeroDiagonal(matrix'))
  BY <1>2 DEF NonZeroDiagonal
<1>7. (Reducing(matrix, row)' <=> Reducing(matrix', row'))
  BY <1>1, <1>2 DEF Reducing, Cleared, NonZeroDiagonal
<1>8. (ZeroRow(matrix, 1)' <=> ZeroRow(matrix', 1))
  BY <1>2 DEF ZeroRow
<1>9. /\ (Leads(matrix, pivots, row)' <=> Leads(matrix', pivots', row'))
      /\ (Leads(matrix, pivots, shape.rows + 1)' <=> Leads(matrix', pivots', shape.rows + 1))
  BY <1>1, <1>2 DEF Leads, First, ZeroRow
<1>10. (AboutToFault(matrix, pivots, row)' <=> AboutToFault(matrix', pivots', row'))
  BY <1>2 DEF AboutToFault
<1>11. (Diagonalizing(matrix, pivots, row)' <=> Diagonalizing(matrix', pivots', row'))
  BY <1>1, <1>2 DEF Diagonalizing, Cleared, NonZeroDiagonal
<1> QED
  BY <1>2, <1>3, <1>4, <1>5, <1>6, <1>7, <1>8, <1>9, <1>10, <1>11

-----------------------------------------------------------------------------
(* The operations on the companion                                         *)

\* The companion follows the matrix when rows are switched,
LEMMA SwitchFollows ==
  ASSUME Sound, NEW a \in SquareMatrices, NEW b \in SquareMatrices, NEW m \in SquareMatrices,
         Product(a, b) = m, NEW r \in Rows, NEW s \in Rows
  PROVE  Product(SwitchRows(a, r, s), b) = SwitchRows(m, r, s)
<1>1. PICK x, y \in [Rows -> Int], u \in [Rows -> Rows] :
        \A n \in SquareMatrices : /\ SwitchRows(n, r, s) \in SquareMatrices
                                  /\ RowsOf(SwitchRows(n, r, s), n, x, u, y, u)
  BY SwitchRowsIs
<1>2. PICK c \in SquareMatrices : c = SwitchRows(a, r, s) /\ RowsOf(c, a, x, u, y, u)
  BY <1>1
<1>3. PICK n \in SquareMatrices : n = SwitchRows(m, r, s) /\ RowsOf(n, m, x, u, y, u)
  BY <1>1
<1>4. Product(c, b) = n
  BY <1>2, <1>3, ProductFollows
<1> QED
  BY <1>2, <1>3, <1>4

\* when one is subtracted
LEMMA SubtractFollows ==
  ASSUME Sound, NEW a \in SquareMatrices, NEW b \in SquareMatrices, NEW m \in SquareMatrices,
         Product(a, b) = m, NEW r \in Rows, NEW targets \in SUBSET Rows, NEW multiple,
         Multiples(targets, multiple)
  PROVE  Product(SubtractRow(a, r, targets, multiple), b) = SubtractRow(m, r, targets, multiple)
<1>1. PICK x, y \in [Rows -> Int], u, s \in [Rows -> Rows] :
        \A n \in SquareMatrices : RowsOf(SubtractRow(n, r, targets, multiple), n, x, u, y, s)
  BY SubtractRowCombines
<1>2. ASSUME NEW n \in SquareMatrices
      PROVE  SubtractRow(n, r, targets, multiple) \in SquareMatrices
  <2>1. Subtracted(SubtractRow(n, r, targets, multiple), n, r, targets, multiple)
    BY SubtractRowIs
  <2> QED
    BY <2>1 DEF Subtracted
<1>3. PICK c \in SquareMatrices :
        c = SubtractRow(a, r, targets, multiple) /\ RowsOf(c, a, x, u, y, s)
  BY <1>1, <1>2
<1>4. PICK n \in SquareMatrices :
        n = SubtractRow(m, r, targets, multiple) /\ RowsOf(n, m, x, u, y, s)
  BY <1>1, <1>2
<1>5. Product(c, b) = n
  BY <1>3, <1>4, ProductFollows
<1> QED
  BY <1>3, <1>4, <1>5

\* and when one is divided.
LEMMA DivideFollows ==
  ASSUME Sound, NEW a \in SquareMatrices, NEW b \in SquareMatrices, NEW m \in SquareMatrices,
         Product(a, b) = m, NEW r \in Rows, NEW d \in Elements \ {0}
  PROVE  Product(DivideRow(a, r, d), b) = DivideRow(m, r, d)
<1>1. PICK x, y \in [Rows -> Int], u \in [Rows -> Rows] :
        \A n \in SquareMatrices : RowsOf(DivideRow(n, r, d), n, x, u, y, u)
  BY DivideRowCombines
<1>2. PICK c \in SquareMatrices : c = DivideRow(a, r, d) /\ RowsOf(c, a, x, u, y, u)
  BY <1>1, DivideRowIs
<1>3. PICK n \in SquareMatrices : n = DivideRow(m, r, d) /\ RowsOf(n, m, x, u, y, u)
  BY <1>1, DivideRowIs
<1>4. Product(c, b) = n
  BY <1>2, <1>3, ProductFollows
<1> QED
  BY <1>2, <1>3, <1>4

-----------------------------------------------------------------------------
(* The steps                                                               *)

\* The values of rowPhase.
Phases == {"eliminate", "sort", "reduce", "done", "threw", "fault"}

\* The types stay when the variables keep theirs.
LEMMA TypesNext ==
  ASSUME UNCHANGED reductionArguments, Types,
         matrix' \in [Rows -> [Columns -> Elements]], companion' \in SquareMatrices,
         switches' \in Nat, pivots' \in [Rows -> Rows], row' \in Nat \ {0}, limit' \in Nat,
         rowPhase' \in Phases
  PROVE  Types'
<1>1. shape' = shape /\ method' = method /\ original' = original
  BY DEF reductionArguments
<1>2. Rows' = Rows /\ Columns' = Columns /\ Elements' = Elements /\ SquareMatrices' = SquareMatrices
  BY Frame
<1> QED
  BY <1>1, <1>2 DEF Types, Phases

\* The inductive invariant is preserved by each step: InvertedMatrix throws,
LEMMA NotSquareStep ==
  ASSUME ShapesAssumption, IInv, NotSquare
  PROVE  IInv'
<1>1. UNCHANGED reductionArguments /\ ~Square /\ Dynamic /\ (~Square' /\ Dynamic')
  BY Frame DEF NotSquare, Square
<1>2. Types'
  BY <1>1, TypesNext DEF NotSquare, Throw, IInv, Types, Phases
<1>3. Places'
  BY <1>1 DEF NotSquare, Throw, Places
<1> QED
  BY <1>1, <1>2, <1>3 DEF IInv, Tracks, DynamicForm, StaticForm

\* a column is eliminated,
LEMMA EliminateStep ==
  ASSUME ShapesAssumption, IInv, Eliminate
  PROVE  IInv'
<1>1. /\ UNCHANGED reductionArguments /\ Square /\ Dynamic /\ Square' /\ Dynamic'
      /\ rowPhase = "eliminate" /\ rowPhase' = "eliminate" /\ row \in Rows /\ row' = row + 1
      /\ UNCHANGED <<pivots, limit, answer>>
  BY Frame DEF Eliminate, Square
<1>2. Sound /\ Types
  BY ShapeSound DEF IInv, Types
<1>3. matrix \in SquareMatrices /\ original \in SquareMatrices /\ companion \in SquareMatrices
  BY <1>1, <1>2, MatrixSquare
<1>4. Product(companion, original) = matrix
  BY <1>1 DEF IInv, Tracks
<1>5. Cleared(matrix, row)
  BY <1>1 DEF IInv, DynamicForm
<1>6. Rows = 1..shape.rows /\ shape.rows \in Nat \ {0} /\ Rows = Columns
  BY <1>1, <1>2, RowsAre DEF Square, Rows, Columns
<1>7. /\ matrix' \in SquareMatrices /\ companion' \in SquareMatrices /\ switches' \in Nat
      /\ Product(companion', original) = matrix' /\ Cleared(matrix', row + 1)
  <2> DEFINE nonZero == {r \in row..shape.rows : matrix[r][row] # 0}
  <2>1. CASE nonZero = {}
    <3>1. matrix' = matrix /\ companion' = companion /\ switches' = switches
      BY <2>1 DEF Eliminate
    <3>2. \A i \in row..shape.rows : matrix[i][row] = 0
      BY <2>1
    <3>3. Cleared(matrix, row + 1)
      BY <1>1, <1>2, <1>3, <1>5, <3>2, PassedClears
    <3> QED
      BY <1>2, <1>3, <1>4, <3>1, <3>3 DEF Types
  <2>2. CASE nonZero # {}
    <3>1. PICK pivot : pivot = Min(nonZero)
      OBVIOUS
    <3>2. pivot \in nonZero
      <4>1. nonZero \in SUBSET Nat
        BY <1>1, <1>6
      <4>2. \E n \in nonZero : \A k \in nonZero : n <= k
        BY <2>2, <4>1, LeastOf
      <4> QED
        BY <3>1, <4>2, Zenon DEF Min
    <3>3. pivot \in Rows /\ pivot >= row /\ matrix[pivot][row] # 0
      BY <1>1, <1>6, <3>2
    <3>4. PICK upper : upper = SwitchRows(matrix, row, pivot)
      OBVIOUS
    <3>5. PICK below : below = row + 1..shape.rows
      OBVIOUS
    <3>6. PICK multiple :
            multiple = [r \in below |-> Quotient(upper[r][row], upper[row][row])]
      OBVIOUS
    <3>7. /\ matrix' = SubtractRow(upper, row, below, multiple)
          /\ companion' = SubtractRow(SwitchRows(companion, row, pivot), row, below, multiple)
          /\ switches' = IF pivot # row THEN switches + 1 ELSE switches
      BY <2>2, <3>1, <3>4, <3>5, <3>6, Zenon DEF Eliminate
    <3>8. /\ upper \in SquareMatrices /\ Multiples(below, multiple) /\ below \in SUBSET Rows
          /\ SubtractRow(upper, row, below, multiple) \in SquareMatrices
          /\ Cleared(SubtractRow(upper, row, below, multiple), row + 1)
      <4>1. Elimination(matrix, row, pivot, upper, below, multiple)
        BY <3>3, <3>4, <3>5, <3>6 DEF Elimination
      <4> QED
        BY <1>1, <1>2, <1>3, <1>5, <3>3, <4>1, EliminateClears
    <3>9. PICK c : c = SwitchRows(companion, row, pivot)
      OBVIOUS
    <3>10. c \in SquareMatrices
      BY <1>1, <1>2, <1>3, <3>3, <3>9, SwitchRowsIs
    <3>11. Product(c, original) = upper
      BY <1>1, <1>2, <1>3, <1>4, <3>3, <3>4, <3>9, SwitchFollows
    <3>12. Product(SubtractRow(c, row, below, multiple), original) =
             SubtractRow(upper, row, below, multiple)
      BY <1>1, <1>2, <1>3, <3>8, <3>10, <3>11, SubtractFollows
    <3>13. Subtracted(SubtractRow(c, row, below, multiple), c, row, below, multiple)
      BY <1>1, <1>2, <3>8, <3>10, SubtractRowIs
    <3>14. SubtractRow(c, row, below, multiple) \in SquareMatrices
      BY <3>13 DEF Subtracted
    <3>15. switches' \in Nat
      BY <1>2, <3>7 DEF Types
    <3> QED
      BY <3>7, <3>8, <3>9, <3>12, <3>14, <3>15
  <2> QED
    BY <2>1, <2>2
<1>8. Types'
  <2>1. matrix' \in [Rows -> [Columns -> Elements]]
    BY <1>6, <1>7 DEF SquareMatrices
  <2>2. row' \in Nat \ {0}
    BY <1>1, <1>6
  <2>3. pivots' \in [Rows -> Rows] /\ limit' \in Nat /\ rowPhase' \in Phases
    BY <1>1, <1>2 DEF Types, Phases
  <2> QED
    BY <1>1, <1>2, <1>7, <2>1, <2>2, <2>3, TypesNext
<1>9. Places' /\ StaticForm'
  BY <1>1 DEF Places, StaticForm
<1>10. Tracks'
  BY <1>1, <1>7, Frame DEF Tracks
<1>11. DynamicForm'
  BY <1>1, <1>7, Frame DEF DynamicForm
<1> QED
  BY <1>8, <1>9, <1>10, <1>11 DEF IInv

\* the elimination ends,
LEMMA EliminatedStep ==
  ASSUME ShapesAssumption, IInv, Eliminated
  PROVE  IInv'
<1>1. /\ UNCHANGED reductionArguments /\ UNCHANGED <<matrix, companion, switches, pivots, limit>>
      /\ Dynamic /\ Dynamic' /\ (Square' <=> Square) /\ (Inverts' <=> Inverts)
      /\ rowPhase = "eliminate" /\ row > shape.rows
  BY Frame DEF Eliminated
<1>2. Sound /\ Types /\ Places
  BY ShapeSound DEF IInv, Types
<1>3. Square
  BY <1>1, <1>2, RowsAre DEF Places
<1>4. matrix \in SquareMatrices /\ Rows = 1..shape.rows /\ shape.rows \in Nat \ {0}
  BY <1>2, <1>3, MatrixSquare, RowsAre
<1>5. \/ method = "Determinant" /\ rowPhase' = "done" /\ row' = row
      \/ rowPhase' = "threw" /\ row' = row
      \/ /\ method = "InvertedMatrix" /\ rowPhase' = "reduce" /\ row' = 1
         /\ DiagonalProduct(matrix, Diagonal) # 0
  BY <1>1 DEF Eliminated, Answer, Throw, Dynamic
<1>6. Cleared(matrix, row)
  BY <1>1, <1>3 DEF IInv, DynamicForm
<1>7. rowPhase' = "reduce" => Reducing(matrix, 1)
  <2> SUFFICES ASSUME rowPhase' = "reduce" PROVE Reducing(matrix, 1)
    OBVIOUS
  <2>1. NonZeroDiagonal(matrix)
    BY <1>2, <1>4, <1>5, DiagonalIs
  <2>2. Cleared(matrix, shape.rows)
    BY <1>1, <1>2, <1>4, <1>6 DEF Cleared, Types
  <2>3. \A c \in Rows : ~ (c < 1)
    BY <1>4
  <2> QED
    BY <2>1, <2>2, <2>3 DEF Reducing
<1>8. Types'
  BY <1>1, <1>2, <1>5, TypesNext DEF Types, Phases
<1>9. Places' /\ StaticForm'
  BY <1>1, <1>3, <1>5 DEF Places, StaticForm, Inverts
<1>10. Tracks'
  BY <1>1, <1>3, <1>5, Frame DEF Tracks, IInv
<1>11. DynamicForm'
  <2>1. rowPhase' = "reduce" => Reducing(matrix', row')
    BY <1>1, <1>5, <1>7
  <2> QED
    BY <1>1, <1>5, <2>1, Frame DEF DynamicForm, Inverts
<1> QED
  BY <1>8, <1>9, <1>10, <1>11 DEF IInv

\* a row is reduced,
LEMMA FullyReduceStep ==
  ASSUME ShapesAssumption, IInv, FullyReduce
  PROVE  IInv'
<1>1. /\ UNCHANGED reductionArguments /\ Dynamic /\ Dynamic'
      /\ (Square' <=> Square) /\ (Inverts' <=> Inverts)
      /\ rowPhase = "reduce" /\ rowPhase' = "reduce" /\ row \in Rows /\ row' = row + 1
      /\ UNCHANGED <<pivots, limit, switches, answer>>
  BY Frame DEF FullyReduce
<1>2. Sound /\ Types /\ Places /\ Square /\ Inverts
  BY <1>1, ShapeSound DEF IInv, Types, Places
<1>3. matrix \in SquareMatrices /\ original \in SquareMatrices /\ companion \in SquareMatrices
  BY <1>2, MatrixSquare
<1>4. Product(companion, original) = matrix
  BY <1>1, <1>2 DEF IInv, Tracks
<1>5. Reducing(matrix, row)
  BY <1>1, <1>2 DEF IInv, DynamicForm
<1>6. Rows = 1..shape.rows /\ shape.rows \in Nat \ {0} /\ Rows = Columns
  BY <1>2, RowsAre DEF Square, Rows, Columns
<1>7. PICK pivot : pivot = matrix[row][row]
  OBVIOUS
<1>8. PICK divided : divided = DivideRow(matrix, row, pivot)
  OBVIOUS
<1>9. PICK above : above = {r \in 1..row - 1 : divided[r][row] # 0}
  OBVIOUS
<1>10. PICK multiple : multiple = [r \in above |-> divided[r][row]]
  OBVIOUS
<1>11. /\ divided \in SquareMatrices /\ Multiples(above, multiple) /\ above \in SUBSET Rows
       /\ pivot \in Elements \ {0}
       /\ SubtractRow(divided, row, above, multiple) \in SquareMatrices
       /\ Reducing(SubtractRow(divided, row, above, multiple), row + 1)
  BY <1>1, <1>2, <1>3, <1>5, <1>7, <1>8, <1>9, <1>10, ReduceUnits
<1>12. PICK c : c = DivideRow(companion, row, pivot)
  OBVIOUS
<1>13. /\ matrix' = SubtractRow(divided, row, above, multiple)
       /\ companion' = SubtractRow(c, row, above, multiple)
  <2>1. pivot # 0
    BY <1>11
  <2> QED
    BY <1>7, <1>8, <1>9, <1>10, <1>12, <2>1, Zenon DEF FullyReduce
<1>14. c \in SquareMatrices
  BY <1>1, <1>2, <1>3, <1>11, <1>12, DivideRowIs
<1>15. Product(c, original) = divided
  BY <1>1, <1>2, <1>3, <1>4, <1>8, <1>11, <1>12, DivideFollows
<1>16. Product(companion', original) = matrix'
  BY <1>1, <1>2, <1>3, <1>11, <1>13, <1>14, <1>15, SubtractFollows
<1>17. companion' \in SquareMatrices
  <2>1. Subtracted(SubtractRow(c, row, above, multiple), c, row, above, multiple)
    BY <1>1, <1>2, <1>11, <1>14, SubtractRowIs
  <2> QED
    BY <1>13, <2>1 DEF Subtracted
<1>18. Types'
  <2>1. matrix' \in [Rows -> [Columns -> Elements]]
    BY <1>6, <1>11, <1>13 DEF SquareMatrices
  <2>2. row' \in Nat \ {0}
    BY <1>1, <1>6
  <2>3. switches' \in Nat /\ pivots' \in [Rows -> Rows] /\ limit' \in Nat /\ rowPhase' \in Phases
    BY <1>1, <1>2 DEF Types, Phases
  <2> QED
    BY <1>1, <1>2, <1>17, <2>1, <2>2, <2>3, TypesNext
<1>19. Places' /\ StaticForm'
  BY <1>1, <1>2 DEF Places, StaticForm
<1>20. Tracks'
  BY <1>1, <1>16, Frame DEF Tracks
<1>21. DynamicForm'
  BY <1>1, <1>11, <1>13, Frame DEF DynamicForm
<1> QED
  BY <1>18, <1>19, <1>20, <1>21 DEF IInv

\* a row of a static matrix is eliminated,
LEMMA StaticEliminateStep ==
  ASSUME ShapesAssumption, IInv, StaticEliminate
  PROVE  IInv'
<1>1. /\ UNCHANGED reductionArguments /\ ~Dynamic /\ ~Dynamic'
      /\ (Square' <=> Square) /\ (Inverts' <=> Inverts)
      /\ rowPhase = "eliminate" /\ row \in Rows
      /\ row' = (IF row = shape.rows THEN 1 ELSE row + 1)
      /\ UNCHANGED <<switches, limit>>
  BY Frame DEF StaticEliminate
<1>2. Sound /\ Types /\ Places
  BY ShapeSound DEF IInv, Types
<1>3. Square /\ switches = 0 /\ limit = shape.rows - 1
  BY <1>1, <1>2 DEF Places
<1>4. matrix \in SquareMatrices /\ original \in SquareMatrices /\ companion \in SquareMatrices
  BY <1>2, <1>3, MatrixSquare
<1>5. Rows = 1..shape.rows /\ shape.rows \in Nat \ {0} /\ Rows = Columns
  BY <1>2, <1>3, RowsAre DEF Square, Rows, Columns
<1>6. pivots \in [Rows -> Rows]
  BY <1>2 DEF Types
<1> DEFINE nonZero == {c \in Columns : matrix[row][c] # 0}
<1>7. PICK column : column = IF nonZero = {} THEN 1 ELSE Min(nonZero)
  OBVIOUS
<1>8. column \in Rows /\ First(matrix, row, column)
  <2>1. CASE nonZero = {}
    BY <1>5, <1>7, <2>1 DEF First, ZeroRow
  <2>2. CASE nonZero # {}
    <3>1. nonZero \in SUBSET Nat
      BY <1>5
    <3>2. \E n \in nonZero : \A k \in nonZero : n <= k
      BY <2>2, <3>1, LeastOf
    <3>3. column \in nonZero /\ \A k \in nonZero : column <= k
      BY <1>7, <2>2, <3>2, Zenon DEF Min
    <3>4. column \in Rows /\ matrix[row][column] # 0
      BY <1>5, <3>3
    <3>5. \A c \in Rows : c < column => matrix[row][c] = 0
      BY <1>5, <3>3
    <3> QED
      BY <3>4, <3>5 DEF First
  <2> QED
    BY <2>1, <2>2
<1>9. PICK below : below = {r \in row + 1..shape.rows : matrix[r][column] # 0}
  OBVIOUS
<1>10. PICK multiple :
         multiple = [r \in below |-> Quotient(matrix[r][column], matrix[row][column])]
  OBVIOUS
<1>11. PICK q : q = [pivots EXCEPT ![row] = column]
  OBVIOUS
<1>12. q \in [Rows -> Rows]
  BY <1>6, <1>8, <1>11
<1>13. /\ pivots' = q
       /\ \/ nonZero = {} /\ below # {} /\ rowPhase' = "fault" /\ UNCHANGED <<matrix, companion>>
          \/ /\ ~ (nonZero = {} /\ below # {})
             /\ matrix' = SubtractRow(matrix, row, below, multiple)
             /\ companion' = IF Inverts THEN SubtractRow(companion, row, below, multiple)
                                        ELSE companion
             /\ rowPhase' = IF row = shape.rows THEN "sort" ELSE rowPhase
  BY <1>7, <1>9, <1>10, <1>11, Zenon DEF StaticEliminate, Fault
<1>14. row' \in Nat \ {0}
  BY <1>1, <1>5
<1>15. CASE rowPhase' = "fault" /\ UNCHANGED <<matrix, companion>>
  <2>1. Types'
    BY <1>1, <1>2, <1>12, <1>13, <1>14, <1>15, TypesNext DEF Types, Phases
  <2>2. Places'
    BY <1>1, <1>3, <1>15 DEF Places
  <2> QED
    BY <1>1, <1>15, <2>1, <2>2 DEF IInv, Tracks, DynamicForm, StaticForm
<1>16. CASE /\ ~ (nonZero = {} /\ below # {})
            /\ matrix' = SubtractRow(matrix, row, below, multiple)
            /\ companion' = IF Inverts THEN SubtractRow(companion, row, below, multiple)
                                       ELSE companion
            /\ rowPhase' = IF row = shape.rows THEN "sort" ELSE rowPhase
  <2>1. matrix[row][column] = 0 => below = {}
    <3>1. nonZero # {} => matrix[row][column] # 0
      BY <1>5, <1>8 DEF First, ZeroRow
    <3> QED
      BY <1>16, <3>1
  <2>2. Multiples(below, multiple) /\ below \in SUBSET Rows
    <3>1. below \in SUBSET Rows
      BY <1>1, <1>5, <1>9
    <3>2. \A r \in below : matrix[row][column] \in Elements \ {0} /\ matrix[r][column] \in Elements
      BY <1>1, <1>4, <1>8, <2>1, <3>1 DEF SquareMatrices
    <3>3. \A r \in below : multiple[r] \in Int
      BY <1>2, <1>10, <3>2, QuotientsAre, ElementsInt
    <3> QED
      BY <3>1, <3>3 DEF Multiples
  <2>3. matrix' \in SquareMatrices
    <3>1. Subtracted(SubtractRow(matrix, row, below, multiple), matrix, row, below, multiple)
      BY <1>1, <1>2, <1>4, <2>2, SubtractRowIs
    <3> QED
      BY <1>16, <3>1 DEF Subtracted
  <2>4. companion' \in SquareMatrices
    <3>1. Subtracted(SubtractRow(companion, row, below, multiple), companion, row, below, multiple)
      BY <1>1, <1>2, <1>4, <2>2, SubtractRowIs
    <3> QED
      BY <1>4, <1>16, <3>1 DEF Subtracted
  <2>5. rowPhase' = IF row = shape.rows THEN "sort" ELSE "eliminate"
    BY <1>1, <1>16
  <2>6. Types'
    <3>1. matrix' \in [Rows -> [Columns -> Elements]]
      BY <1>5, <2>3 DEF SquareMatrices
    <3>2. switches' \in Nat /\ limit' \in Nat /\ rowPhase' \in Phases
      BY <1>1, <1>2, <2>5 DEF Types, Phases
    <3> QED
      BY <1>1, <1>2, <1>12, <1>13, <1>14, <2>4, <3>1, <3>2, TypesNext
  <2>7. Places'
    <3>1. shape' = shape /\ limit' = shape.rows - 1 /\ limit' < shape.rows /\ switches' = 0
      BY <1>1, <1>3, <1>5 DEF reductionArguments
    <3>2. rowPhase' = "sort" => (limit' > 0 => row' <= limit')
      BY <1>1, <1>5, <2>5, <3>1
    <3> QED
      BY <1>1, <1>3, <2>5, <3>1, <3>2 DEF Places
  <2>8. Tracks'
    <3> SUFFICES ASSUME Inverts PROVE Product(companion', original) = matrix'
      BY <1>1, Frame DEF Tracks
    <3>1. Product(companion, original) = matrix
      BY <1>1, <1>3 DEF IInv, Tracks
    <3>2. Product(SubtractRow(companion, row, below, multiple), original) =
            SubtractRow(matrix, row, below, multiple)
      BY <1>1, <1>2, <1>4, <2>2, <3>1, SubtractFollows
    <3> QED
      BY <1>16, <3>2
  <2>9. ASSUME Inverts PROVE Leads(matrix', pivots', row + 1)
    <3>1. Leads(matrix, pivots, row)
      BY <1>1, <1>3, <2>9 DEF IInv, StaticForm
    <3>2. Leads(SubtractRow(matrix, row, below, multiple), [pivots EXCEPT ![row] = column], row + 1)
      BY <1>1, <1>2, <1>4, <1>6, <1>8, <1>9, <1>10, <2>1, <3>1, ClearsLeads, Zenon
    <3> QED
      BY <1>11, <1>13, <1>16, <3>2
  <2>10. StaticForm'
    <3> SUFFICES ASSUME Inverts PROVE StaticForm'
      BY <1>1 DEF StaticForm
    <3>1. CASE row = shape.rows
      <4>1. rowPhase' = "sort" /\ row' = 1 /\ shape' = shape /\ limit' = shape.rows - 1
        BY <1>1, <1>3, <2>5, <3>1 DEF reductionArguments
      <4>2. Leads(matrix', pivots', shape.rows + 1)
        BY <2>9, <3>1
      <4>3. Ascending(pivots, IF limit < shape.rows - 1 THEN shape.rows ELSE row)'
        <5>1. Rows' = Rows /\ \A i \in Rows : ~ (i < 1)
          BY <1>1, <1>5, Frame
        <5>2. ~ (shape.rows - 1 < shape.rows - 1)
          BY <1>5
        <5> QED
          BY <4>1, <5>1, <5>2 DEF Ascending
      <4> QED
        BY <1>1, <4>1, <4>2, <4>3, Frame DEF StaticForm
    <3>2. CASE row # shape.rows
      <4>1. rowPhase' = "eliminate" /\ row' = row + 1
        BY <1>1, <2>5, <3>2
      <4>2. Leads(matrix', pivots', row')
        BY <2>9, <4>1
      <4> QED
        BY <1>1, <4>1, <4>2, Frame DEF StaticForm
    <3> QED
      BY <3>1, <3>2
  <2> QED
    BY <1>1, <2>6, <2>7, <2>8, <2>10 DEF IInv, DynamicForm
<1> QED
  BY <1>13, <1>15, <1>16

\* two pivots are compared,
LEMMA SortPivotsStep ==
  ASSUME ShapesAssumption, IInv, SortPivots
  PROVE  IInv'
<1>1. /\ UNCHANGED reductionArguments
      /\ (Square' <=> Square) /\ (Inverts' <=> Inverts) /\ (Dynamic' <=> Dynamic)
      /\ shape' = shape /\ Rows' = Rows
      /\ rowPhase = "sort" /\ rowPhase' = "sort" /\ limit > 0 /\ UNCHANGED <<companion, answer>>
      /\ \/ row < limit /\ row' = row + 1 /\ limit' = limit
         \/ ~ (row < limit) /\ row' = 1 /\ limit' = limit - 1
  BY Frame DEF SortPivots, reductionArguments
<1>2. Sound /\ Types /\ Places
  BY ShapeSound DEF IInv, Types
<1>3. ~Dynamic /\ Square /\ limit < shape.rows /\ row <= limit
  BY <1>1, <1>2 DEF Places
<1>4. matrix \in SquareMatrices
  BY <1>2, <1>3, MatrixSquare
<1>5. Rows = 1..shape.rows /\ shape.rows \in Nat \ {0} /\ Rows = Columns
  BY <1>2, <1>3, RowsAre DEF Square, Rows, Columns
<1>6. pivots \in [Rows -> Rows] /\ limit \in Nat /\ row \in Nat \ {0} /\ switches \in Nat
  BY <1>2 DEF Types
<1>7. row \in Rows /\ row + 1 \in Rows
  BY <1>3, <1>5, <1>6
<1>8. \/ /\ pivots[row] > pivots[row + 1]
         /\ pivots' = SwitchRows(pivots, row, row + 1)
         /\ matrix' = IF Inverts THEN StaticSwapRow(matrix, pivots[row], pivots[row + 1])
                                 ELSE matrix
         /\ switches' = switches + 1
      \/ ~ (pivots[row] > pivots[row + 1]) /\ UNCHANGED <<pivots, matrix, switches>>
  BY DEF SortPivots
<1>9. matrix' \in SquareMatrices
  <2>1. pivots[row] \in Rows /\ pivots[row + 1] \in Rows
    BY <1>6, <1>7
  <2>2. StaticSwapRow(matrix, pivots[row], pivots[row + 1]) \in SquareMatrices
    BY <1>4, <2>1 DEF StaticSwapRow, SquareMatrices
  <2> QED
    BY <1>4, <1>8, <2>2
<1>10. pivots' \in [Rows -> Rows]
  <2>1. SwitchRows(pivots, row, row + 1) \in [Rows -> Rows]
    BY <1>6, <1>7 DEF SwitchRows
  <2> QED
    BY <1>6, <1>8, <2>1
<1>11. Types'
  <2>1. matrix' \in [Rows -> [Columns -> Elements]]
    BY <1>5, <1>9 DEF SquareMatrices
  <2>2. row' \in Nat \ {0} /\ limit' \in Nat /\ switches' \in Nat
    BY <1>1, <1>6, <1>8
  <2>3. companion' \in SquareMatrices /\ rowPhase' \in Phases
    BY <1>1, <1>2 DEF Types, Phases
  <2> QED
    BY <1>1, <1>2, <1>10, <2>1, <2>2, <2>3, TypesNext
<1>12. Places'
  <2>1. limit' < shape.rows /\ (limit' > 0 => row' <= limit')
    BY <1>1, <1>3, <1>5, <1>6
  <2> QED
    BY <1>1, <1>3, <2>1 DEF Places
<1>13. switches' = 0 => /\ switches = 0 /\ pivots[row] <= pivots[row + 1]
                        /\ UNCHANGED <<pivots, matrix>>
  BY <1>5, <1>6, <1>7, <1>8
<1>14. Tracks'
  <2> SUFFICES ASSUME Inverts, switches' = 0 PROVE Product(companion', original) = matrix'
    BY <1>1, <1>3, Frame DEF Tracks
  <2>1. Product(companion, original) = matrix
    BY <1>1, <1>3, <1>13 DEF IInv, Tracks
  <2> QED
    BY <1>1, <1>13, <2>1
<1>15. StaticForm'
  <2> SUFFICES ASSUME Inverts, switches' = 0
               PROVE  /\ Leads(matrix', pivots', shape.rows + 1)
                      /\ Ascending(pivots', IF limit' < shape.rows - 1 THEN shape.rows ELSE row')
    <3>1. Ascending(pivots, IF limit < shape.rows - 1 THEN shape.rows ELSE row)' <=>
            Ascending(pivots', IF limit' < shape.rows - 1 THEN shape.rows ELSE row')
      BY <1>1 DEF Ascending
    <3> QED
      BY <1>1, <3>1, Frame DEF StaticForm
  <2>1. /\ Leads(matrix, pivots, shape.rows + 1)
        /\ Ascending(pivots, IF limit < shape.rows - 1 THEN shape.rows ELSE row)
    BY <1>1, <1>3, <1>13 DEF IInv, StaticForm
  <2>2. PICK p : p = pivots
    OBVIOUS
  <2>3. p[row] <= p[row + 1] /\ pivots' = p /\ matrix' = matrix
    BY <1>13, <2>2
  <2>4. CASE limit < shape.rows - 1
    <3>1. limit' < shape.rows - 1
      BY <1>1, <1>5, <1>6, <2>4
    <3> QED
      BY <2>1, <2>2, <2>3, <2>4, <3>1
  <2>5. CASE ~ (limit < shape.rows - 1)
    <3>1. limit = shape.rows - 1
      BY <1>3, <1>5, <1>6, <2>5
    <3>2. Ascending(p, row)
      BY <2>1, <2>2, <2>5
    <3>3. Ascending(p, row + 1)
      <4> SUFFICES ASSUME NEW i \in Rows, i < row + 1, i + 1 \in Rows PROVE p[i] <= p[i + 1]
        BY DEF Ascending
      <4>1. i < row \/ i = row
        BY <1>5, <1>6
      <4> QED
        BY <2>3, <3>2, <4>1 DEF Ascending
    <3>4. CASE row < limit
      <4>1. limit' = limit /\ row' = row + 1
        BY <1>1, <3>4
      <4> QED
        BY <2>1, <2>2, <2>3, <2>5, <3>3, <4>1
    <3>5. CASE ~ (row < limit)
      <4>1. limit' = limit - 1 /\ row + 1 = shape.rows /\ limit' < shape.rows - 1
        BY <1>1, <1>3, <1>5, <1>6, <3>1, <3>5
      <4> QED
        BY <2>1, <2>2, <2>3, <3>3, <4>1
    <3> QED
      BY <3>4, <3>5
  <2> QED
    BY <2>4, <2>5
<1> QED
  BY <1>1, <1>3, <1>11, <1>12, <1>14, <1>15 DEF IInv, DynamicForm

\* the sort ends,
LEMMA PivotsSortedStep ==
  ASSUME ShapesAssumption, IInv, PivotsSorted
  PROVE  IInv'
<1>1. /\ UNCHANGED reductionArguments
      /\ (Square' <=> Square) /\ (Inverts' <=> Inverts) /\ (Dynamic' <=> Dynamic)
      /\ rowPhase = "sort" /\ limit = 0
      /\ UNCHANGED <<matrix, companion, switches, pivots, limit>>
      /\ \/ Inverts /\ rowPhase' = "reduce" /\ row' = 2
         \/ ~Inverts /\ rowPhase' = "done" /\ row' = row
  BY Frame DEF PivotsSorted, Answer
<1>2. Sound /\ Types /\ Places
  BY ShapeSound DEF IInv, Types
<1>3. ~Dynamic /\ Square
  BY <1>1, <1>2 DEF Places
<1>4. matrix \in SquareMatrices
  BY <1>2, <1>3, MatrixSquare
<1>5. Rows = 1..shape.rows /\ shape.rows \in Nat \ {0} /\ pivots \in [Rows -> Rows]
  BY <1>2, RowsAre DEF Types
<1>6. Types'
  BY <1>1, <1>2, TypesNext DEF Types, Phases
<1>7. Places'
  BY <1>1, <1>3 DEF Places
<1>8. Tracks'
  BY <1>1, <1>3, Frame DEF Tracks, IInv
<1>9. StaticForm'
  <2> SUFFICES ASSUME Inverts, switches = 0
               PROVE  \/ ZeroRow(matrix', 1)
                      \/ AboutToFault(matrix', pivots', 2)
                      \/ Diagonalizing(matrix', pivots', 2)
    BY <1>1, Frame DEF StaticForm
  <2>1. /\ Leads(matrix, pivots, shape.rows + 1)
        /\ Ascending(pivots, IF limit < shape.rows - 1 THEN shape.rows ELSE row)
    BY <1>1, <1>3 DEF IInv, StaticForm
  <2>2. Ascending(pivots, shape.rows)
    <3>1. CASE shape.rows = 1
      BY <1>5, <3>1 DEF Ascending
    <3>2. CASE shape.rows # 1
      <4>1. limit < shape.rows - 1
        BY <1>1, <1>5, <3>2
      <4> QED
        BY <2>1, <4>1
    <3> QED
      BY <3>1, <3>2
  <2> QED
    BY <1>1, <1>2, <1>4, <1>5, <2>1, <2>2, SortedForm
<1> QED
  BY <1>1, <1>3, <1>6, <1>7, <1>8, <1>9 DEF IInv, DynamicForm

\* a row of a static matrix is reduced,
LEMMA StaticReduceStep ==
  ASSUME ShapesAssumption, IInv, StaticReduce
  PROVE  IInv'
<1>1. /\ UNCHANGED reductionArguments /\ ~Dynamic /\ ~Dynamic'
      /\ (Square' <=> Square) /\ (Inverts' <=> Inverts)
      /\ rowPhase = "reduce" /\ row \in Rows /\ row' = row + 1
      /\ UNCHANGED <<switches, pivots, limit>>
  BY Frame DEF StaticReduce
<1>2. Sound /\ Types /\ Places /\ Square /\ Inverts
  BY <1>1, ShapeSound DEF IInv, Types, Places
<1>3. matrix \in SquareMatrices /\ original \in SquareMatrices /\ companion \in SquareMatrices
  BY <1>2, MatrixSquare
<1>4. Rows = 1..shape.rows /\ shape.rows \in Nat \ {0} /\ Rows = Columns
  BY <1>2, RowsAre DEF Square, Rows, Columns
<1>5. pivots \in [Rows -> Rows] /\ row' \in Nat \ {0}
  BY <1>1, <1>2, <1>4 DEF Types
<1>6. PICK column \in Rows : column = pivots[row]
  BY <1>1, <1>5
<1>7. PICK above : above = {r \in 1..row - 1 : matrix[r][column] # 0}
  OBVIOUS
<1>8. PICK multiple :
        multiple = [r \in above |-> Quotient(matrix[r][column], matrix[row][column])]
  OBVIOUS
<1>9. \/ /\ matrix[row][column] = 0 /\ above # {}
         /\ rowPhase' = "fault" /\ UNCHANGED <<matrix, companion>>
      \/ /\ ~ (matrix[row][column] = 0 /\ above # {})
         /\ matrix' = SubtractRow(matrix, row, above, multiple)
         /\ companion' = SubtractRow(companion, row, above, multiple)
         /\ UNCHANGED <<rowPhase, answer>>
  BY <1>6, <1>7, <1>8, Zenon DEF StaticReduce, Fault
<1>10. CASE rowPhase' = "fault" /\ UNCHANGED <<matrix, companion>>
  <2>1. Types'
    BY <1>1, <1>2, <1>5, <1>10, TypesNext DEF Types, Phases
  <2>2. Places'
    BY <1>1, <1>2, <1>10 DEF Places
  <2> QED
    BY <1>1, <1>10, <2>1, <2>2 DEF IInv, Tracks, DynamicForm, StaticForm
<1>11. CASE /\ ~ (matrix[row][column] = 0 /\ above # {})
            /\ matrix' = SubtractRow(matrix, row, above, multiple)
            /\ companion' = SubtractRow(companion, row, above, multiple)
            /\ UNCHANGED <<rowPhase, answer>>
  <2>1. Multiples(above, multiple) /\ above \in SUBSET Rows
    <3>1. above \in SUBSET Rows
      BY <1>1, <1>4, <1>7
    <3>2. \A r \in above : matrix[row][column] \in Elements \ {0} /\ matrix[r][column] \in Elements
      BY <1>1, <1>3, <1>11, <3>1 DEF SquareMatrices
    <3>3. \A r \in above : multiple[r] \in Int
      BY <1>2, <1>8, <3>2, QuotientsAre, ElementsInt
    <3> QED
      BY <3>1, <3>3 DEF Multiples
  <2>2. Subtracted(matrix', matrix, row, above, multiple)
    BY <1>1, <1>2, <1>3, <1>11, <2>1, SubtractRowIs
  <2>3. matrix' \in SquareMatrices
    BY <2>2 DEF Subtracted
  <2>4. companion' \in SquareMatrices
    <3>1. Subtracted(companion', companion, row, above, multiple)
      BY <1>1, <1>2, <1>3, <1>11, <2>1, SubtractRowIs
    <3> QED
      BY <3>1 DEF Subtracted
  <2>5. Types'
    <3>1. matrix' \in [Rows -> [Columns -> Elements]]
      BY <1>4, <2>3 DEF SquareMatrices
    <3>2. switches' \in Nat /\ limit' \in Nat /\ rowPhase' \in Phases /\ pivots' \in [Rows -> Rows]
      BY <1>1, <1>2, <1>11 DEF Types, Phases
    <3> QED
      BY <1>1, <1>2, <1>5, <2>4, <3>1, <3>2, TypesNext
  <2>6. Places'
    BY <1>1, <1>2, <1>11 DEF Places
  <2>7. Tracks'
    <3> SUFFICES ASSUME switches = 0 PROVE Product(companion', original) = matrix'
      BY <1>1, Frame DEF Tracks
    <3>1. Product(companion, original) = matrix
      BY <1>1, <1>2 DEF IInv, Tracks
    <3> QED
      BY <1>1, <1>2, <1>3, <1>11, <2>1, <3>1, SubtractFollows
  <2>8. StaticForm'
    <3> SUFFICES ASSUME switches = 0
                 PROVE  \/ ZeroRow(matrix', 1)
                        \/ AboutToFault(matrix', pivots', row')
                        \/ Diagonalizing(matrix', pivots', row')
      BY <1>1, <1>11, Frame DEF StaticForm
    <3>1. CASE ZeroRow(matrix, 1)
      <4>1. 1 \in Rows /\ matrix[1][column] = 0
        BY <1>4, <3>1 DEF ZeroRow
      <4>2. 1 \notin above
        BY <1>7, <4>1
      <4>3. matrix'[1] = matrix[1]
        BY <2>2, <4>1, <4>2 DEF Subtracted
      <4> QED
        BY <3>1, <4>3 DEF ZeroRow
    <3>2. CASE AboutToFault(matrix, pivots, row)
      <4>1. row = 2 /\ column = 1 /\ matrix[row][column] = 0 /\ matrix[1][column] # 0
        BY <1>6, <3>2 DEF AboutToFault
      <4>2. 1 \in above
        BY <1>7, <4>1
      <4> QED
        BY <1>11, <4>1, <4>2
    <3>3. CASE Diagonalizing(matrix, pivots, row)
      <4>1. Diagonalizing(SubtractRow(matrix, row, above, multiple), pivots, row + 1)
        BY <1>1, <1>2, <1>3, <1>5, <1>6, <1>7, <1>8, <3>3, ReduceDiagonalizes
      <4> QED
        BY <1>1, <1>11, <4>1
    <3>4. \/ ZeroRow(matrix, 1)
          \/ AboutToFault(matrix, pivots, row)
          \/ Diagonalizing(matrix, pivots, row)
      BY <1>1, <1>2 DEF IInv, StaticForm
    <3> QED
      BY <3>1, <3>2, <3>3, <3>4
  <2> QED
    BY <1>1, <2>5, <2>6, <2>7, <2>8 DEF IInv, DynamicForm
<1> QED
  BY <1>9, <1>10, <1>11

\* the inverse is returned,
LEMMA ReducedStep ==
  ASSUME ShapesAssumption, IInv, Reduced
  PROVE  IInv'
<1>1. /\ UNCHANGED reductionArguments
      /\ (Square' <=> Square) /\ (Inverts' <=> Inverts) /\ (Dynamic' <=> Dynamic)
      /\ rowPhase = "reduce" /\ row > shape.rows /\ rowPhase' = "done" /\ answer' = companion
      /\ UNCHANGED <<matrix, companion, switches, pivots, row, limit>>
  BY Frame DEF Reduced, Answer
<1>2. Sound /\ Types /\ Places /\ Square /\ Inverts
  BY <1>1, ShapeSound DEF IInv, Types, Places
<1>3. matrix \in SquareMatrices
  BY <1>2, MatrixSquare
<1>4. Rows = 1..shape.rows /\ shape.rows \in Nat \ {0} /\ \A c \in Rows : c < row
  BY <1>1, <1>2, RowsAre DEF Types
<1>5. Types'
  BY <1>1, <1>2, TypesNext DEF Types, Phases
<1>6. Places'
  BY <1>1, <1>2 DEF Places
<1>7. Tracks'
  BY <1>1, <1>2, Frame DEF Tracks, IInv
<1>8. DynamicForm'
  <2> SUFFICES ASSUME Dynamic PROVE matrix' = Unit
    BY <1>1, Frame DEF DynamicForm
  <2>1. Reducing(matrix, row)
    BY <1>1, <1>2 DEF IInv, DynamicForm
  <2>2. \A i, c \in Rows : matrix[i][c] = IF i = c THEN 1 ELSE 0
    BY <1>4, <2>1 DEF Reducing
  <2>3. matrix = Unit
    BY <1>3, <2>2 DEF SquareMatrices, Unit
  <2> QED
    BY <1>1, <2>3
<1>9. StaticForm'
  <2> SUFFICES ASSUME ~Dynamic, switches = 0, NonZeroDiagonal(matrix)
               PROVE  \A i, j \in Rows : i # j => matrix[i][j] = 0
    <3>1. (\A i, j \in Rows : i # j => matrix[i][j] = 0)' <=>
            (\A i, j \in Rows : i # j => matrix'[i][j] = 0)
      BY <1>1, Frame
    <3> QED
      BY <1>1, <3>1, Frame DEF StaticForm
  <2>1. ~ ZeroRow(matrix, 1)
    BY <1>4 DEF ZeroRow, NonZeroDiagonal
  <2>2. ~ AboutToFault(matrix, pivots, row)
    BY <1>1, <1>4 DEF AboutToFault
  <2>3. Diagonalizing(matrix, pivots, row)
    BY <1>1, <1>2, <2>1, <2>2 DEF IInv, StaticForm
  <2> QED
    BY <1>4, <2>3 DEF Diagonalizing
<1> QED
  BY <1>5, <1>6, <1>7, <1>8, <1>9 DEF IInv

\* nothing changes.
LEMMA Stutters ==
  ASSUME IInv, UNCHANGED reductionVars
  PROVE  IInv'
<1>1. /\ UNCHANGED reductionArguments
      /\ UNCHANGED <<matrix, companion, switches, pivots, row, limit, rowPhase, answer>>
      /\ shape' = shape
  BY DEF reductionVars, reductionArguments
<1>2. Types'
  BY <1>1, TypesNext DEF IInv, Types, Phases
<1>3. Places'
  BY <1>1, Frame DEF IInv, Places
<1>4. Tracks'
  BY <1>1, Frame DEF IInv, Tracks
<1>5. DynamicForm'
  BY <1>1, Frame DEF IInv, DynamicForm
<1>6. StaticForm'
  <2>1. Rows' = Rows
    BY <1>1, Frame
  <2>2. Ascending(pivots, IF limit < shape.rows - 1 THEN shape.rows ELSE row)' <=>
          Ascending(pivots, IF limit < shape.rows - 1 THEN shape.rows ELSE row)
    BY <1>1, <2>1 DEF Ascending
  <2>3. (\A i, j \in Rows : i # j => matrix[i][j] = 0)' <=>
          (\A i, j \in Rows : i # j => matrix[i][j] = 0)
    BY <1>1, <2>1
  <2> QED
    BY <1>1, <2>2, <2>3, Frame DEF IInv, StaticForm
<1> QED
  BY <1>2, <1>3, <1>4, <1>5, <1>6 DEF IInv

\* The inductive invariant says that the inverse is right.
LEMMA IInvRight ==
  ASSUME ShapesAssumption, IInv
  PROVE  InverseRight
<1>1. Sound /\ Types /\ Places
  BY ShapeSound DEF IInv, Types
<1>2. shape.rows = shape.columns /\ rowPhase # "fault" =>
        (Dynamic \/ (Inverts /\ switches = 0) => Product(companion, original) = matrix)
  BY DEF IInv, Tracks, Square
<1>3. ASSUME rowPhase = "done", Inverts, Dynamic \/ InOrder
      PROVE  Product(answer, original) =
               [i \in Rows |-> [j \in Rows |->
                  IF i # j THEN 0 ELSE IF Dynamic THEN 1 ELSE matrix[i][i]]]
  <2>1. Square /\ answer = companion
    BY <1>1, <1>3 DEF Places
  <2>2. matrix \in SquareMatrices
    BY <1>1, <2>1, MatrixSquare
  <2>3. Product(answer, original) = matrix
    BY <1>2, <1>3, <2>1 DEF Square, InOrder
  <2>4. CASE Dynamic
    <3>1. matrix = Unit
      BY <1>3, <2>1, <2>4 DEF IInv, DynamicForm
    <3>2. Unit = [i \in Rows |-> [j \in Rows |->
                    IF i # j THEN 0 ELSE IF Dynamic THEN 1 ELSE matrix[i][i]]]
      BY <2>4 DEF Unit
    <3> QED
      BY <2>3, <3>1, <3>2, Zenon
  <2>5. CASE ~Dynamic
    <3>1. \A i, j \in Rows : i # j => matrix[i][j] = 0
      BY <1>3, <2>5 DEF IInv, StaticForm, InOrder, NonZeroDiagonal
    <3>2. \A i, j \in Rows : matrix[i][j] =
            IF i # j THEN 0 ELSE IF Dynamic THEN 1 ELSE matrix[i][i]
      BY <2>5, <3>1
    <3>3. matrix = [i \in Rows |-> [j \in Rows |-> matrix[i][j]]]
      BY <2>2 DEF SquareMatrices
    <3>4. matrix = [i \in Rows |-> [j \in Rows |->
                      IF i # j THEN 0 ELSE IF Dynamic THEN 1 ELSE matrix[i][i]]]
      BY <3>2, <3>3
    <3> QED
      BY <2>3, <3>4, Zenon
  <2> QED
    BY <2>4, <2>5
<1> QED
  BY <1>2, <1>3 DEF InverseRight

\* InvertedMatrix returns the inverse of a matrix of any size over any field of
\* remainders; GetInverse, for pivots in order, returns it but for its pivots.
THEOREM InverseCorrect ==
  ASSUME ShapesAssumption
  PROVE  ReductionSpec => []InverseRight
<1>1. ReductionInit => IInv
  BY Initially
<1>2. IInv /\ [ReductionNext]_reductionVars => IInv'
  BY NotSquareStep, EliminateStep, EliminatedStep, FullyReduceStep, StaticEliminateStep,
     SortPivotsStep, PivotsSortedStep, StaticReduceStep, ReducedStep, Stutters
  DEF ReductionNext
<1>3. IInv => InverseRight
  BY IInvRight
<1> QED
  BY <1>1, <1>2, <1>3, PTL DEF ReductionSpec

-----------------------------------------------------------------------------
(* Products, vectors and quaternions: the functions of MatrixAlgebra       *)

CONSTANTS
  Prime,    \* the parameters of MatrixAlgebra,
  MaxSide

VARIABLES
  function, left, right, result  \* and its variables

Algebra == INSTANCE MatrixAlgebra

\* Three integers.
Triples == [1..3 -> Int]

\* Products of three pairs that are the same have the same sum.
LEMMA SameThree ==
  ASSUME NEW p \in Nat \ {0},
         NEW a1 \in Int, NEW a2 \in Int, NEW a3 \in Int, NEW b1 \in Int, NEW b2 \in Int,
         NEW b3 \in Int, NEW c1 \in Int, NEW c2 \in Int, NEW c3 \in Int, NEW d1 \in Int,
         NEW d2 \in Int, NEW d3 \in Int,
         Same(a1, b1, p), Same(a2, b2, p), Same(a3, b3, p),
         Same(c1, d1, p), Same(c2, d2, p), Same(c3, d3, p)
  PROVE  Same(a1 * c1 + a2 * c2 + a3 * c3, b1 * d1 + b2 * d2 + b3 * d3, p)
<1>1. PICK x1 \in Int : x1 = a1 * c1
  OBVIOUS
<1>2. PICK x2 \in Int : x2 = a2 * c2
  OBVIOUS
<1>3. PICK x3 \in Int : x3 = a3 * c3
  OBVIOUS
<1>4. PICK y1 \in Int : y1 = b1 * d1
  OBVIOUS
<1>5. PICK y2 \in Int : y2 = b2 * d2
  OBVIOUS
<1>6. PICK y3 \in Int : y3 = b3 * d3
  OBVIOUS
<1>7. Same(x1, y1, p) /\ Same(x2, y2, p) /\ Same(x3, y3, p)
  <2>1. Same(a1 * c1, b1 * d1, p)
    BY SameTimes, Zenon
  <2>2. Same(a2 * c2, b2 * d2, p)
    BY SameTimes, Zenon
  <2>3. Same(a3 * c3, b3 * d3, p)
    BY SameTimes, Zenon
  <2> QED
    BY <1>1, <1>2, <1>3, <1>4, <1>5, <1>6, <2>1, <2>2, <2>3, Zenon
<1>8. Same(x1 + x2, y1 + y2, p)
  BY <1>7, SamePlus
<1>9. Same(x1 + x2 + x3, y1 + y2 + y3, p)
  <2>1. x1 + x2 \in Int /\ y1 + y2 \in Int
    OBVIOUS
  <2> QED
    BY <1>7, <1>8, <2>1, SamePlus
<1> QED
  BY <1>1, <1>2, <1>3, <1>4, <1>5, <1>6, <1>9, Zenon

\* So have two products with coefficients.
LEMMA SamePair ==
  ASSUME NEW p \in Nat \ {0}, NEW x \in Int, NEW y \in Int, NEW a \in Int, NEW b \in Int,
         NEW c \in Int, NEW d \in Int, NEW a2 \in Int, NEW b2 \in Int, NEW c2 \in Int, NEW d2 \in Int,
         Same(a, a2, p), Same(b, b2, p), Same(c, c2, p), Same(d, d2, p)
  PROVE  Same(x + y * (a * b + c * d), x + y * (a2 * b2 + c2 * d2), p)
<1>1. PICK u \in Int : u = a * b
  OBVIOUS
<1>2. PICK u2 \in Int : u2 = a2 * b2
  OBVIOUS
<1>3. PICK v \in Int : v = c * d
  OBVIOUS
<1>4. PICK v2 \in Int : v2 = c2 * d2
  OBVIOUS
<1>5. Same(u, u2, p) /\ Same(v, v2, p)
  BY <1>1, <1>2, <1>3, <1>4, SameTimes
<1>6. Same(u + v, u2 + v2, p)
  BY <1>5, SamePlus
<1>7. PICK q \in Int : u + v = u2 + v2 + q * p
  BY <1>6 DEF Same
<1>8. PICK r \in Int : r = y * q
  OBVIOUS
<1>9. y * (u + v) = y * (u2 + v2) + r * p
  BY <1>7, <1>8
<1>10. x + y * (u + v) = (x + y * (u2 + v2)) + r * p
  BY <1>9
<1> QED
  BY <1>1, <1>2, <1>3, <1>4, <1>10 DEF Same

\* The sum of three numbers
LEMMA SumThree ==
  ASSUME NEW f \in [1..3 -> Int]
  PROVE  SumTo(f, 3) = f[1] + f[2] + f[3]
<1>1. PICK t : Adds(t, f, 3) /\ SumTo(f, 3) = t[3]
  BY SumIs
<1>2. /\ t[0] = 0 /\ t[1] = t[0] + f[1] /\ t[2] = t[1] + f[2] /\ t[3] = t[2] + f[3]
      /\ f[1] \in Int /\ f[2] \in Int /\ f[3] \in Int
  BY <1>1 DEF Adds
<1> QED
  BY <1>1, <1>2

\* and of four.
LEMMA SumFour ==
  ASSUME NEW f \in [1..4 -> Int]
  PROVE  SumTo(f, 4) = f[1] + f[2] + f[3] + f[4]
<1>1. PICK t : Adds(t, f, 4) /\ SumTo(f, 4) = t[4]
  BY SumIs
<1>2. /\ t[0] = 0 /\ t[1] = t[0] + f[1] /\ t[2] = t[1] + f[2] /\ t[3] = t[2] + f[3] /\ t[4] = t[3] + f[4]
      /\ f[1] \in Int /\ f[2] \in Int /\ f[3] \in Int /\ f[4] \in Int
  BY <1>1 DEF Adds
<1> QED
  BY <1>1, <1>2

\* The sums of MatrixAlgebra are those of RowReduction.
LEMMA SumsSame ==
  ASSUME NEW f, NEW n
  PROVE  Algebra!SumTo(f, n) = SumTo(f, n)
  BY DEF Algebra!SumTo, SumTo

\* A dot product, modulo the prime,
LEMMA DotIs ==
  ASSUME NEW v \in Triples, NEW w \in Triples
  PROVE  Algebra!DotProduct(v, w) = (v[1] * w[1] + v[2] * w[2] + v[3] * w[3]) % Prime
<1>1. DOMAIN v = 1..3 /\ Len(v) = 3
  BY DEF Triples
<1>2. \A n \in 1..3 : v[n] \in Int /\ w[n] \in Int
  BY DEF Triples
<1>3. PICK f : f = [n \in 1..3 |-> v[n] * w[n]]
  OBVIOUS
<1>4. f \in [1..3 -> Int]
  BY <1>2, <1>3
<1>5. SumTo(f, 3) = f[1] + f[2] + f[3]
  BY <1>4, SumThree
<1>6. Algebra!DotProduct(v, w) = SumTo(f, 3) % Prime
  BY <1>1, <1>3, SumsSame DEF Algebra!DotProduct, Algebra!Mod
<1> QED
  BY <1>3, <1>5, <1>6

\* and the square of the length of a quaternion.
LEMMA NormIs ==
  ASSUME NEW q \in [1..4 -> Int]
  PROVE  Algebra!Norm(q) = (q[1] * q[1] + q[2] * q[2] + q[3] * q[3] + q[4] * q[4]) % Prime
<1>1. DOMAIN q = 1..4 /\ Len(q) = 4
  OBVIOUS
<1>2. \A n \in 1..4 : q[n] \in Int
  OBVIOUS
<1>3. PICK f : f = [n \in 1..4 |-> q[n] * q[n]]
  OBVIOUS
<1>4. f \in [1..4 -> Int]
  BY <1>2, <1>3
<1>5. SumTo(f, 4) = f[1] + f[2] + f[3] + f[4]
  BY <1>4, SumFour
<1>6. Algebra!Norm(q) = SumTo(f, 4) % Prime
  BY <1>1, <1>3, SumsSame DEF Algebra!Norm, Algebra!DotProduct, Algebra!Mod
<1> QED
  BY <1>3, <1>5, <1>6

\* The integers of which the rotation matrix of a quaternion has the remainders,
Turns(a, i, j, k) ==
  <<1 - 2 * (j * j + k * k), 2 * (i * j - k * a), 2 * (i * k + j * a),
    2 * (i * j + k * a), 1 - 2 * (i * i + k * k), 2 * (j * k - i * a),
    2 * (i * k - j * a), 2 * (j * k + i * a), 1 - 2 * (i * i + j * j)>>

\* and what they do to a vector, row by row.
Image(e, v) == [r \in 1..3 |-> e[3 * r - 2] * v[1] + e[3 * r - 1] * v[2] + e[3 * r] * v[3]]

\* The columns of e have length 1 and are perpendicular, and the first times another
\* is the third, modulo p.
Rotates(e, p) ==
  /\ Same(e[1] * e[1] + e[4] * e[4] + e[7] * e[7], 1, p)
  /\ Same(e[2] * e[2] + e[5] * e[5] + e[8] * e[8], 1, p)
  /\ Same(e[3] * e[3] + e[6] * e[6] + e[9] * e[9], 1, p)
  /\ Same(e[1] * e[2] + e[4] * e[5] + e[7] * e[8], 0, p)
  /\ Same(e[1] * e[3] + e[4] * e[6] + e[7] * e[9], 0, p)
  /\ Same(e[2] * e[3] + e[5] * e[6] + e[8] * e[9], 0, p)
  /\ Same(e[4] * e[8] - e[7] * e[5], e[3], p)
  /\ Same(e[7] * e[2] - e[1] * e[8], e[6], p)
  /\ Same(e[1] * e[5] - e[4] * e[2], e[9], p)
  /\ Same(e[4] * e[9] - e[7] * e[6], -e[2], p)
  /\ Same(e[7] * e[3] - e[1] * e[9], -e[5], p)
  /\ Same(e[1] * e[6] - e[4] * e[3], -e[8], p)

\* Numbers that differ by a multiple of one that p divides are the same modulo p.
LEMMA SameBy ==
  ASSUME NEW x \in Int, NEW y \in Int, NEW p \in Nat \ {0}, NEW f \in Int, NEW s \in Int, NEW q \in Int,
         s = q * p, x = y + f * s
  PROVE  Same(x, y, p)
<1>1. PICK r \in Int : r = f * q
  OBVIOUS
<1>2. x = y + r * p
  BY <1>1
<1> QED
  BY <1>2 DEF Same

\* The matrix of a quaternion of length 1 rotates.
LEMMA TurnsRotate ==
  ASSUME NEW p \in Nat \ {0}, NEW a \in Int, NEW i \in Int, NEW j \in Int, NEW k \in Int,
         Same(a * a + i * i + j * j + k * k, 1, p)
  PROVE  Rotates(Turns(a, i, j, k), p)
<1>1. PICK q \in Int : a * a + i * i + j * j + k * k = 1 + q * p
  BY DEF Same
<1> DEFINE s == a * a + i * i + j * j + k * k - 1
           e1 == 1 - 2 * (j * j + k * k)
           e2 == 2 * (i * j - k * a)
           e3 == 2 * (i * k + j * a)
           e4 == 2 * (i * j + k * a)
           e5 == 1 - 2 * (i * i + k * k)
           e6 == 2 * (j * k - i * a)
           e7 == 2 * (i * k - j * a)
           e8 == 2 * (j * k + i * a)
           e9 == 1 - 2 * (i * i + j * j)
<1>2. s = q * p /\ s \in Int
  BY <1>1
<1>3. /\ e1 \in Int /\ e2 \in Int /\ e3 \in Int /\ e4 \in Int /\ e5 \in Int
      /\ e6 \in Int /\ e7 \in Int /\ e8 \in Int /\ e9 \in Int
  OBVIOUS
<1>4. /\ e1 * e1 + e4 * e4 + e7 * e7 = 1 + (4 * (j * j + k * k)) * s
      /\ e2 * e2 + e5 * e5 + e8 * e8 = 1 + (4 * (i * i + k * k)) * s
      /\ e3 * e3 + e6 * e6 + e9 * e9 = 1 + (4 * (i * i + j * j)) * s
  OBVIOUS
<1>5. /\ e1 * e2 + e4 * e5 + e7 * e8 = 0 + (-4 * i * j) * s
      /\ e1 * e3 + e4 * e6 + e7 * e9 = 0 + (-4 * i * k) * s
      /\ e2 * e3 + e5 * e6 + e8 * e9 = 0 + (-4 * j * k) * s
  OBVIOUS
<1>6. /\ e4 * e8 - e7 * e5 = e3 + (4 * i * k) * s
      /\ e7 * e2 - e1 * e8 = e6 + (4 * j * k) * s
      /\ e1 * e5 - e4 * e2 = e9 + (4 * k * k) * s
  OBVIOUS
<1>7. /\ e4 * e9 - e7 * e6 = -e2 + (-4 * i * j) * s
      /\ e7 * e3 - e1 * e9 = -e5 + (-4 * j * j) * s
      /\ e1 * e6 - e4 * e3 = -e8 + (-4 * j * k) * s
  OBVIOUS
<1>8. /\ 4 * (j * j + k * k) \in Int /\ 4 * (i * i + k * k) \in Int /\ 4 * (i * i + j * j) \in Int
      /\ -4 * i * j \in Int /\ -4 * i * k \in Int /\ -4 * j * k \in Int
      /\ 4 * i * k \in Int /\ 4 * j * k \in Int /\ 4 * k * k \in Int /\ -4 * j * j \in Int
  OBVIOUS
<1> HIDE DEF s, e1, e2, e3, e4, e5, e6, e7, e8, e9
<1>9. ASSUME NEW x \in Int, NEW y \in Int, NEW f \in Int, x = y + f * s
      PROVE  Same(x, y, p)
  BY <1>2, <1>9, SameBy
<1>10. /\ e1 * e1 + e4 * e4 + e7 * e7 \in Int /\ e2 * e2 + e5 * e5 + e8 * e8 \in Int
       /\ e3 * e3 + e6 * e6 + e9 * e9 \in Int /\ e1 * e2 + e4 * e5 + e7 * e8 \in Int
       /\ e1 * e3 + e4 * e6 + e7 * e9 \in Int /\ e2 * e3 + e5 * e6 + e8 * e9 \in Int
       /\ e4 * e8 - e7 * e5 \in Int /\ e7 * e2 - e1 * e8 \in Int /\ e1 * e5 - e4 * e2 \in Int
       /\ e4 * e9 - e7 * e6 \in Int /\ e7 * e3 - e1 * e9 \in Int /\ e1 * e6 - e4 * e3 \in Int
       /\ -e2 \in Int /\ -e5 \in Int /\ -e8 \in Int /\ 1 \in Int /\ 0 \in Int
  BY <1>3
<1>11. /\ Same(e1 * e1 + e4 * e4 + e7 * e7, 1, p)
       /\ Same(e2 * e2 + e5 * e5 + e8 * e8, 1, p)
       /\ Same(e3 * e3 + e6 * e6 + e9 * e9, 1, p)
  BY <1>4, <1>8, <1>9, <1>10, Zenon
<1>12. /\ Same(e1 * e2 + e4 * e5 + e7 * e8, 0, p)
       /\ Same(e1 * e3 + e4 * e6 + e7 * e9, 0, p)
       /\ Same(e2 * e3 + e5 * e6 + e8 * e9, 0, p)
  BY <1>5, <1>8, <1>9, <1>10, Zenon
<1>13. /\ Same(e4 * e8 - e7 * e5, e3, p) /\ Same(e7 * e2 - e1 * e8, e6, p)
       /\ Same(e1 * e5 - e4 * e2, e9, p)
  BY <1>3, <1>6, <1>8, <1>9, <1>10, Zenon
<1>14. /\ Same(e4 * e9 - e7 * e6, -e2, p) /\ Same(e7 * e3 - e1 * e9, -e5, p)
       /\ Same(e1 * e6 - e4 * e3, -e8, p)
  BY <1>7, <1>8, <1>9, <1>10, Zenon
<1>15. PICK e : e = Turns(a, i, j, k)
  OBVIOUS
<1>16. /\ e[1] = e1 /\ e[2] = e2 /\ e[3] = e3 /\ e[4] = e4 /\ e[5] = e5 /\ e[6] = e6
       /\ e[7] = e7 /\ e[8] = e8 /\ e[9] = e9
  BY <1>15 DEF Turns, e1, e2, e3, e4, e5, e6, e7, e8, e9
<1>17. Rotates(e, p)
  BY <1>11, <1>12, <1>13, <1>14, <1>16 DEF Rotates
<1> QED
  BY <1>15, <1>17


\* A rotation is undone by its transpose:
LEMMA TurnsBack ==
  ASSUME NEW p \in Nat \ {0}, NEW e \in [1..9 -> Int], NEW v \in Triples, Rotates(e, p),
         NEW u, u = Image(e, v)
  PROVE  /\ u \in Triples
         /\ Same(e[1] * u[1] + e[4] * u[2] + e[7] * u[3], v[1], p)
         /\ Same(e[2] * u[1] + e[5] * u[2] + e[8] * u[3], v[2], p)
         /\ Same(e[3] * u[1] + e[6] * u[2] + e[9] * u[3], v[3], p)
<1>1. \A n \in 1..9 : e[n] \in Int
  OBVIOUS
<1>2. v[1] \in Int /\ v[2] \in Int /\ v[3] \in Int
  BY DEF Triples
<1>3. PICK x \in Int, y \in Int, z \in Int : x = v[1] /\ y = v[2] /\ z = v[3]
  BY <1>2
<1>4. PICK e1 \in Int, e2 \in Int, e3 \in Int : e1 = e[1] /\ e2 = e[2] /\ e3 = e[3]
  BY <1>1
<1>5. PICK e4 \in Int, e5 \in Int, e6 \in Int : e4 = e[4] /\ e5 = e[5] /\ e6 = e[6]
  BY <1>1
<1>6. PICK e7 \in Int, e8 \in Int, e9 \in Int : e7 = e[7] /\ e8 = e[8] /\ e9 = e[9]
  BY <1>1
<1>7. /\ u[1] = e1 * x + e2 * y + e3 * z /\ u[2] = e4 * x + e5 * y + e6 * z
      /\ u[3] = e7 * x + e8 * y + e9 * z
  BY <1>3, <1>4, <1>5, <1>6 DEF Image
<1>8. u \in Triples
  <2>1. \A n \in 1..3 : u[n] \in Int
    BY <1>7
  <2>2. u = [n \in 1..3 |-> u[n]]
    BY DEF Image
  <2> QED
    BY <2>1, <2>2 DEF Triples
<1>9. PICK q11 \in Int : e1 * e1 + e4 * e4 + e7 * e7 = 1 + q11 * p
  BY <1>4, <1>5, <1>6 DEF Rotates, Same
<1>10. PICK q22 \in Int : e2 * e2 + e5 * e5 + e8 * e8 = 1 + q22 * p
  BY <1>4, <1>5, <1>6 DEF Rotates, Same
<1>11. PICK q33 \in Int : e3 * e3 + e6 * e6 + e9 * e9 = 1 + q33 * p
  BY <1>4, <1>5, <1>6 DEF Rotates, Same
<1>12. PICK q12 \in Int : e1 * e2 + e4 * e5 + e7 * e8 = 0 + q12 * p
  BY <1>4, <1>5, <1>6 DEF Rotates, Same
<1>13. PICK q13 \in Int : e1 * e3 + e4 * e6 + e7 * e9 = 0 + q13 * p
  BY <1>4, <1>5, <1>6 DEF Rotates, Same
<1>14. PICK q23 \in Int : e2 * e3 + e5 * e6 + e8 * e9 = 0 + q23 * p
  BY <1>4, <1>5, <1>6 DEF Rotates, Same
<1>15. Same(e1 * u[1] + e4 * u[2] + e7 * u[3], x, p)
  <2>1. e1 * u[1] + e4 * u[2] + e7 * u[3]
          = (e1 * e1 + e4 * e4 + e7 * e7) * x + (e1 * e2 + e4 * e5 + e7 * e8) * y
              + (e1 * e3 + e4 * e6 + e7 * e9) * z
    BY <1>7
  <2>2. e1 * u[1] + e4 * u[2] + e7 * u[3] = (1 + q11 * p) * x + (0 + q12 * p) * y + (0 + q13 * p) * z
    BY <1>9, <1>12, <1>13, <2>1, Zenon
  <2>3. PICK q \in Int : q = q11 * x + q12 * y + q13 * z
    OBVIOUS
  <2>4. (1 + q11 * p) * x + (0 + q12 * p) * y + (0 + q13 * p) * z = x + q * p
    BY <2>3
  <2> QED
    BY <2>2, <2>4, Zenon DEF Same
<1>16. Same(e2 * u[1] + e5 * u[2] + e8 * u[3], y, p)
  <2>1. e2 * u[1] + e5 * u[2] + e8 * u[3]
          = (e1 * e2 + e4 * e5 + e7 * e8) * x + (e2 * e2 + e5 * e5 + e8 * e8) * y
              + (e2 * e3 + e5 * e6 + e8 * e9) * z
    BY <1>7
  <2>2. e2 * u[1] + e5 * u[2] + e8 * u[3] = (0 + q12 * p) * x + (1 + q22 * p) * y + (0 + q23 * p) * z
    BY <1>10, <1>12, <1>14, <2>1, Zenon
  <2>3. PICK q \in Int : q = q12 * x + q22 * y + q23 * z
    OBVIOUS
  <2>4. (0 + q12 * p) * x + (1 + q22 * p) * y + (0 + q23 * p) * z = y + q * p
    BY <2>3
  <2> QED
    BY <2>2, <2>4, Zenon DEF Same
<1>17. Same(e3 * u[1] + e6 * u[2] + e9 * u[3], z, p)
  <2>1. e3 * u[1] + e6 * u[2] + e9 * u[3]
          = (e1 * e3 + e4 * e6 + e7 * e9) * x + (e2 * e3 + e5 * e6 + e8 * e9) * y
              + (e3 * e3 + e6 * e6 + e9 * e9) * z
    BY <1>7
  <2>2. e3 * u[1] + e6 * u[2] + e9 * u[3] = (0 + q13 * p) * x + (0 + q23 * p) * y + (1 + q33 * p) * z
    BY <1>11, <1>13, <1>14, <2>1, Zenon
  <2>3. PICK q \in Int : q = q13 * x + q23 * y + q33 * z
    OBVIOUS
  <2>4. (0 + q13 * p) * x + (0 + q23 * p) * y + (1 + q33 * p) * z = z + q * p
    BY <2>3
  <2> QED
    BY <2>2, <2>4, Zenon DEF Same
<1> QED
  BY <1>3, <1>4, <1>5, <1>6, <1>8, <1>15, <1>16, <1>17

\* it keeps lengths
LEMMA KeepsLength ==
  ASSUME NEW p \in Nat \ {0}, NEW e \in [1..9 -> Int], NEW v \in Triples, Rotates(e, p),
         NEW u, u = Image(e, v)
  PROVE  Same(u[1] * u[1] + u[2] * u[2] + u[3] * u[3], v[1] * v[1] + v[2] * v[2] + v[3] * v[3], p)
<1>1. /\ \A n \in 1..9 : e[n] \in Int
      /\ \A n \in 1..3 : v[n] \in Int /\ u[n] \in Int
  BY TurnsBack DEF Triples
<1>2. PICK x \in Int, y \in Int, z \in Int : x = v[1] /\ y = v[2] /\ z = v[3]
  BY <1>1
<1>3. PICK a \in Int : a = e[1] * u[1] + e[4] * u[2] + e[7] * u[3]
  BY <1>1
<1>4. PICK b \in Int : b = e[2] * u[1] + e[5] * u[2] + e[8] * u[3]
  BY <1>1
<1>5. PICK c \in Int : c = e[3] * u[1] + e[6] * u[2] + e[9] * u[3]
  BY <1>1
<1>6. Same(a, x, p) /\ Same(b, y, p) /\ Same(c, z, p)
  BY <1>2, <1>3, <1>4, <1>5, TurnsBack
<1>7. Same(x, x, p) /\ Same(y, y, p) /\ Same(z, z, p)
  BY SameRefl
<1>8. Same(x * a + y * b + z * c, x * x + y * y + z * z, p)
  BY <1>6, <1>7, SameThree, Zenon
<1>9. u[1] * u[1] + u[2] * u[2] + u[3] * u[3] = x * a + y * b + z * c
  <2>1. PICK e1 \in Int, e2 \in Int, e3 \in Int : e1 = e[1] /\ e2 = e[2] /\ e3 = e[3]
    BY <1>1
  <2>2. PICK e4 \in Int, e5 \in Int, e6 \in Int : e4 = e[4] /\ e5 = e[5] /\ e6 = e[6]
    BY <1>1
  <2>3. PICK e7 \in Int, e8 \in Int, e9 \in Int : e7 = e[7] /\ e8 = e[8] /\ e9 = e[9]
    BY <1>1
  <2>4. PICK u1 \in Int, u2 \in Int, u3 \in Int : u1 = u[1] /\ u2 = u[2] /\ u3 = u[3]
    BY <1>1
  <2>5. /\ u1 = e1 * x + e2 * y + e3 * z /\ u2 = e4 * x + e5 * y + e6 * z
        /\ u3 = e7 * x + e8 * y + e9 * z
    BY <1>2, <2>1, <2>2, <2>3, <2>4 DEF Image
  <2>6. /\ a = e1 * u1 + e4 * u2 + e7 * u3 /\ b = e2 * u1 + e5 * u2 + e8 * u3
        /\ c = e3 * u1 + e6 * u2 + e9 * u3
    BY <1>3, <1>4, <1>5, <2>1, <2>2, <2>3, <2>4
  <2>7. u1 * u1 + u2 * u2 + u3 * u3
          = u1 * (e1 * x + e2 * y + e3 * z) + u2 * (e4 * x + e5 * y + e6 * z)
              + u3 * (e7 * x + e8 * y + e9 * z)
    BY <2>5, Zenon
  <2>8. u1 * (e1 * x + e2 * y + e3 * z) + u2 * (e4 * x + e5 * y + e6 * z)
              + u3 * (e7 * x + e8 * y + e9 * z)
          = x * (e1 * u1 + e4 * u2 + e7 * u3) + y * (e2 * u1 + e5 * u2 + e8 * u3)
              + z * (e3 * u1 + e6 * u2 + e9 * u3)
    OBVIOUS
  <2> QED
    BY <2>4, <2>6, <2>7, <2>8, Zenon
<1> QED
  BY <1>2, <1>8, <1>9, Zenon

\* and the cross products of the first axis.
LEMMA KeepsCross ==
  ASSUME NEW p \in Nat \ {0}, NEW e \in [1..9 -> Int], NEW v \in Triples, Rotates(e, p),
         NEW u, u = Image(e, v)
  PROVE  /\ Same(e[4] * u[3] - e[7] * u[2], v[2] * e[3] + v[3] * (-e[2]), p)
         /\ Same(e[7] * u[1] - e[1] * u[3], v[2] * e[6] + v[3] * (-e[5]), p)
         /\ Same(e[1] * u[2] - e[4] * u[1], v[2] * e[9] + v[3] * (-e[8]), p)
<1>1. /\ \A n \in 1..9 : e[n] \in Int
      /\ \A n \in 1..3 : v[n] \in Int /\ u[n] \in Int
  BY TurnsBack DEF Triples
<1>2. PICK x \in Int, y \in Int, z \in Int : x = v[1] /\ y = v[2] /\ z = v[3]
  BY <1>1
<1>3. PICK e1 \in Int, e2 \in Int, e3 \in Int : e1 = e[1] /\ e2 = e[2] /\ e3 = e[3]
  BY <1>1
<1>4. PICK e4 \in Int, e5 \in Int, e6 \in Int : e4 = e[4] /\ e5 = e[5] /\ e6 = e[6]
  BY <1>1
<1>5. PICK e7 \in Int, e8 \in Int, e9 \in Int : e7 = e[7] /\ e8 = e[8] /\ e9 = e[9]
  BY <1>1
<1>6. /\ u[1] = e1 * x + e2 * y + e3 * z /\ u[2] = e4 * x + e5 * y + e6 * z
      /\ u[3] = e7 * x + e8 * y + e9 * z
  BY <1>2, <1>3, <1>4, <1>5 DEF Image
<1>7. ASSUME NEW f \in Int, NEW g \in Int, NEW h \in Int, NEW k \in Int,
             Same(f, h, p), Same(g, k, p)
      PROVE  Same(y * f + z * g, y * h + z * k, p)
  <2>1. PICK q \in Int : f = h + q * p
    BY <1>7 DEF Same
  <2>2. PICK r \in Int : g = k + r * p
    BY <1>7 DEF Same
  <2>3. PICK s \in Int : s = y * q + z * r
    OBVIOUS
  <2>4. y * (h + q * p) + z * (k + r * p) = (y * h + z * k) + s * p
    BY <2>3
  <2>5. y * f + z * g = (y * h + z * k) + s * p
    BY <2>1, <2>2, <2>4, Zenon
  <2> QED
    BY <2>5 DEF Same
<1>8. Same(e4 * u[3] - e7 * u[2], y * e3 + z * (-e2), p)
  <2>1. e4 * u[3] - e7 * u[2] = y * (e4 * e8 - e7 * e5) + z * (e4 * e9 - e7 * e6)
    BY <1>6
  <2>2. Same(e4 * e8 - e7 * e5, e3, p) /\ Same(e4 * e9 - e7 * e6, -e2, p)
    BY <1>3, <1>4, <1>5 DEF Rotates
  <2>3. e4 * e8 - e7 * e5 \in Int /\ e4 * e9 - e7 * e6 \in Int /\ -e2 \in Int
    OBVIOUS
  <2> QED
    BY <1>7, <2>1, <2>2, <2>3, Zenon
<1>9. Same(e7 * u[1] - e1 * u[3], y * e6 + z * (-e5), p)
  <2>1. e7 * u[1] - e1 * u[3] = y * (e7 * e2 - e1 * e8) + z * (e7 * e3 - e1 * e9)
    BY <1>6
  <2>2. Same(e7 * e2 - e1 * e8, e6, p) /\ Same(e7 * e3 - e1 * e9, -e5, p)
    BY <1>3, <1>4, <1>5 DEF Rotates
  <2>3. e7 * e2 - e1 * e8 \in Int /\ e7 * e3 - e1 * e9 \in Int /\ -e5 \in Int
    OBVIOUS
  <2> QED
    BY <1>7, <2>1, <2>2, <2>3, Zenon
<1>10. Same(e1 * u[2] - e4 * u[1], y * e9 + z * (-e8), p)
  <2>1. e1 * u[2] - e4 * u[1] = y * (e1 * e5 - e4 * e2) + z * (e1 * e6 - e4 * e3)
    BY <1>6
  <2>2. Same(e1 * e5 - e4 * e2, e9, p) /\ Same(e1 * e6 - e4 * e3, -e8, p)
    BY <1>3, <1>4, <1>5 DEF Rotates
  <2>3. e1 * e5 - e4 * e2 \in Int /\ e1 * e6 - e4 * e3 \in Int /\ -e8 \in Int
    OBVIOUS
  <2> QED
    BY <1>7, <2>1, <2>2, <2>3, Zenon
<1> QED
  BY <1>2, <1>3, <1>4, <1>5, <1>8, <1>9, <1>10, Zenon


\* The remainders of the prime are what the elements are.
LEMMA ScalarsAre ==
  ASSUME Algebra!SizesAssumption
  PROVE  /\ Prime \in Nat \ {0} /\ 0 \in Algebra!Scalars /\ 1 \in Algebra!Scalars
         /\ \A x \in Int : Algebra!Mod(x) \in Algebra!Scalars /\ Algebra!Mod(x) \in Int
                             /\ Same(Algebra!Mod(x), x, Prime) /\ Same(x, Algebra!Mod(x), Prime)
         /\ \A x \in Algebra!Scalars : x \in Int /\ Algebra!Mod(x) = x
<1>1. Prime \in Nat \ {0} /\ Prime > 1
  BY DEF Algebra!SizesAssumption
<1>2. ASSUME NEW x \in Int
      PROVE  x % Prime \in 0..Prime - 1 /\ x % Prime \in Int
               /\ Same(x % Prime, x, Prime) /\ Same(x, x % Prime, Prime)
  <2>1. x % Prime \in 0..Prime - 1 /\ Same(x, x % Prime, Prime)
    BY <1>1, ModIs
  <2>2. x % Prime \in Int
    BY <2>1
  <2> QED
    BY <1>1, <2>1, <2>2, SameSym
<1>3. ASSUME NEW x \in 0..Prime - 1 PROVE x % Prime = x
  BY <1>1
<1> QED
  BY <1>1, <1>2, <1>3 DEF Algebra!Scalars, Algebra!Mod

\* A matrix times a vector is the image of the vector, modulo the prime.
LEMMA TimesIs ==
  ASSUME Algebra!SizesAssumption, NEW e \in [1..9 -> Int], NEW v \in Triples, NEW m,
         m = [rows |-> 3, columns |-> 3, data |-> [n \in 1..9 |-> Algebra!Mod(e[n])]]
  PROVE  /\ Algebra!MatrixTimes(m, v) \in [1..3 -> Algebra!Scalars]
         /\ \A r \in 1..3 : Algebra!MatrixTimes(m, v)[r] = Algebra!Mod(Image(e, v)[r])
<1>1. \A n \in 1..9 : e[n] \in Int /\ Algebra!Mod(e[n]) \in Int /\ Same(Algebra!Mod(e[n]), e[n], Prime)
  BY ScalarsAre
<1>2. v[1] \in Int /\ v[2] \in Int /\ v[3] \in Int
  BY DEF Triples
<1>3. ASSUME NEW r \in 1..3
      PROVE  /\ Algebra!MatrixTimes(m, v)[r] \in Algebra!Scalars
             /\ Algebra!MatrixTimes(m, v)[r] = Algebra!Mod(Image(e, v)[r])
  <2>1. 3 * r - 2 \in 1..9 /\ 3 * r - 1 \in 1..9 /\ 3 * r \in 1..9
    OBVIOUS
  <2>2. PICK w : w = [c \in 1..3 |-> Algebra!At(m, r, c)]
    OBVIOUS
  <2>3. /\ w[1] = Algebra!Mod(e[3 * r - 2]) /\ w[2] = Algebra!Mod(e[3 * r - 1])
        /\ w[3] = Algebra!Mod(e[3 * r])
    <3>1. m.columns = 3 /\ m.data = [n \in 1..9 |-> Algebra!Mod(e[n])]
      OBVIOUS
    <3>2. (r - 1) * 3 + 1 = 3 * r - 2 /\ (r - 1) * 3 + 2 = 3 * r - 1 /\ (r - 1) * 3 + 3 = 3 * r
      OBVIOUS
    <3> QED
      BY <2>1, <2>2, <3>1, <3>2 DEF Algebra!At
  <2>4. w \in Triples
    <3>1. \A n \in 1..3 : w[n] \in Int
      BY <1>1, <2>1, <2>3
    <3>2. w = [n \in 1..3 |-> w[n]]
      BY <2>2
    <3> QED
      BY <3>1, <3>2 DEF Triples
  <2>5. PICK x \in Int, y \in Int, z \in Int : x = v[1] /\ y = v[2] /\ z = v[3]
    BY <1>2
  <2>6. PICK f \in Int, g \in Int, h \in Int :
          f = e[3 * r - 2] /\ g = e[3 * r - 1] /\ h = e[3 * r]
    BY <2>1
  <2>7. PICK a \in Int, b \in Int, c \in Int : a = w[1] /\ b = w[2] /\ c = w[3]
    BY <2>4 DEF Triples
  <2>8. Same(a, f, Prime) /\ Same(b, g, Prime) /\ Same(c, h, Prime)
    BY <1>1, <2>1, <2>3, <2>6, <2>7
  <2>9. Same(x, x, Prime) /\ Same(y, y, Prime) /\ Same(z, z, Prime) /\ Prime \in Nat \ {0}
    BY SameRefl, ScalarsAre
  <2>10. Same(a * x + b * y + c * z, f * x + g * y + h * z, Prime)
    BY <2>8, <2>9, SameThree, Zenon
  <2>11. Algebra!MatrixTimes(m, v)[r] = (a * x + b * y + c * z) % Prime
    <3>1. Algebra!MatrixTimes(m, v)[r] = Algebra!DotProduct(w, v)
      BY <2>2 DEF Algebra!MatrixTimes
    <3>2. Algebra!DotProduct(w, v) = (w[1] * v[1] + w[2] * v[2] + w[3] * v[3]) % Prime
      BY <2>4, DotIs
    <3> QED
      BY <2>5, <2>7, <3>1, <3>2, Zenon
  <2>12. Image(e, v)[r] = f * x + g * y + h * z
    BY <2>5, <2>6 DEF Image
  <2>13. a * x + b * y + c * z \in Int /\ f * x + g * y + h * z \in Int
    OBVIOUS
  <2>14. (a * x + b * y + c * z) % Prime = (f * x + g * y + h * z) % Prime
    BY <2>9, <2>10, <2>13, ModSame
  <2> QED
    BY <2>11, <2>12, <2>13, <2>14, ScalarsAre DEF Algebra!Mod
<1>4. Algebra!MatrixTimes(m, v) = [r \in 1..3 |-> Algebra!MatrixTimes(m, v)[r]]
  BY DEF Algebra!MatrixTimes
<1> QED
  BY <1>3, <1>4

\* The inverse of a unit quaternion: the imaginary parts change sign.
LEMMA InvertedIs ==
  ASSUME Algebra!SizesAssumption, NEW q \in Algebra!Quaternions, Algebra!Norm(q) = 1
  PROVE  /\ Algebra!Inverted(q)[1] = q[1]
         /\ \A n \in 2..4 : Algebra!Inverted(q)[n] = Algebra!Mod(-q[n])
<1>1. ASSUME NEW x \in Algebra!Scalars PROVE Algebra!Quotient(x, 1) = x
  <2>1. \A y \in Algebra!Scalars : Algebra!Mod(y * 1) = y
    BY ScalarsAre
  <2> QED
    BY <2>1 DEF Algebra!Quotient
<1>2. \A n \in 1..4 : q[n] \in Algebra!Scalars
  BY DEF Algebra!Quaternions
<1>3. \A n \in 2..4 : Algebra!Mod(-q[n]) \in Algebra!Scalars
  <2>1. \A n \in 2..4 : -q[n] \in Int
    BY <1>2, ScalarsAre
  <2> QED
    BY <2>1, ScalarsAre
<1> QED
  BY <1>1, <1>2, <1>3 DEF Algebra!Inverted

\* Rows and columns exchanged.
Swapped(e) == <<e[1], e[4], e[7], e[2], e[5], e[8], e[3], e[6], e[9]>>

\* The matrix of the inverse is the transpose, modulo p.
LEMMA TurnsInverted ==
  ASSUME NEW p \in Nat \ {0}, NEW a \in Int, NEW i \in Int, NEW j \in Int, NEW k \in Int,
         NEW x \in Int, NEW y \in Int, NEW z \in Int,
         Same(x, -i, p), Same(y, -j, p), Same(z, -k, p)
  PROVE  \A n \in 1..9 : Same(Turns(a, x, y, z)[n], Swapped(Turns(a, i, j, k))[n], p)
<1>1. PICK u \in Int, v \in Int, w \in Int : u = -i /\ v = -j /\ w = -k
  OBVIOUS
<1>2. PICK nx \in Int, ny \in Int, nz \in Int : nx = -x /\ ny = -y /\ nz = -z
  OBVIOUS
<1>3. Same(x, u, p) /\ Same(y, v, p) /\ Same(z, w, p) /\ Same(a, a, p)
  BY <1>1, SameRefl
<1>4. Same(nx, i, p) /\ Same(ny, j, p) /\ Same(nz, k, p)
  <2>1. ASSUME NEW b \in Int, NEW c \in Int, Same(b, -c, p) PROVE Same(-b, c, p)
    <3>1. PICK q \in Int : b = -c + q * p
      BY <2>1 DEF Same
    <3>2. PICK r \in Int : r = -q
      OBVIOUS
    <3>3. -b = c + r * p
      BY <3>1, <3>2
    <3> QED
      BY <3>3 DEF Same
  <2> QED
    BY <1>2, <1>3, <1>1, <2>1
<1>5. 0 \in Int /\ 1 \in Int /\ 2 \in Int /\ -2 \in Int
  OBVIOUS
<1>6. /\ Same(1 + (-2) * (y * y + z * z), 1 + (-2) * (v * v + w * w), p)
      /\ Same(1 + (-2) * (x * x + z * z), 1 + (-2) * (u * u + w * w), p)
      /\ Same(1 + (-2) * (x * x + y * y), 1 + (-2) * (u * u + v * v), p)
  BY <1>3, <1>5, SamePair, Zenon
<1>7. /\ Same(0 + 2 * (x * y + nz * a), 0 + 2 * (u * v + k * a), p)
      /\ Same(0 + 2 * (x * z + y * a), 0 + 2 * (u * w + v * a), p)
      /\ Same(0 + 2 * (x * y + z * a), 0 + 2 * (u * v + w * a), p)
      /\ Same(0 + 2 * (y * z + nx * a), 0 + 2 * (v * w + i * a), p)
      /\ Same(0 + 2 * (x * z + ny * a), 0 + 2 * (u * w + j * a), p)
      /\ Same(0 + 2 * (y * z + x * a), 0 + 2 * (v * w + u * a), p)
  BY <1>3, <1>4, <1>5, SamePair, Zenon
<1>8. PICK e : e = Turns(a, x, y, z)
  OBVIOUS
<1>9. PICK f : f = Turns(a, i, j, k)
  OBVIOUS
<1>10. PICK g : g = Swapped(f)
  OBVIOUS
<1>11. /\ e[1] = 1 + (-2) * (y * y + z * z) /\ e[2] = 0 + 2 * (x * y + nz * a)
       /\ e[3] = 0 + 2 * (x * z + y * a) /\ e[4] = 0 + 2 * (x * y + z * a)
       /\ e[5] = 1 + (-2) * (x * x + z * z) /\ e[6] = 0 + 2 * (y * z + nx * a)
       /\ e[7] = 0 + 2 * (x * z + ny * a) /\ e[8] = 0 + 2 * (y * z + x * a)
       /\ e[9] = 1 + (-2) * (x * x + y * y)
  BY <1>2, <1>8 DEF Turns
<1>12. /\ g[1] = 1 + (-2) * (v * v + w * w) /\ g[2] = 0 + 2 * (u * v + k * a)
       /\ g[3] = 0 + 2 * (u * w + v * a) /\ g[4] = 0 + 2 * (u * v + w * a)
       /\ g[5] = 1 + (-2) * (u * u + w * w) /\ g[6] = 0 + 2 * (v * w + i * a)
       /\ g[7] = 0 + 2 * (u * w + j * a) /\ g[8] = 0 + 2 * (v * w + u * a)
       /\ g[9] = 1 + (-2) * (u * u + v * v)
  BY <1>1, <1>9, <1>10 DEF Turns, Swapped
<1>13. /\ Same(e[1], g[1], p) /\ Same(e[2], g[2], p) /\ Same(e[3], g[3], p)
       /\ Same(e[4], g[4], p) /\ Same(e[5], g[5], p) /\ Same(e[6], g[6], p)
       /\ Same(e[7], g[7], p) /\ Same(e[8], g[8], p) /\ Same(e[9], g[9], p)
  BY <1>6, <1>7, <1>11, <1>12, Zenon
<1>14. \A n \in 1..9 : n = 1 \/ n = 2 \/ n = 3 \/ n = 4 \/ n = 5 \/ n = 6 \/ n = 7 \/ n = 8 \/ n = 9
  OBVIOUS
<1>15. \A n \in 1..9 : Same(e[n], g[n], p)
  BY <1>13, <1>14, Zenon
<1> QED
  BY <1>8, <1>9, <1>10, <1>15, Zenon

-----------------------------------------------------------------------------
(* Vectors                                                                 *)

\* A difference of two products of numbers that are the same.
LEMMA SameMinor ==
  ASSUME NEW p \in Nat \ {0}, NEW a \in Int, NEW b \in Int, NEW c \in Int, NEW d \in Int,
         NEW a2 \in Int, NEW b2 \in Int, NEW c2 \in Int, NEW d2 \in Int,
         Same(a, a2, p), Same(b, b2, p), Same(c, c2, p), Same(d, d2, p)
  PROVE  Same(a * b - c * d, a2 * b2 - c2 * d2, p)
<1>1. PICK u \in Int, v \in Int : u = a * b /\ v = a2 * b2
  OBVIOUS
<1>2. PICK x \in Int, y \in Int : x = c * d /\ y = c2 * d2
  OBVIOUS
<1>3. Same(u, v, p) /\ Same(x, y, p)
  BY <1>1, <1>2, SameTimes
<1>4. PICK q \in Int : u = v + q * p
  BY <1>3 DEF Same
<1>5. PICK r \in Int : x = y + r * p
  BY <1>3 DEF Same
<1>6. PICK s \in Int : s = q - r
  OBVIOUS
<1>7. u - x = (v - y) + s * p
  BY <1>4, <1>5, <1>6
<1>8. Same(u - x, v - y, p)
  BY <1>7 DEF Same
<1> QED
  BY <1>1, <1>2, <1>8, Zenon

\* Numbers that are the same have the same remainder.
LEMMA ModsEqual ==
  ASSUME Algebra!SizesAssumption, NEW x \in Int, NEW y \in Int, Same(x, y, Prime)
  PROVE  Algebra!Mod(x) = Algebra!Mod(y)
<1>1. Prime \in Nat \ {0}
  BY ScalarsAre
<1> QED
  BY <1>1, ModSame DEF Algebra!Mod

\* Three elements are a vector.
LEMMA TripleIs ==
  ASSUME NEW S, NEW x \in S, NEW y \in S, NEW z \in S, NEW t, t = <<x, y, z>>
  PROVE  t \in [1..3 -> S] /\ t[1] = x /\ t[2] = y /\ t[3] = z
  OBVIOUS

\* Vectors with the same elements are equal.
LEMMA TriplesEqual ==
  ASSUME NEW S, NEW f \in [1..3 -> S], NEW g \in [1..3 -> S],
         f[1] = g[1], f[2] = g[2], f[3] = g[3]
  PROVE  f = g
<1>1. \A n \in 1..3 : n = 1 \/ n = 2 \/ n = 3
  OBVIOUS
<1>2. \A n \in 1..3 : f[n] = g[n]
  BY <1>1, Zenon
<1> QED
  BY <1>2

\* A cross product, number by number.
LEMMA CrossIs ==
  ASSUME Algebra!SizesAssumption, NEW v \in Triples, NEW w \in Triples,
         NEW r, r = Algebra!CrossProduct(v, w)
  PROVE  /\ r \in [1..3 -> Algebra!Scalars] /\ r \in Triples
         /\ r[1] = Algebra!Mod(v[2] * w[3] - v[3] * w[2])
         /\ r[2] = Algebra!Mod(v[3] * w[1] - v[1] * w[3])
         /\ r[3] = Algebra!Mod(v[1] * w[2] - v[2] * w[1])
         /\ Same(r[1], v[2] * w[3] - v[3] * w[2], Prime)
         /\ Same(r[2], v[3] * w[1] - v[1] * w[3], Prime)
         /\ Same(r[3], v[1] * w[2] - v[2] * w[1], Prime)
<1>1. PICK v1 \in Int, v2 \in Int, v3 \in Int : v1 = v[1] /\ v2 = v[2] /\ v3 = v[3]
  BY DEF Triples
<1>2. PICK w1 \in Int, w2 \in Int, w3 \in Int : w1 = w[1] /\ w2 = w[2] /\ w3 = w[3]
  BY DEF Triples
<1>3. PICK x \in Int, y \in Int, z \in Int :
        x = v2 * w3 - v3 * w2 /\ y = v3 * w1 - v1 * w3 /\ z = v1 * w2 - v2 * w1
  OBVIOUS
<1>4. r = <<Algebra!Mod(x), Algebra!Mod(y), Algebra!Mod(z)>>
  BY <1>1, <1>2, <1>3 DEF Algebra!CrossProduct
<1>5. /\ Algebra!Mod(x) \in Algebra!Scalars /\ Algebra!Mod(y) \in Algebra!Scalars
      /\ Algebra!Mod(z) \in Algebra!Scalars
      /\ Same(Algebra!Mod(x), x, Prime) /\ Same(Algebra!Mod(y), y, Prime)
      /\ Same(Algebra!Mod(z), z, Prime)
  BY ScalarsAre
<1>6. /\ r \in [1..3 -> Algebra!Scalars]
      /\ r[1] = Algebra!Mod(x) /\ r[2] = Algebra!Mod(y) /\ r[3] = Algebra!Mod(z)
  BY <1>4, <1>5, TripleIs
<1>7. r \in Triples
  BY <1>6, ScalarsAre DEF Triples
<1> QED
  BY <1>1, <1>2, <1>3, <1>5, <1>6, <1>7, Zenon

\* The dynamic cross product, which is computed by determinants, is the other.
LEMMA DynamicCrossIs ==
  ASSUME Algebra!SizesAssumption, NEW v \in Triples, NEW w \in Triples
  PROVE  Algebra!DynamicCrossProduct(v, w) = Algebra!CrossProduct(v, w)
<1>1. PICK v1 \in Int, v2 \in Int, v3 \in Int : v1 = v[1] /\ v2 = v[2] /\ v3 = v[3]
  BY DEF Triples
<1>2. PICK w1 \in Int, w2 \in Int, w3 \in Int : w1 = w[1] /\ w2 = w[2] /\ w3 = w[3]
  BY DEF Triples
<1>3. PICK x \in Int, y \in Int, z \in Int :
        x = v2 * w3 - w2 * v3 /\ y = v1 * w3 - w1 * v3 /\ z = v1 * w2 - w1 * v2
  OBVIOUS
<1>4. Algebra!DynamicCrossProduct(v, w) = <<Algebra!Mod(x), Algebra!Mod(-Algebra!Mod(y)), Algebra!Mod(z)>>
  BY <1>1, <1>2, <1>3 DEF Algebra!DynamicCrossProduct, Algebra!Determinant2
<1>5. Algebra!Mod(-Algebra!Mod(y)) = Algebra!Mod(-y)
  <2>1. PICK m \in Int : m = Algebra!Mod(y) /\ Same(m, y, Prime)
    BY ScalarsAre
  <2>2. PICK q \in Int : m = y + q * Prime
    BY <2>1 DEF Same
  <2>3. PICK r \in Int : r = -q
    OBVIOUS
  <2>4. Prime \in Int
    BY ScalarsAre
  <2>5. -m = -y + r * Prime /\ -m \in Int /\ -y \in Int
    BY <2>2, <2>3, <2>4
  <2>6. Same(-m, -y, Prime)
    BY <2>5 DEF Same
  <2> QED
    BY <2>1, <2>5, <2>6, ModsEqual
<1>6. x = v2 * w3 - v3 * w2 /\ -y = v3 * w1 - v1 * w3 /\ z = v1 * w2 - v2 * w1
  BY <1>3
<1>7. Algebra!CrossProduct(v, w) = <<Algebra!Mod(x), Algebra!Mod(-y), Algebra!Mod(z)>>
  BY <1>1, <1>2, <1>6, Zenon DEF Algebra!CrossProduct
<1> QED
  BY <1>4, <1>5, <1>7, Zenon

\* It is perpendicular to its arguments,
LEMMA CrossPerpendicular ==
  ASSUME Algebra!SizesAssumption, NEW v \in Triples, NEW w \in Triples,
         NEW r, r = Algebra!CrossProduct(v, w)
  PROVE  Algebra!DotProduct(r, v) = 0 /\ Algebra!DotProduct(r, w) = 0
<1>1. PICK v1 \in Int, v2 \in Int, v3 \in Int : v1 = v[1] /\ v2 = v[2] /\ v3 = v[3]
  BY DEF Triples
<1>2. PICK w1 \in Int, w2 \in Int, w3 \in Int : w1 = w[1] /\ w2 = w[2] /\ w3 = w[3]
  BY DEF Triples
<1>3. PICK x \in Int, y \in Int, z \in Int :
        x = v2 * w3 - v3 * w2 /\ y = v3 * w1 - v1 * w3 /\ z = v1 * w2 - v2 * w1
  OBVIOUS
<1>4. r \in Triples /\ Same(r[1], x, Prime) /\ Same(r[2], y, Prime) /\ Same(r[3], z, Prime)
  BY <1>1, <1>2, <1>3, CrossIs, Zenon
<1>5. PICK r1 \in Int, r2 \in Int, r3 \in Int : r1 = r[1] /\ r2 = r[2] /\ r3 = r[3]
  BY <1>4 DEF Triples
<1>6. Prime \in Nat \ {0} /\ 0 % Prime = 0
  BY ScalarsAre
<1>7. Same(r1, x, Prime) /\ Same(r2, y, Prime) /\ Same(r3, z, Prime)
  BY <1>4, <1>5
<1>8. ASSUME NEW t \in Triples, NEW t1 \in Int, NEW t2 \in Int, NEW t3 \in Int,
             t1 = t[1], t2 = t[2], t3 = t[3], x * t1 + y * t2 + z * t3 = 0
      PROVE  Algebra!DotProduct(r, t) = 0
  <2>1. Same(t1, t1, Prime) /\ Same(t2, t2, Prime) /\ Same(t3, t3, Prime)
    BY <1>6, SameRefl
  <2>2. Same(r1 * t1 + r2 * t2 + r3 * t3, x * t1 + y * t2 + z * t3, Prime)
    BY <1>6, <1>7, <2>1, SameThree, Zenon
  <2>3. r1 * t1 + r2 * t2 + r3 * t3 \in Int /\ 0 \in Int
    OBVIOUS
  <2>4. (r1 * t1 + r2 * t2 + r3 * t3) % Prime = 0
    BY <1>6, <1>8, <2>2, <2>3, ModSame
  <2>5. Algebra!DotProduct(r, t) = (r[1] * t[1] + r[2] * t[2] + r[3] * t[3]) % Prime
    BY <1>4, DotIs
  <2> QED
    BY <1>5, <1>8, <2>4, <2>5, Zenon
<1>9. x * v1 + y * v2 + z * v3 = 0 /\ x * w1 + y * w2 + z * w3 = 0
  BY <1>3
<1> QED
  BY <1>1, <1>2, <1>8, <1>9, Zenon

\* changes sign with their order,
LEMMA CrossTurns ==
  ASSUME Algebra!SizesAssumption, NEW v \in Triples, NEW w \in Triples
  PROVE  Algebra!Plus(Algebra!CrossProduct(v, w), Algebra!CrossProduct(w, v)) = <<0, 0, 0>>
<1>1. PICK r : r = Algebra!CrossProduct(v, w)
  OBVIOUS
<1>2. PICK t : t = Algebra!CrossProduct(w, v)
  OBVIOUS
<1>3. \A n \in 1..3 : v[n] \in Int /\ w[n] \in Int
  BY DEF Triples
<1>4. Prime \in Nat \ {0} /\ Algebra!Mod(0) = 0 /\ 0 \in Algebra!Scalars
  BY ScalarsAre
<1>5. ASSUME NEW x \in Int, NEW y \in Int, NEW a \in Int, NEW b \in Int,
             Same(x, a, Prime), Same(y, b, Prime), a + b = 0
      PROVE  Algebra!Mod(x + y) = 0
  <2>1. Same(x + y, a + b, Prime)
    BY <1>4, <1>5, SamePlus
  <2>2. x + y \in Int /\ 0 \in Int
    OBVIOUS
  <2> QED
    BY <1>4, <1>5, <2>1, <2>2, ModsEqual
<1>6. r \in Triples /\ t \in Triples
  BY <1>1, <1>2, CrossIs
<1>7. /\ Same(r[1], v[2] * w[3] - v[3] * w[2], Prime) /\ Same(t[1], w[2] * v[3] - w[3] * v[2], Prime)
      /\ Same(r[2], v[3] * w[1] - v[1] * w[3], Prime) /\ Same(t[2], w[3] * v[1] - w[1] * v[3], Prime)
      /\ Same(r[3], v[1] * w[2] - v[2] * w[1], Prime) /\ Same(t[3], w[1] * v[2] - w[2] * v[1], Prime)
  <2>1. /\ Same(r[1], v[2] * w[3] - v[3] * w[2], Prime) /\ Same(r[2], v[3] * w[1] - v[1] * w[3], Prime)
        /\ Same(r[3], v[1] * w[2] - v[2] * w[1], Prime)
    BY <1>1, CrossIs
  <2>2. /\ Same(t[1], w[2] * v[3] - w[3] * v[2], Prime) /\ Same(t[2], w[3] * v[1] - w[1] * v[3], Prime)
        /\ Same(t[3], w[1] * v[2] - w[2] * v[1], Prime)
    BY <1>2, CrossIs
  <2> QED
    BY <2>1, <2>2
<1>8. PICK s : s = Algebra!Plus(r, t)
  OBVIOUS
<1>9. \A n \in 1..3 : r[n] \in Int /\ t[n] \in Int
  BY <1>6 DEF Triples
<1>10. 1 \in 1..3 /\ 2 \in 1..3 /\ 3 \in 1..3
  OBVIOUS
<1>11. s = [n \in 1..3 |-> Algebra!Mod(r[n] + t[n])]
  BY <1>6, <1>8 DEF Algebra!Plus, Triples
<1>12. /\ Algebra!Mod(r[1] + t[1]) = 0 /\ Algebra!Mod(r[2] + t[2]) = 0
       /\ Algebra!Mod(r[3] + t[3]) = 0
  <2>1. Algebra!Mod(r[1] + t[1]) = 0
    <3>1. PICK a \in Int : a = v[2] * w[3] - v[3] * w[2]
      BY <1>3
    <3>2. PICK b \in Int : b = w[2] * v[3] - w[3] * v[2]
      BY <1>3
    <3>3. a + b = 0
      BY <1>3, <3>1, <3>2
    <3>4. r[1] \in Int /\ t[1] \in Int /\ Same(r[1], a, Prime) /\ Same(t[1], b, Prime)
      BY <1>7, <1>9, <3>1, <3>2
    <3> QED
      BY <1>5, <3>3, <3>4
  <2>2. Algebra!Mod(r[2] + t[2]) = 0
    <3>1. PICK a \in Int : a = v[3] * w[1] - v[1] * w[3]
      BY <1>3
    <3>2. PICK b \in Int : b = w[3] * v[1] - w[1] * v[3]
      BY <1>3
    <3>3. a + b = 0
      BY <1>3, <3>1, <3>2
    <3>4. r[2] \in Int /\ t[2] \in Int /\ Same(r[2], a, Prime) /\ Same(t[2], b, Prime)
      BY <1>7, <1>9, <3>1, <3>2
    <3> QED
      BY <1>5, <3>3, <3>4
  <2>3. Algebra!Mod(r[3] + t[3]) = 0
    <3>1. PICK a \in Int : a = v[1] * w[2] - v[2] * w[1]
      BY <1>3
    <3>2. PICK b \in Int : b = w[1] * v[2] - w[2] * v[1]
      BY <1>3
    <3>3. a + b = 0
      BY <1>3, <3>1, <3>2
    <3>4. r[3] \in Int /\ t[3] \in Int /\ Same(r[3], a, Prime) /\ Same(t[3], b, Prime)
      BY <1>7, <1>9, <3>1, <3>2
    <3> QED
      BY <1>5, <3>3, <3>4
  <2> QED
    BY <2>1, <2>2, <2>3
<1>13. s[1] = 0 /\ s[2] = 0 /\ s[3] = 0
  BY <1>10, <1>11, <1>12
<1>14. s \in [1..3 -> Int]
  <2>1. \A n \in 1..3 : r[n] + t[n] \in Int
    BY <1>9
  <2> QED
    BY <1>11, <2>1, ScalarsAre
<1>15. s = <<0, 0, 0>>
  <2>1. PICK z : z = <<0, 0, 0>>
    OBVIOUS
  <2>2. z \in [1..3 -> Int] /\ z[1] = 0 /\ z[2] = 0 /\ z[3] = 0
    BY <2>1
  <2> QED
    BY <1>13, <1>14, <2>1, <2>2, TriplesEqual
<1> QED
  BY <1>1, <1>2, <1>8, <1>15

\* and disregards multiples of one that are taken from the other.
LEMMA CrossDisregards ==
  ASSUME Algebra!SizesAssumption, NEW v \in Triples, NEW w \in Triples
  PROVE  Algebra!CrossProduct(v, Algebra!Minus(w, Algebra!Scaled(2, v))) = Algebra!CrossProduct(v, w)
<1>1. PICK u : u = Algebra!Minus(w, Algebra!Scaled(2, v))
  OBVIOUS
<1>2. \A n \in 1..3 : v[n] \in Int /\ w[n] \in Int
  BY DEF Triples
<1>3. Prime \in Nat \ {0}
  BY ScalarsAre
<1>4. u = [n \in 1..3 |-> Algebra!Mod(w[n] - Algebra!Mod(2 * v[n]))]
  <2>1. DOMAIN v = 1..3 /\ DOMAIN w = 1..3
    BY DEF Triples
  <2> QED
    BY <1>1, <2>1 DEF Algebra!Minus, Algebra!Scaled
<1>5. ASSUME NEW n \in 1..3
      PROVE  u[n] \in Int /\ Same(u[n], w[n] - 2 * v[n], Prime)
  <2>1. PICK x \in Int, y \in Int : x = v[n] /\ y = w[n]
    BY <1>2
  <2>2. 2 * x \in Int
    OBVIOUS
  <2>3. PICK m \in Int : m = Algebra!Mod(2 * x) /\ Same(m, 2 * x, Prime)
    BY <2>2, ScalarsAre
  <2>4. PICK q \in Int : m = 2 * x + q * Prime
    BY <2>3 DEF Same
  <2>5. PICK r \in Int : r = -q
    OBVIOUS
  <2>6. y - m = (y - 2 * x) + r * Prime
    BY <1>3, <2>4, <2>5
  <2>7. Same(y - m, y - 2 * x, Prime)
    BY <2>6 DEF Same
  <2>8. y - m \in Int /\ y - 2 * x \in Int
    OBVIOUS
  <2>9. u[n] = Algebra!Mod(y - m)
    BY <1>4, <2>1, <2>3
  <2>10. u[n] \in Int /\ Same(u[n], y - m, Prime)
    BY <2>8, <2>9, ScalarsAre
  <2> QED
    BY <1>3, <2>1, <2>7, <2>8, <2>10, SameTrans
<1>6. u \in Triples
  BY <1>4, <1>5 DEF Triples
<1>7. ASSUME NEW m \in 1..3, NEW n \in 1..3
      PROVE  Algebra!Mod(v[m] * u[n] - v[n] * u[m]) = Algebra!Mod(v[m] * w[n] - v[n] * w[m])
  <2>1. PICK a \in Int, b \in Int, c \in Int, d \in Int :
          a = v[m] /\ b = v[n] /\ c = w[m] /\ d = w[n]
    BY <1>2
  <2>2. PICK x \in Int, y \in Int : x = u[m] /\ y = u[n]
    BY <1>5
  <2>3. PICK e \in Int, f \in Int : e = c - 2 * a /\ f = d - 2 * b
    OBVIOUS
  <2>4. Same(x, e, Prime) /\ Same(y, f, Prime) /\ Same(a, a, Prime) /\ Same(b, b, Prime)
    BY <1>3, <1>5, <2>1, <2>2, <2>3, SameRefl
  <2>5. Same(a * y - b * x, a * f - b * e, Prime)
    BY <1>3, <2>4, SameMinor, Zenon
  <2>6. a * f - b * e = a * d - b * c
    BY <2>3
  <2>7. a * y - b * x \in Int /\ a * d - b * c \in Int
    OBVIOUS
  <2> QED
    BY <2>1, <2>2, <2>5, <2>6, <2>7, ModsEqual
<1>8. 1 \in 1..3 /\ 2 \in 1..3 /\ 3 \in 1..3
  OBVIOUS
<1>9. /\ Algebra!Mod(v[2] * u[3] - v[3] * u[2]) = Algebra!Mod(v[2] * w[3] - v[3] * w[2])
      /\ Algebra!Mod(v[3] * u[1] - v[1] * u[3]) = Algebra!Mod(v[3] * w[1] - v[1] * w[3])
      /\ Algebra!Mod(v[1] * u[2] - v[2] * u[1]) = Algebra!Mod(v[1] * w[2] - v[2] * w[1])
  BY <1>7, <1>8, Zenon
<1> QED
  BY <1>1, <1>9, Zenon DEF Algebra!CrossProduct

-----------------------------------------------------------------------------
(* Quaternions                                                             *)

\* What GetRotationMatrix computes.
LEMMA RotationIs ==
  ASSUME NEW q \in [1..4 -> Int], NEW e, e = Turns(q[1], q[2], q[3], q[4])
  PROVE  /\ e \in [1..9 -> Int]
         /\ Algebra!RotationMatrix(q)
              = [rows |-> 3, columns |-> 3, data |-> [n \in 1..9 |-> Algebra!Mod(e[n])]]
<1>1. q[1] \in Int /\ q[2] \in Int /\ q[3] \in Int /\ q[4] \in Int
  OBVIOUS
<1>2. e \in [1..9 -> Int]
  <2>1. PICK a \in Int, i \in Int, j \in Int, k \in Int :
          a = q[1] /\ i = q[2] /\ j = q[3] /\ k = q[4]
    BY <1>1
  <2>2. e = Turns(a, i, j, k)
    BY <2>1
  <2> QED
    BY <2>2 DEF Turns
<1>3. Algebra!RotationMatrix(q)
        = [rows |-> 3, columns |-> 3,
           data |-> [n \in 1..9 |-> Algebra!Mod(Turns(q[1], q[2], q[3], q[4])[n])]]
  BY Zenon DEF Algebra!RotationMatrix, Turns
<1> QED
  BY <1>2, <1>3

\* The integers of the matrix of a unit quaternion and of its inverse.
LEMMA UnitRotates ==
  ASSUME Algebra!SizesAssumption, NEW q \in Algebra!Quaternions, Algebra!Norm(q) = 1,
         NEW e, e = Turns(q[1], q[2], q[3], q[4])
  PROVE  /\ e \in [1..9 -> Int] /\ Rotates(e, Prime) /\ Swapped(e) \in [1..9 -> Int]
         /\ Algebra!RotationMatrix(q)
              = [rows |-> 3, columns |-> 3, data |-> [n \in 1..9 |-> Algebra!Mod(e[n])]]
         /\ Algebra!RotationMatrix(Algebra!Inverted(q))
              = [rows |-> 3, columns |-> 3, data |-> [n \in 1..9 |-> Algebra!Mod(Swapped(e)[n])]]
<1>1. Prime \in Nat \ {0} /\ \A x \in Algebra!Scalars : x \in Int
  BY ScalarsAre
<1>2. q \in [1..4 -> Int]
  BY <1>1 DEF Algebra!Quaternions
<1>3. PICK a \in Int, i \in Int, j \in Int, k \in Int :
        a = q[1] /\ i = q[2] /\ j = q[3] /\ k = q[4]
  BY <1>2
<1>4. /\ e \in [1..9 -> Int]
      /\ Algebra!RotationMatrix(q)
           = [rows |-> 3, columns |-> 3, data |-> [n \in 1..9 |-> Algebra!Mod(e[n])]]
  BY <1>2, RotationIs
<1>5. Rotates(e, Prime)
  <2>1. (a * a + i * i + j * j + k * k) % Prime = 1
    BY <1>2, <1>3, NormIs
  <2>2. a * a + i * i + j * j + k * k \in Int
    OBVIOUS
  <2>3. Same(a * a + i * i + j * j + k * k, 1, Prime)
    BY <1>1, <2>1, <2>2, ModIs
  <2> QED
    BY <1>1, <1>3, <2>3, TurnsRotate
<1>6. PICK g : g = Swapped(e)
  OBVIOUS
<1>7. g \in [1..9 -> Int]
  <2>1. \A n \in 1..9 : e[n] \in Int
    BY <1>4
  <2> QED
    BY <1>6, <2>1 DEF Swapped
<1>8. PICK r : r = Algebra!Inverted(q)
  OBVIOUS
<1>9. PICK x \in Int, y \in Int, z \in Int :
        /\ x = r[2] /\ y = r[3] /\ z = r[4]
        /\ Same(x, -i, Prime) /\ Same(y, -j, Prime) /\ Same(z, -k, Prime)
  <2>1. r[2] = Algebra!Mod(-i) /\ r[3] = Algebra!Mod(-j) /\ r[4] = Algebra!Mod(-k)
    BY <1>3, <1>8, InvertedIs
  <2>2. -i \in Int /\ -j \in Int /\ -k \in Int
    OBVIOUS
  <2> QED
    BY <2>1, <2>2, ScalarsAre
<1>10. r[1] = a
  BY <1>3, <1>8, InvertedIs
<1>11. r \in [1..4 -> Int]
  <2>1. r = [n \in 1..4 |-> r[n]]
    BY <1>8 DEF Algebra!Inverted
  <2>2. \A n \in 1..4 : n = 1 \/ n = 2 \/ n = 3 \/ n = 4
    OBVIOUS
  <2>3. \A n \in 1..4 : r[n] \in Int
    BY <1>9, <1>10, <2>2, Zenon
  <2> QED
    BY <2>1, <2>3
<1>12. PICK f : f = Turns(a, x, y, z)
  OBVIOUS
<1>13. /\ f \in [1..9 -> Int]
       /\ Algebra!RotationMatrix(r)
            = [rows |-> 3, columns |-> 3, data |-> [n \in 1..9 |-> Algebra!Mod(f[n])]]
  BY <1>9, <1>10, <1>11, <1>12, RotationIs
<1>14. \A n \in 1..9 : Same(f[n], g[n], Prime)
  <2>1. e = Turns(a, i, j, k)
    BY <1>3
  <2>2. \A n \in 1..9 : Same(Turns(a, x, y, z)[n], Swapped(Turns(a, i, j, k))[n], Prime)
    BY <1>1, <1>9, TurnsInverted
  <2> QED
    BY <1>6, <1>12, <2>1, <2>2, Zenon
<1>15. \A n \in 1..9 : Algebra!Mod(f[n]) = Algebra!Mod(g[n])
  <2>1. \A n \in 1..9 : f[n] \in Int /\ g[n] \in Int
    BY <1>7, <1>13
  <2> QED
    BY <1>14, <2>1, ModsEqual
<1>16. [n \in 1..9 |-> Algebra!Mod(f[n])] = [n \in 1..9 |-> Algebra!Mod(g[n])]
  BY <1>15
<1>17. Algebra!RotationMatrix(r)
         = [rows |-> 3, columns |-> 3, data |-> [n \in 1..9 |-> Algebra!Mod(g[n])]]
  BY <1>13, <1>16, Zenon
<1> QED
  BY <1>4, <1>5, <1>6, <1>7, <1>8, <1>17, Zenon

\* Exchanging rows and columns.
LEMMA TransposeIs ==
  ASSUME NEW e \in [1..9 -> Int], NEW m,
         m = [rows |-> 3, columns |-> 3, data |-> [n \in 1..9 |-> Algebra!Mod(e[n])]]
  PROVE  Algebra!Transpose(m)
           = [rows |-> 3, columns |-> 3, data |-> [n \in 1..9 |-> Algebra!Mod(Swapped(e)[n])]]
<1>1. m.rows = 3 /\ m.columns = 3 /\ m.data = [n \in 1..9 |-> Algebra!Mod(e[n])]
  OBVIOUS
<1>2. PICK g : g = Swapped(e)
  OBVIOUS
<1>3. ASSUME NEW i \in 1..9
      PROVE  Algebra!At(m, ((i - 1) % 3) + 1, ((i - 1) \div 3) + 1) = Algebra!Mod(g[i])
  <2>1. \A r, c \in 1..3 : Algebra!At(m, r, c) = Algebra!Mod(e[(r - 1) * 3 + c])
    <3>1. \A r, c \in 1..3 : (r - 1) * 3 + c \in 1..9
      OBVIOUS
    <3> QED
      BY <1>1, <3>1 DEF Algebra!At
  <2>2. PICK r \in 1..3, c \in 1..3 : r = ((i - 1) % 3) + 1 /\ c = ((i - 1) \div 3) + 1
    OBVIOUS
  <2>3. \/ (i = 1 /\ r = 1 /\ c = 1) \/ (i = 2 /\ r = 2 /\ c = 1) \/ (i = 3 /\ r = 3 /\ c = 1)
        \/ (i = 4 /\ r = 1 /\ c = 2) \/ (i = 5 /\ r = 2 /\ c = 2) \/ (i = 6 /\ r = 3 /\ c = 2)
        \/ (i = 7 /\ r = 1 /\ c = 3) \/ (i = 8 /\ r = 2 /\ c = 3) \/ (i = 9 /\ r = 3 /\ c = 3)
    BY <2>2
  <2>4. g[i] = e[(r - 1) * 3 + c]
    BY <1>2, <2>3 DEF Swapped
  <2> QED
    BY <2>1, <2>2, <2>4
<1>4. Algebra!Transpose(m)
        = [rows |-> 3, columns |-> 3,
           data |-> [i \in 1..9 |-> Algebra!At(m, ((i - 1) % 3) + 1, ((i - 1) \div 3) + 1)]]
  BY <1>1 DEF Algebra!Transpose
<1>5. [i \in 1..9 |-> Algebra!At(m, ((i - 1) % 3) + 1, ((i - 1) \div 3) + 1)]
        = [n \in 1..9 |-> Algebra!Mod(g[n])]
  BY <1>3
<1> QED
  BY <1>2, <1>4, <1>5, Zenon

\* A unit quaternion rotates.
LEMMA RotationRight ==
  ASSUME Algebra!SizesAssumption, NEW q \in Algebra!Quaternions, Algebra!Norm(q) = 1,
         NEW v \in Algebra!Vectors,
         NEW w, w = Algebra!MatrixTimes(Algebra!RotationMatrix(q), v)
  PROVE  /\ Algebra!MatrixTimes(Algebra!RotationMatrix(Algebra!Inverted(q)), w) = v
         /\ Algebra!RotationMatrix(Algebra!Inverted(q)) = Algebra!Transpose(Algebra!RotationMatrix(q))
         /\ Algebra!DotProduct(w, w) = Algebra!DotProduct(v, v)
         /\ Algebra!CrossProduct(Algebra!MatrixTimes(Algebra!RotationMatrix(q), <<1, 0, 0>>), w)
              = Algebra!MatrixTimes(Algebra!RotationMatrix(q), Algebra!CrossProduct(<<1, 0, 0>>, v))
<1>1. PICK e : e = Turns(q[1], q[2], q[3], q[4])
  OBVIOUS
<1>2. PICK g : g = Swapped(e)
  OBVIOUS
<1>3. PICK m : m = Algebra!RotationMatrix(q)
  OBVIOUS
<1>4. PICK back : back = Algebra!RotationMatrix(Algebra!Inverted(q))
  OBVIOUS
<1>5. /\ e \in [1..9 -> Int] /\ Rotates(e, Prime) /\ g \in [1..9 -> Int]
      /\ m = [rows |-> 3, columns |-> 3, data |-> [n \in 1..9 |-> Algebra!Mod(e[n])]]
      /\ back = [rows |-> 3, columns |-> 3, data |-> [n \in 1..9 |-> Algebra!Mod(g[n])]]
  BY <1>1, <1>2, <1>3, <1>4, UnitRotates
<1>6. Prime \in Nat \ {0} /\ \A s \in Algebra!Scalars : s \in Int /\ Algebra!Mod(s) = s
  BY ScalarsAre
<1>7. v \in Triples /\ \A n \in 1..3 : v[n] \in Algebra!Scalars /\ v[n] \in Int
  BY <1>6 DEF Algebra!Vectors, Triples
<1>8. PICK u : u = Image(e, v)
  OBVIOUS
<1>9. u \in Triples
  BY <1>5, <1>6, <1>7, <1>8, TurnsBack
<1>10. w \in [1..3 -> Algebra!Scalars] /\ \A r \in 1..3 : w[r] = Algebra!Mod(u[r])
  BY <1>3, <1>5, <1>7, <1>8, TimesIs
<1>11. w \in Triples
  BY <1>6, <1>10 DEF Triples
<1>12. PICK u1 \in Int, u2 \in Int, u3 \in Int : u1 = u[1] /\ u2 = u[2] /\ u3 = u[3]
  BY <1>9 DEF Triples
<1>13. PICK w1 \in Int, w2 \in Int, w3 \in Int : w1 = w[1] /\ w2 = w[2] /\ w3 = w[3]
  BY <1>11 DEF Triples
<1>14. PICK v1 \in Int, v2 \in Int, v3 \in Int : v1 = v[1] /\ v2 = v[2] /\ v3 = v[3]
  BY <1>7
<1>15. Same(w1, u1, Prime) /\ Same(w2, u2, Prime) /\ Same(w3, u3, Prime)
  BY <1>10, <1>12, <1>13, ScalarsAre
<1>16. \A n \in 1..9 : e[n] \in Int
  BY <1>5
<1>17. PICK e1 \in Int, e2 \in Int, e3 \in Int : e1 = e[1] /\ e2 = e[2] /\ e3 = e[3]
  BY <1>16
<1>18. PICK e4 \in Int, e5 \in Int, e6 \in Int : e4 = e[4] /\ e5 = e[5] /\ e6 = e[6]
  BY <1>16
<1>19. PICK e7 \in Int, e8 \in Int, e9 \in Int : e7 = e[7] /\ e8 = e[8] /\ e9 = e[9]
  BY <1>16
<1>20. /\ Same(e1, e1, Prime) /\ Same(e2, e2, Prime) /\ Same(e3, e3, Prime) /\ Same(e4, e4, Prime)
       /\ Same(e5, e5, Prime) /\ Same(e6, e6, Prime) /\ Same(e7, e7, Prime) /\ Same(e8, e8, Prime)
       /\ Same(e9, e9, Prime)
  BY <1>6, SameRefl
<1>21. Algebra!MatrixTimes(back, w) = v
  <2>1. PICK t : t = Algebra!MatrixTimes(back, w)
    OBVIOUS
  <2>2. t \in [1..3 -> Algebra!Scalars] /\ \A r \in 1..3 : t[r] = Algebra!Mod(Image(g, w)[r])
    BY <1>5, <1>11, <2>1, TimesIs
  <2>3. /\ Image(g, w)[1] = e1 * w1 + e4 * w2 + e7 * w3
        /\ Image(g, w)[2] = e2 * w1 + e5 * w2 + e8 * w3
        /\ Image(g, w)[3] = e3 * w1 + e6 * w2 + e9 * w3
    BY <1>2, <1>13, <1>17, <1>18, <1>19 DEF Image, Swapped
  <2>4. /\ Same(e1 * u1 + e4 * u2 + e7 * u3, v1, Prime)
        /\ Same(e2 * u1 + e5 * u2 + e8 * u3, v2, Prime)
        /\ Same(e3 * u1 + e6 * u2 + e9 * u3, v3, Prime)
    <3>1. /\ Same(e[1] * u[1] + e[4] * u[2] + e[7] * u[3], v[1], Prime)
          /\ Same(e[2] * u[1] + e[5] * u[2] + e[8] * u[3], v[2], Prime)
          /\ Same(e[3] * u[1] + e[6] * u[2] + e[9] * u[3], v[3], Prime)
      BY <1>5, <1>6, <1>7, <1>8, TurnsBack
    <3> QED
      BY <1>12, <1>14, <1>17, <1>18, <1>19, <3>1, Zenon
  <2>5. ASSUME NEW a \in Int, NEW b \in Int, NEW c \in Int, NEW x \in Int,
               Same(a, a, Prime), Same(b, b, Prime), Same(c, c, Prime),
               Same(a * u1 + b * u2 + c * u3, x, Prime), Algebra!Mod(x) = x
        PROVE  Algebra!Mod(a * w1 + b * w2 + c * w3) = x
    <3>1. Same(a * w1 + b * w2 + c * w3, a * u1 + b * u2 + c * u3, Prime)
      BY <1>6, <1>15, <2>5, SameThree, Zenon
    <3>2. a * w1 + b * w2 + c * w3 \in Int /\ a * u1 + b * u2 + c * u3 \in Int
      OBVIOUS
    <3>3. Same(a * w1 + b * w2 + c * w3, x, Prime)
      BY <1>6, <2>5, <3>1, <3>2, SameTrans
    <3> QED
      BY <2>5, <3>2, <3>3, ModsEqual
  <2>6. Algebra!Mod(v1) = v1 /\ Algebra!Mod(v2) = v2 /\ Algebra!Mod(v3) = v3
    BY <1>6, <1>7, <1>14
  <2>7. Algebra!Mod(e1 * w1 + e4 * w2 + e7 * w3) = v1
    BY <1>20, <2>4, <2>5, <2>6, Zenon
  <2>8. Algebra!Mod(e2 * w1 + e5 * w2 + e8 * w3) = v2
    BY <1>20, <2>4, <2>5, <2>6, Zenon
  <2>9. Algebra!Mod(e3 * w1 + e6 * w2 + e9 * w3) = v3
    BY <1>20, <2>4, <2>5, <2>6, Zenon
  <2>10. t[1] = v[1] /\ t[2] = v[2] /\ t[3] = v[3]
    BY <1>14, <2>2, <2>3, <2>7, <2>8, <2>9
  <2>11. v \in [1..3 -> Algebra!Scalars]
    BY DEF Algebra!Vectors
  <2>12. t = v
    BY <2>2, <2>10, <2>11, TriplesEqual
  <2> QED
    BY <2>1, <2>12
<1>22. back = Algebra!Transpose(m)
  BY <1>2, <1>5, TransposeIs
<1>23. Algebra!DotProduct(w, w) = Algebra!DotProduct(v, v)
  <2>1. Same(w1 * w1 + w2 * w2 + w3 * w3, u1 * u1 + u2 * u2 + u3 * u3, Prime)
    BY <1>6, <1>15, SameThree, Zenon
  <2>2. Same(u1 * u1 + u2 * u2 + u3 * u3, v1 * v1 + v2 * v2 + v3 * v3, Prime)
    <3>1. Same(u[1] * u[1] + u[2] * u[2] + u[3] * u[3], v[1] * v[1] + v[2] * v[2] + v[3] * v[3], Prime)
      BY <1>5, <1>6, <1>7, <1>8, KeepsLength
    <3> QED
      BY <1>12, <1>14, <3>1, Zenon
  <2>3. /\ w1 * w1 + w2 * w2 + w3 * w3 \in Int /\ u1 * u1 + u2 * u2 + u3 * u3 \in Int
        /\ v1 * v1 + v2 * v2 + v3 * v3 \in Int
    OBVIOUS
  <2>4. Same(w1 * w1 + w2 * w2 + w3 * w3, v1 * v1 + v2 * v2 + v3 * v3, Prime)
    BY <1>6, <2>1, <2>2, <2>3, SameTrans
  <2>5. (w1 * w1 + w2 * w2 + w3 * w3) % Prime = (v1 * v1 + v2 * v2 + v3 * v3) % Prime
    BY <1>6, <2>3, <2>4, ModSame
  <2>6. /\ Algebra!DotProduct(w, w) = (w[1] * w[1] + w[2] * w[2] + w[3] * w[3]) % Prime
        /\ Algebra!DotProduct(v, v) = (v[1] * v[1] + v[2] * v[2] + v[3] * v[3]) % Prime
    BY <1>7, <1>11, DotIs
  <2> QED
    BY <1>13, <1>14, <2>5, <2>6, Zenon
<1>24. Algebra!CrossProduct(Algebra!MatrixTimes(m, <<1, 0, 0>>), w)
         = Algebra!MatrixTimes(m, Algebra!CrossProduct(<<1, 0, 0>>, v))
  <2>1. PICK axis : axis = <<1, 0, 0>>
    OBVIOUS
  <2>2. axis \in Triples /\ axis[1] = 1 /\ axis[2] = 0 /\ axis[3] = 0
    BY <2>1 DEF Triples
  <2>3. PICK t : t = Algebra!MatrixTimes(m, axis)
    OBVIOUS
  <2>4. t \in [1..3 -> Algebra!Scalars] /\ \A r \in 1..3 : t[r] = Algebra!Mod(Image(e, axis)[r])
    BY <1>5, <2>2, <2>3, TimesIs
  <2>5. t \in Triples
    BY <1>6, <2>4 DEF Triples
  <2>6. PICK t1 \in Int, t2 \in Int, t3 \in Int : t1 = t[1] /\ t2 = t[2] /\ t3 = t[3]
    BY <2>5 DEF Triples
  <2>7. Image(e, axis)[1] = e1 /\ Image(e, axis)[2] = e4 /\ Image(e, axis)[3] = e7
    BY <1>17, <1>18, <1>19, <2>2 DEF Image
  <2>8. Same(t1, e1, Prime) /\ Same(t2, e4, Prime) /\ Same(t3, e7, Prime)
    BY <2>4, <2>6, <2>7, ScalarsAre
  <2>9. PICK x : x = Algebra!CrossProduct(axis, v)
    OBVIOUS
  <2>10. PICK n3 \in Int : n3 = -v3
    OBVIOUS
  <2>11. /\ x \in Triples
         /\ Same(x[1], 0, Prime) /\ Same(x[2], n3, Prime) /\ Same(x[3], v2, Prime)
    <3>1. /\ x \in Triples
          /\ Same(x[1], axis[2] * v[3] - axis[3] * v[2], Prime)
          /\ Same(x[2], axis[3] * v[1] - axis[1] * v[3], Prime)
          /\ Same(x[3], axis[1] * v[2] - axis[2] * v[1], Prime)
      BY <1>7, <2>2, <2>9, CrossIs
    <3>2. 0 * v3 - 0 * v2 = 0 /\ 0 * v1 - 1 * v3 = n3 /\ 1 * v2 - 0 * v1 = v2
      BY <2>10
    <3> QED
      BY <1>14, <2>2, <3>1, <3>2, Zenon
  <2>12. PICK x1 \in Int, x2 \in Int, x3 \in Int : x1 = x[1] /\ x2 = x[2] /\ x3 = x[3]
    BY <2>11 DEF Triples
  <2>13. Same(x1, 0, Prime) /\ Same(x2, n3, Prime) /\ Same(x3, v2, Prime) /\ 0 \in Int
    BY <2>11, <2>12
  <2>14. PICK y : y = Algebra!MatrixTimes(m, x)
    OBVIOUS
  <2>15. y \in [1..3 -> Algebra!Scalars] /\ \A r \in 1..3 : y[r] = Algebra!Mod(Image(e, x)[r])
    BY <1>5, <2>11, <2>14, TimesIs
  <2>16. /\ Image(e, x)[1] = e1 * x1 + e2 * x2 + e3 * x3
         /\ Image(e, x)[2] = e4 * x1 + e5 * x2 + e6 * x3
         /\ Image(e, x)[3] = e7 * x1 + e8 * x2 + e9 * x3
    BY <1>17, <1>18, <1>19, <2>12 DEF Image
  <2>17. PICK z : z = Algebra!CrossProduct(t, w)
    OBVIOUS
  <2>18. /\ z \in [1..3 -> Algebra!Scalars]
         /\ z[1] = Algebra!Mod(t2 * w3 - t3 * w2)
         /\ z[2] = Algebra!Mod(t3 * w1 - t1 * w3)
         /\ z[3] = Algebra!Mod(t1 * w2 - t2 * w1)
    <3>1. /\ z \in [1..3 -> Algebra!Scalars]
          /\ z[1] = Algebra!Mod(t[2] * w[3] - t[3] * w[2])
          /\ z[2] = Algebra!Mod(t[3] * w[1] - t[1] * w[3])
          /\ z[3] = Algebra!Mod(t[1] * w[2] - t[2] * w[1])
      BY <1>11, <2>5, <2>17, CrossIs
    <3> QED
      BY <1>13, <2>6, <3>1, Zenon
  <2>19. /\ Same(e4 * u3 - e7 * u2, v2 * e3 + v3 * (-e2), Prime)
         /\ Same(e7 * u1 - e1 * u3, v2 * e6 + v3 * (-e5), Prime)
         /\ Same(e1 * u2 - e4 * u1, v2 * e9 + v3 * (-e8), Prime)
    <3>1. /\ Same(e[4] * u[3] - e[7] * u[2], v[2] * e[3] + v[3] * (-e[2]), Prime)
          /\ Same(e[7] * u[1] - e[1] * u[3], v[2] * e[6] + v[3] * (-e[5]), Prime)
          /\ Same(e[1] * u[2] - e[4] * u[1], v[2] * e[9] + v[3] * (-e[8]), Prime)
      BY <1>5, <1>6, <1>7, <1>8, KeepsCross
    <3> QED
      BY <1>12, <1>14, <1>17, <1>18, <1>19, <3>1, Zenon
  <2>20. ASSUME NEW l \in Int, NEW o \in Int, NEW s \in Int, NEW r \in Int, NEW d \in Int,
                Same(l, o, Prime), Same(o, s, Prime), Same(r, d, Prime), d = s
         PROVE  Algebra!Mod(l) = Algebra!Mod(r)
    <3>1. Same(l, s, Prime)
      BY <1>6, <2>20, SameTrans
    <3>2. Same(s, r, Prime)
      BY <1>6, <2>20, SameSym
    <3>3. Same(l, r, Prime)
      BY <1>6, <3>1, <3>2, SameTrans
    <3> QED
      BY <3>3, ModsEqual
  <2>21. Algebra!Mod(t2 * w3 - t3 * w2) = Algebra!Mod(e1 * x1 + e2 * x2 + e3 * x3)
    <3>1. PICK l \in Int : l = t2 * w3 - t3 * w2
      OBVIOUS
    <3>2. PICK o \in Int : o = e4 * u3 - e7 * u2
      OBVIOUS
    <3>3. PICK s \in Int : s = v2 * e3 + v3 * (-e2)
      OBVIOUS
    <3>4. PICK r \in Int : r = e1 * x1 + e2 * x2 + e3 * x3
      OBVIOUS
    <3>5. PICK d \in Int : d = e1 * 0 + e2 * n3 + e3 * v2
      OBVIOUS
    <3>6. Same(l, o, Prime)
      <4>1. Same(t2 * w3 - t3 * w2, e4 * u3 - e7 * u2, Prime)
        BY <1>6, <1>15, <2>8, SameMinor, Zenon
      <4> QED
        BY <3>1, <3>2, <4>1, Zenon
    <3>7. Same(r, d, Prime)
      <4>1. Same(e1 * x1 + e2 * x2 + e3 * x3, e1 * 0 + e2 * n3 + e3 * v2, Prime)
        BY <1>6, <1>20, <2>13, SameThree, Zenon
      <4> QED
        BY <3>4, <3>5, <4>1, Zenon
    <3>8. Same(o, s, Prime)
      BY <2>19, <3>2, <3>3, Zenon
    <3>9. d = s
      BY <2>10, <3>3, <3>5
    <3>10. Algebra!Mod(l) = Algebra!Mod(r)
      BY <2>20, <3>6, <3>7, <3>8, <3>9
    <3> QED
      BY <3>1, <3>4, <3>10, Zenon
  <2>22. Algebra!Mod(t3 * w1 - t1 * w3) = Algebra!Mod(e4 * x1 + e5 * x2 + e6 * x3)
    <3>1. PICK l \in Int : l = t3 * w1 - t1 * w3
      OBVIOUS
    <3>2. PICK o \in Int : o = e7 * u1 - e1 * u3
      OBVIOUS
    <3>3. PICK s \in Int : s = v2 * e6 + v3 * (-e5)
      OBVIOUS
    <3>4. PICK r \in Int : r = e4 * x1 + e5 * x2 + e6 * x3
      OBVIOUS
    <3>5. PICK d \in Int : d = e4 * 0 + e5 * n3 + e6 * v2
      OBVIOUS
    <3>6. Same(l, o, Prime)
      <4>1. Same(t3 * w1 - t1 * w3, e7 * u1 - e1 * u3, Prime)
        BY <1>6, <1>15, <2>8, SameMinor, Zenon
      <4> QED
        BY <3>1, <3>2, <4>1, Zenon
    <3>7. Same(r, d, Prime)
      <4>1. Same(e4 * x1 + e5 * x2 + e6 * x3, e4 * 0 + e5 * n3 + e6 * v2, Prime)
        BY <1>6, <1>20, <2>13, SameThree, Zenon
      <4> QED
        BY <3>4, <3>5, <4>1, Zenon
    <3>8. Same(o, s, Prime)
      BY <2>19, <3>2, <3>3, Zenon
    <3>9. d = s
      BY <2>10, <3>3, <3>5
    <3>10. Algebra!Mod(l) = Algebra!Mod(r)
      BY <2>20, <3>6, <3>7, <3>8, <3>9
    <3> QED
      BY <3>1, <3>4, <3>10, Zenon
  <2>23. Algebra!Mod(t1 * w2 - t2 * w1) = Algebra!Mod(e7 * x1 + e8 * x2 + e9 * x3)
    <3>1. PICK l \in Int : l = t1 * w2 - t2 * w1
      OBVIOUS
    <3>2. PICK o \in Int : o = e1 * u2 - e4 * u1
      OBVIOUS
    <3>3. PICK s \in Int : s = v2 * e9 + v3 * (-e8)
      OBVIOUS
    <3>4. PICK r \in Int : r = e7 * x1 + e8 * x2 + e9 * x3
      OBVIOUS
    <3>5. PICK d \in Int : d = e7 * 0 + e8 * n3 + e9 * v2
      OBVIOUS
    <3>6. Same(l, o, Prime)
      <4>1. Same(t1 * w2 - t2 * w1, e1 * u2 - e4 * u1, Prime)
        BY <1>6, <1>15, <2>8, SameMinor, Zenon
      <4> QED
        BY <3>1, <3>2, <4>1, Zenon
    <3>7. Same(r, d, Prime)
      <4>1. Same(e7 * x1 + e8 * x2 + e9 * x3, e7 * 0 + e8 * n3 + e9 * v2, Prime)
        BY <1>6, <1>20, <2>13, SameThree, Zenon
      <4> QED
        BY <3>4, <3>5, <4>1, Zenon
    <3>8. Same(o, s, Prime)
      BY <2>19, <3>2, <3>3, Zenon
    <3>9. d = s
      BY <2>10, <3>3, <3>5
    <3>10. Algebra!Mod(l) = Algebra!Mod(r)
      BY <2>20, <3>6, <3>7, <3>8, <3>9
    <3> QED
      BY <3>1, <3>4, <3>10, Zenon
  <2>24. z[1] = y[1] /\ z[2] = y[2] /\ z[3] = y[3]
    BY <2>15, <2>16, <2>18, <2>21, <2>22, <2>23
  <2>25. z = y
    BY <2>15, <2>18, <2>24, TriplesEqual
  <2> QED
    BY <2>1, <2>3, <2>9, <2>14, <2>17, <2>25, Zenon
<1> QED
  BY <1>3, <1>4, <1>21, <1>22, <1>23, <1>24, Zenon

-----------------------------------------------------------------------------
(* Products                                                                *)

\* No index leaves its matrix when the sides fit.
LEMMA IndexFits ==
  ASSUME NEW rows \in Nat \ {0}, NEW columns \in Nat \ {0}, NEW r \in 1..rows, NEW c \in 1..columns
  PROVE  (r - 1) * columns + c \in 1..rows * columns
<1>1. PICK d \in Nat : d = rows - r
  OBVIOUS
<1>2. d * columns >= 0 /\ (r - 1) * columns >= 0 /\ rows * columns \in Int
      /\ (r - 1) * columns \in Int /\ d * columns \in Int
  OBVIOUS
<1>3. rows * columns = (r - 1) * columns + columns + d * columns
  BY <1>1
<1> QED
  BY <1>2, <1>3

\* What the sums of a product add is then what they should.
LEMMA TermsFit ==
  ASSUME NEW r \in Nat \ {0}, NEW k \in Nat \ {0}, NEW c \in Nat \ {0},
         NEW a \in Algebra!MatricesOf(r, k), NEW b \in Algebra!MatricesOf(k, c)
  PROVE  [i \in 1..r |-> [j \in 1..c |->
            Algebra!Mod(SumTo([n \in 1..k |-> Algebra!At(a, i, n) * Algebra!At(b, n, j)], k))]]
           = Algebra!ProductOf(a, b)
<1>1. /\ a.rows = r /\ a.columns = k /\ DOMAIN a.data = 1..r * k
      /\ b.rows = k /\ b.columns = c /\ DOMAIN b.data = 1..k * c
  BY DEF Algebra!MatricesOf
<1>2. ASSUME NEW i \in 1..r, NEW j \in 1..c, NEW n \in 1..k
      PROVE  /\ Algebra!At(a, i, n) = a.data[(i - 1) * a.columns + n]
             /\ Algebra!At(b, n, j) = b.data[(n - 1) * b.columns + j]
  <2>1. (i - 1) * k + n \in 1..r * k /\ (n - 1) * c + j \in 1..k * c
    BY IndexFits
  <2>2. (i - 1) * a.columns + n \in DOMAIN a.data /\ (n - 1) * b.columns + j \in DOMAIN b.data
    BY <1>1, <2>1, Zenon
  <2> QED
    BY <2>2, Zenon DEF Algebra!At
<1>3. ASSUME NEW i \in 1..r, NEW j \in 1..c
      PROVE  [n \in 1..k |-> Algebra!At(a, i, n) * Algebra!At(b, n, j)]
               = [n \in 1..k |-> a.data[(i - 1) * a.columns + n] * b.data[(n - 1) * b.columns + j]]
  BY <1>2, Zenon
<1>4. Algebra!ProductOf(a, b)
        = [i \in 1..r |-> [j \in 1..c |-> Algebra!Mod(SumTo(
             [n \in 1..k |-> a.data[(i - 1) * a.columns + n] * b.data[(n - 1) * b.columns + j]], k))]]
  BY <1>1, SumsSame, Zenon DEF Algebra!ProductOf
<1>5. \A i \in 1..r : \A j \in 1..c :
        Algebra!Mod(SumTo([n \in 1..k |-> Algebra!At(a, i, n) * Algebra!At(b, n, j)], k))
          = Algebra!Mod(SumTo(
             [n \in 1..k |-> a.data[(i - 1) * a.columns + n] * b.data[(n - 1) * b.columns + j]], k))
  BY <1>3, Zenon
<1> QED
  BY <1>4, <1>5, Zenon

\* The inner side of a product that fits is the longer outer one.
LEMMA LongerSide ==
  ASSUME NEW r \in Nat, NEW c \in Nat, NEW k, k = Max({r, c})
  PROVE  k = IF c > r THEN c ELSE r
<1>1. \E x \in {r, c} : \A y \in {r, c} : x >= y
  OBVIOUS
<1>2. k \in {r, c} /\ \A y \in {r, c} : k >= y
  BY <1>1 DEF Max
<1> QED
  BY <1>2

\* What a call is given, and returns.
Arguments ==
  \/ /\ function \in {"DynamicProduct", "StaticProduct"}
     /\ \E r, k, c \in 1..MaxSide :
          /\ left \in Algebra!MatricesOf(r, k)
          /\ right \in Algebra!MatricesOf(IF function = "StaticProduct" THEN r ELSE k, c)
  \/ /\ function \in {"CrossProduct", "DynamicCrossProduct"}
     /\ left \in Algebra!Vectors /\ right \in Algebra!Vectors
  \/ /\ function = "RotationMatrix"
     /\ left \in {p \in Algebra!Quaternions : Algebra!Norm(p) = 1} /\ right \in Algebra!Vectors

Returned ==
  /\ function = "DynamicProduct" => result = Algebra!DynamicProduct(left, right)
  /\ function = "StaticProduct" => result = Algebra!StaticProduct(left, right)
  /\ function = "CrossProduct" => result = Algebra!CrossProduct(left, right)
  /\ function = "DynamicCrossProduct" => result = Algebra!DynamicCrossProduct(left, right)
  /\ function = "RotationMatrix" =>
       result = Algebra!MatrixTimes(Algebra!RotationMatrix(left), right)

AlgebraInv == Arguments /\ (result = <<>> \/ Returned)

\* A call returns what its function computes.
LEMMA CallsReturn ==
  /\ Algebra!Init => AlgebraInv
  /\ AlgebraInv /\ [Algebra!Next]_Algebra!vars => AlgebraInv'
<1>1. Algebra!Init => AlgebraInv
  BY DEF Algebra!Init, AlgebraInv, Arguments
<1>2. ASSUME AlgebraInv, Algebra!Compute PROVE AlgebraInv'
  <2>1. Arguments'
    BY <1>2 DEF AlgebraInv, Arguments, Algebra!Compute
  <2>2. Returned'
    BY <1>2 DEF Algebra!Compute, Returned
  <2> QED
    BY <2>1, <2>2 DEF AlgebraInv
<1>3. ASSUME AlgebraInv, UNCHANGED Algebra!vars PROVE AlgebraInv'
  BY <1>3 DEF AlgebraInv, Arguments, Returned, Algebra!vars
<1> QED
  BY <1>1, <1>2, <1>3 DEF Algebra!Next

\* A product is right as far as its sums have the right length,
LEMMA ProductsRight ==
  ASSUME Algebra!SizesAssumption, AlgebraInv, result # <<>>,
         function \in {"DynamicProduct", "StaticProduct"}, Algebra!InnerFits
  PROVE  result = Algebra!ProductOf(left, right)
<1>1. PICK r \in 1..MaxSide, k \in 1..MaxSide, c \in 1..MaxSide :
        /\ left \in Algebra!MatricesOf(r, k)
        /\ right \in Algebra!MatricesOf(IF function = "StaticProduct" THEN r ELSE k, c)
  BY DEF AlgebraInv, Arguments
<1>2. r \in Nat \ {0} /\ k \in Nat \ {0} /\ c \in Nat \ {0}
  BY DEF Algebra!SizesAssumption
<1>3. /\ left.rows = r /\ left.columns = k /\ right.columns = c
      /\ function = "StaticProduct" => right.rows = r
  BY <1>1 DEF Algebra!MatricesOf
<1>4. k = IF c > r THEN c ELSE r
  <2>1. k = Max({r, c})
    BY <1>3 DEF Algebra!InnerFits, Algebra!Max, Max
  <2> QED
    BY <1>2, <2>1, LongerSide
<1>5. function = "StaticProduct" => r = c /\ r = k
  BY <1>2, <1>3, <1>4 DEF Algebra!InnerFits
<1>6. right \in Algebra!MatricesOf(k, c)
  BY <1>1, <1>5
<1>7. [i \in 1..r |-> [j \in 1..c |->
         Algebra!Mod(SumTo([n \in 1..k |-> Algebra!At(left, i, n) * Algebra!At(right, n, j)], k))]]
        = Algebra!ProductOf(left, right)
  BY <1>1, <1>2, <1>6, TermsFit
<1>8. CASE function = "DynamicProduct"
  <2>1. Algebra!InnerIterations(left, right) = k
    BY <1>3, <1>4 DEF Algebra!InnerIterations
  <2>2. result = Algebra!DynamicProduct(left, right)
    BY <1>8 DEF AlgebraInv, Returned
  <2>3. Algebra!DynamicProduct(left, right)
          = [i \in 1..r |-> [j \in 1..c |-> Algebra!Mod(SumTo(
               [n \in 1..k |-> Algebra!At(left, i, n) * Algebra!At(right, n, j)], k))]]
    BY <1>3, <2>1, SumsSame, Zenon DEF Algebra!DynamicProduct
  <2> QED
    BY <1>7, <2>2, <2>3, Zenon
<1>9. CASE function = "StaticProduct"
  <2>1. result = Algebra!StaticProduct(left, right)
    BY <1>9 DEF AlgebraInv, Returned
  <2>2. right.columns = k /\ left.rows = r /\ c = k
    BY <1>3, <1>5, <1>9
  <2>3. Algebra!StaticProduct(left, right)
          = [i \in 1..r |-> [j \in 1..c |-> Algebra!Mod(SumTo(
               [n \in 1..k |-> Algebra!At(left, i, n) * Algebra!At(right, n, j)], k))]]
    BY <2>2, SumsSame, Zenon DEF Algebra!StaticProduct
  <2> QED
    BY <1>7, <2>1, <2>3, Zenon
<1> QED
  BY <1>8, <1>9

\* and a cross product and a rotation always.
LEMMA AlgebraFollows == Algebra!SizesAssumption /\ AlgebraInv => Algebra!AlgebraRight
<1> SUFFICES ASSUME Algebra!SizesAssumption, AlgebraInv, result # <<>>
             PROVE  Algebra!AlgebraRight
  BY DEF Algebra!AlgebraRight
<1>1. Returned /\ Arguments
  BY DEF AlgebraInv
<1>2. CASE function \in {"DynamicProduct", "StaticProduct"}
  <2>1. Algebra!InnerFits => result = Algebra!ProductOf(left, right)
    BY <1>2, ProductsRight
  <2> QED
    BY <1>2, <2>1 DEF Algebra!AlgebraRight
<1>3. CASE function \in {"CrossProduct", "DynamicCrossProduct"}
  <2>1. left \in Triples /\ right \in Triples
    BY <1>1, <1>3, ScalarsAre DEF Arguments, Algebra!Vectors, Triples
  <2>2. result = Algebra!CrossProduct(left, right)
    BY <1>1, <1>3, <2>1, DynamicCrossIs DEF Returned
  <2>3. Algebra!DotProduct(result, left) = 0 /\ Algebra!DotProduct(result, right) = 0
    BY <2>1, <2>2, CrossPerpendicular
  <2>4. Algebra!Plus(result, Algebra!DynamicCrossProduct(right, left)) = <<0, 0, 0>>
    BY <2>1, <2>2, CrossTurns, DynamicCrossIs
  <2>5. Algebra!CrossProduct(left, Algebra!Minus(right, Algebra!Scaled(2, left))) = result
    BY <2>1, <2>2, CrossDisregards
  <2> QED
    BY <1>3, <2>2, <2>3, <2>4, <2>5 DEF Algebra!AlgebraRight
<1>4. CASE function = "RotationMatrix"
  <2>1. left \in Algebra!Quaternions /\ Algebra!Norm(left) = 1 /\ right \in Algebra!Vectors
    BY <1>1, <1>4 DEF Arguments
  <2>2. result = Algebra!MatrixTimes(Algebra!RotationMatrix(left), right)
    BY <1>1, <1>4 DEF Returned
  <2>3. /\ Algebra!MatrixTimes(Algebra!RotationMatrix(Algebra!Inverted(left)), result) = right
        /\ Algebra!RotationMatrix(Algebra!Inverted(left))
             = Algebra!Transpose(Algebra!RotationMatrix(left))
        /\ Algebra!DotProduct(result, result) = Algebra!DotProduct(right, right)
        /\ Algebra!CrossProduct(
             Algebra!MatrixTimes(Algebra!RotationMatrix(left), <<1, 0, 0>>), result)
             = Algebra!MatrixTimes(Algebra!RotationMatrix(left),
                                   Algebra!CrossProduct(<<1, 0, 0>>, right))
    BY <2>1, <2>2, RotationRight
  <2> QED
    BY <1>4, <2>3, Zenon DEF Algebra!AlgebraRight
<1> QED
  BY <1>1, <1>2, <1>3, <1>4 DEF Arguments

\* Products, cross products and rotations are right, matrices of every size and
\* every modulus.
THEOREM AlgebraCorrect ==
  ASSUME Algebra!SizesAssumption
  PROVE  Algebra!Spec => []Algebra!AlgebraRight
<1>1. AlgebraInv => Algebra!AlgebraRight
  BY AlgebraFollows
<1> QED
  BY <1>1, CallsReturn, PTL DEF Algebra!Spec
=============================================================================
