----------------------------- MODULE Induction ------------------------------
(***************************************************************************)
(* Induction on the natural numbers, recursive functions and division, in a   *)
(* form the first-order provers can use: what would be a predicate or an      *)
(* operator as parameter is a set or a function.                             *)
(***************************************************************************)
EXTENDS Sums, WellFoundedInduction, NaturalsInduction, TLAPS

\* A set of numbers that is not empty has a smallest element.
LEMMA SmallestNat ==
  ASSUME NEW S \in SUBSET Nat, S # {}
  PROVE  \E n \in S : \A m \in S : n <= m
<1> DEFINE R == OpToRel(<, Nat)
<1>1. R = {ss \in Nat \X Nat : ss[1] < ss[2]}
  BY DEF OpToRel
<1>2. IsWellFoundedOn(R, Nat)
  BY NatLessThanWellFounded
<1> HIDE DEF R
<1>3. PICK n \in S : \A m \in S : ~(<<m, n>> \in R)
  BY <1>2, WFMin
<1>4. ASSUME NEW m \in S PROVE n <= m
  <2>1. m \in Nat /\ n \in Nat
    OBVIOUS
  <2>2. <<m, n>> \in Nat \X Nat => ~(m < n)
    BY <1>1, <1>3
  <2> QED
    BY <2>1, <2>2
<1> QED
  BY <1>4

\* Induction, on the set of the numbers a formula holds of.
LEMMA AllNat ==
  ASSUME NEW S, 0 \in S, \A n \in Nat : n \in S => n + 1 \in S
  PROVE  Nat \subseteq S
<1> SUFFICES ASSUME Nat \ S # {} PROVE FALSE
  OBVIOUS
<1>1. PICK n \in Nat \ S : \A m \in Nat \ S : n <= m
  BY SmallestNat
<1>2. n # 0
  OBVIOUS
<1>3. n - 1 \in Nat /\ (n - 1) + 1 = n /\ ~(n <= n - 1)
  BY <1>2
<1>4. n - 1 \in S
  BY <1>1, <1>3
<1> QED
  BY <1>3, <1>4

-----------------------------------------------------------------------------

(* Recursive functions                                                     *)

\* f starts with base, and each value is made from the one before.
Recursive(f, S, base, step) ==
  /\ f \in [Nat -> S]
  /\ f[0] = base
  /\ \A n \in Nat : f[n + 1] = step[n + 1][f[n]]

HasRecursive(S, base, step) == \E f : Recursive(f, S, base, step)

\* There is a function for every recursive definition.
LEMMA RecursiveExists ==
  ASSUME NEW S, NEW base \in S, NEW step \in [Nat -> [S -> S]]
  PROVE  HasRecursive(S, base, step)
<1> DEFINE Part(m, g) == /\ g \in [0..m -> S]
                         /\ g[0] = base
                         /\ \A n \in 0..(m - 1) : g[n + 1] = step[n + 1][g[n]]
           P == {m \in Nat : \E g : Part(m, g)}
<1>1. 0 \in P
  <2>1. Part(0, [i \in 0..0 |-> base])
    OBVIOUS
  <2> QED
    BY <2>1
<1>2. ASSUME NEW m \in Nat, m \in P PROVE m + 1 \in P
  <2>1. PICK g : Part(m, g)
    BY <1>2
  <2> DEFINE h == [i \in 0..(m + 1) |-> IF i = m + 1 THEN step[m + 1][g[m]] ELSE g[i]]
  <2>2. m \in 0..m /\ g[m] \in S /\ step[m + 1] \in [S -> S]
    BY <2>1
  <2>3. h \in [0..(m + 1) -> S]
    BY <2>1, <2>2
  <2>4. h[0] = base
    BY <2>1
  <2>5. ASSUME NEW n \in 0..(m + 1 - 1) PROVE h[n + 1] = step[n + 1][h[n]]
    <3>1. CASE n = m
      <4>1. m + 1 \in 0..(m + 1) /\ m \in 0..(m + 1) /\ m # m + 1
        OBVIOUS
      <4>2. h[m + 1] = step[m + 1][g[m]] /\ h[m] = g[m]
        BY <4>1
      <4> QED
        BY <3>1, <4>2
    <3>2. CASE n # m
      <4>1. /\ n \in 0..(m - 1) /\ n \in 0..(m + 1) /\ n + 1 \in 0..(m + 1)
            /\ n + 1 # m + 1 /\ n # m + 1
        BY <3>2
      <4> QED
        BY <2>1, <4>1
    <3> QED
      BY <3>1, <3>2
  <2>6. Part(m + 1, h)
    <3> HIDE DEF h
    <3> QED
      BY <2>3, <2>4, <2>5
  <2> HIDE DEF Part, h
  <2> QED
    BY <2>6
<1>3. \A m \in Nat : \E g : Part(m, g)
  <2>1. Nat \subseteq P
    <3> HIDE DEF P
    <3> QED
      BY <1>1, <1>2, AllNat
  <2> QED
    BY <2>1
<1>4. ASSUME NEW m \in Nat, NEW k \in Nat, NEW g, NEW h, Part(m, g), Part(k, h)
      PROVE  \A i \in 0..m : i <= k => g[i] = h[i]
  <2> DEFINE Q == {i \in Nat : i <= m /\ i <= k => g[i] = h[i]}
  <2>1. 0 \in Q
    BY <1>4
  <2>2. ASSUME NEW i \in Nat, i \in Q PROVE i + 1 \in Q
    <3>1. CASE i + 1 <= m /\ i + 1 <= k
      <4>1. i \in 0..(m - 1) /\ i \in 0..(k - 1) /\ g[i] = h[i]
        BY <2>2, <3>1
      <4>2. g[i + 1] = h[i + 1]
        BY <1>4, <4>1
      <4> QED
        BY <4>2
    <3> QED
      BY <3>1
  <2>3. Nat \subseteq Q
    <3> HIDE DEF Q
    <3> QED
      BY <2>1, <2>2, AllNat
  <2> QED
    BY <2>3
<1> DEFINE G(m) == CHOOSE g : Part(m, g)
           f == [m \in Nat |-> G(m)[m]]
<1>5. \A m \in Nat : Part(m, G(m))
  <2> HIDE DEF Part
  <2> QED
    BY <1>3, Zenon
<1> HIDE DEF G
<1>6. f \in [Nat -> S]
  BY <1>5
<1>7. f[0] = base
  BY <1>5
<1>8. ASSUME NEW n \in Nat PROVE f[n + 1] = step[n + 1][f[n]]
  <2>1. Part(n, G(n)) /\ Part(n + 1, G(n + 1))
    BY <1>5
  <2>2. G(n)[n] = G(n + 1)[n]
    <3> HIDE DEF Part
    <3>1. \A i \in 0..n : i <= n + 1 => G(n)[i] = G(n + 1)[i]
      BY <1>4, <2>1
    <3> QED
      BY <3>1
  <2>3. G(n + 1)[n + 1] = step[n + 1][G(n + 1)[n]]
    <3>1. n \in 0..(n + 1 - 1)
      OBVIOUS
    <3> QED
      BY <2>1, <3>1
  <2> QED
    BY <2>2, <2>3
<1>9. Recursive(f, S, base, step)
  <2> HIDE DEF f
  <2> QED
    BY <1>6, <1>7, <1>8 DEF Recursive
<1> HIDE DEF f
<1> QED
  BY <1>9 DEF HasRecursive

\* What a recursive function is, value by value: two of the same definition are
\* equal.
LEMMA RecursiveUnique ==
  ASSUME NEW f, NEW g, f[0] = g[0],
         \A n \in Nat : f[n] = g[n] => f[n + 1] = g[n + 1]
  PROVE  \A n \in Nat : f[n] = g[n]
<1> DEFINE P == {n \in Nat : f[n] = g[n]}
<1>1. 0 \in P
  OBVIOUS
<1>2. \A n \in Nat : n \in P => n + 1 \in P
  OBVIOUS
<1>3. Nat \subseteq P
  <2> HIDE DEF P
  <2> QED
    BY <1>1, <1>2, AllNat
<1> QED
  BY <1>3

-----------------------------------------------------------------------------

(* Sums                                                                    *)

IsSum(s, a, m) == s = [n \in 0..m |-> IF n = 0 THEN 0 ELSE s[n - 1] + a[n]]

\* The function a sum is defined with.
LEMMA SumExists ==
  ASSUME NEW m \in Nat, NEW a, \A i \in 1..m : a[i] \in Nat
  PROVE  \E s \in [0..m -> Nat] : IsSum(s, a, m)
<1> DEFINE step == [n \in Nat |-> [v \in Nat |-> IF n \in 1..m THEN v + a[n] ELSE v]]
<1>1. step \in [Nat -> [Nat -> Nat]]
  OBVIOUS
<1>2. \A n \in 1..m, v \in Nat : step[n][v] = v + a[n]
  OBVIOUS
<1> HIDE DEF step
<1>3. HasRecursive(Nat, 0, step)
  BY <1>1, 0 \in Nat, RecursiveExists, Zenon
<1>4. PICK f : Recursive(f, Nat, 0, step)
  BY <1>3 DEF HasRecursive
<1> DEFINE s == [n \in 0..m |-> f[n]]
<1>5. f \in [Nat -> Nat] /\ f[0] = 0 /\ \A n \in Nat : f[n + 1] = step[n + 1][f[n]]
  BY <1>4 DEF Recursive
<1>6. s \in [0..m -> Nat]
  BY <1>5
<1>7. ASSUME NEW n \in 0..m PROVE s[n] = IF n = 0 THEN 0 ELSE s[n - 1] + a[n]
  <2>1. CASE n = 0
    BY <1>5, <2>1
  <2>2. CASE n # 0
    <3>1. n - 1 \in Nat /\ n - 1 \in 0..m /\ (n - 1) + 1 = n /\ n \in 1..m
      BY <2>2
    <3>2. f[n - 1] \in Nat /\ f[n] = step[n][f[n - 1]]
      BY <1>5, <3>1
    <3>3. f[n] = f[n - 1] + a[n]
      BY <1>2, <3>1, <3>2
    <3> QED
      BY <2>2, <3>1, <3>3
  <2> QED
    BY <2>1, <2>2
<1>8. IsSum(s, a, m)
  BY <1>7 DEF IsSum
<1> HIDE DEF s
<1> QED
  BY <1>6, <1>8

\* Its values, one after the other.
LEMMA SumValues ==
  ASSUME NEW m \in Nat, NEW a, NEW s, IsSum(s, a, m)
  PROVE  s[0] = 0 /\ \A n \in Nat : n < m => s[n + 1] = s[n] + a[n + 1]
<1>1. 0 \in 0..m
  OBVIOUS
<1>2. \A n \in Nat : n < m => n + 1 \in 0..m /\ n + 1 # 0 /\ n + 1 - 1 = n
  OBVIOUS
<1> QED
  BY <1>1, <1>2 DEF IsSum

\* Sums of the same numbers agree as far as both go.
LEMMA SumsAgree ==
  ASSUME NEW m \in Nat, NEW k \in Nat, NEW a, NEW s, NEW t,
         IsSum(s, a, m), IsSum(t, a, k), k <= m
  PROVE  \A n \in Nat : n <= k => s[n] = t[n]
<1>1. /\ s[0] = 0 /\ \A n \in Nat : n < m => s[n + 1] = s[n] + a[n + 1]
      /\ t[0] = 0 /\ \A n \in Nat : n < k => t[n + 1] = t[n] + a[n + 1]
  BY SumValues
<1> DEFINE P == {n \in Nat : n <= k => s[n] = t[n]}
<1>2. 0 \in P
  BY <1>1
<1>3. ASSUME NEW n \in Nat, n \in P PROVE n + 1 \in P
  <2>1. CASE n + 1 <= k
    <3>1. n < m /\ n < k /\ s[n] = t[n]
      BY <1>3, <2>1
    <3> QED
      BY <1>1, <3>1
  <2> QED
    BY <2>1
<1>4. Nat \subseteq P
  <2> HIDE DEF P
  <2> QED
    BY <1>2, <1>3, AllNat
<1> QED
  BY <1>4

\* SumTo is the last value of that function.
LEMMA SumDefined ==
  ASSUME NEW m \in Nat, NEW a, \A i \in 1..m : a[i] \in Nat
  PROVE  \E s \in [0..m -> Nat] : IsSum(s, a, m) /\ SumTo(a, m) = s[m]
<1> DEFINE t == CHOOSE s : IsSum(s, a, m)
<1>1. SumTo(a, m) = t[m]
  BY Zenon DEF SumTo, IsSum
<1>2. PICK s \in [0..m -> Nat] : IsSum(s, a, m)
  BY SumExists
<1>3. IsSum(t, a, m)
  BY <1>2, Zenon
<1> HIDE DEF t
<1>4. s[m] = t[m]
  BY <1>2, <1>3, SumsAgree
<1> QED
  BY <1>1, <1>2, <1>4

\* A sum is a natural number.
LEMMA SumNat ==
  ASSUME NEW m \in Nat, NEW a, \A i \in 1..m : a[i] \in Nat
  PROVE  SumTo(a, m) \in Nat
BY SumDefined

\* The sum of nothing.
LEMMA SumZero ==
  ASSUME NEW a
  PROVE  SumTo(a, 0) = 0
<1>1. 0 \in Nat /\ \A i \in 1..0 : a[i] \in Nat
  OBVIOUS
<1>2. PICK s \in [0..0 -> Nat] : IsSum(s, a, 0) /\ SumTo(a, 0) = s[0]
  BY <1>1, SumDefined
<1> QED
  BY <1>1, <1>2, SumValues

\* Each number adds to the sum of those before it.
LEMMA SumNext ==
  ASSUME NEW m \in Nat, NEW a, \A i \in 1..(m + 1) : a[i] \in Nat
  PROVE  SumTo(a, m + 1) = SumTo(a, m) + a[m + 1]
<1>1. m + 1 \in Nat /\ m <= m + 1 /\ m < m + 1 /\ \A i \in 1..m : a[i] \in Nat
  OBVIOUS
<1>2. PICK s \in [0..(m + 1) -> Nat] : IsSum(s, a, m + 1) /\ SumTo(a, m + 1) = s[m + 1]
  BY <1>1, SumDefined
<1>3. PICK t \in [0..m -> Nat] : IsSum(t, a, m) /\ SumTo(a, m) = t[m]
  BY <1>1, SumDefined
<1>4. s[m] = t[m]
  BY <1>1, <1>2, <1>3, SumsAgree
<1>5. s[m + 1] = s[m] + a[m + 1]
  BY <1>1, <1>2, SumValues
<1> QED
  BY <1>2, <1>3, <1>4, <1>5

\* Sums of the same numbers are the same; sums of larger numbers are larger.
LEMMA SumSame ==
  ASSUME NEW m \in Nat, NEW a, NEW b, \A i \in 1..m : a[i] \in Nat /\ a[i] = b[i]
  PROVE  SumTo(a, m) = SumTo(b, m)
<1> DEFINE P == {n \in Nat : n <= m => SumTo(a, n) = SumTo(b, n)}
<1>1. 0 \in P
  BY SumZero
<1>2. ASSUME NEW n \in Nat, n \in P PROVE n + 1 \in P
  <2>1. CASE n + 1 <= m
    <3>1. SumTo(a, n) = SumTo(b, n) /\ a[n + 1] = b[n + 1]
      BY <1>2, <2>1
    <3>2. \A i \in 1..(n + 1) : a[i] \in Nat /\ b[i] \in Nat
      BY <2>1
    <3> QED
      BY <3>1, <3>2, SumNext
  <2> QED
    BY <2>1
<1>3. Nat \subseteq P
  <2> HIDE DEF P
  <2> QED
    BY <1>1, <1>2, AllNat
<1> QED
  BY <1>3

LEMMA SumLess ==
  ASSUME NEW m \in Nat, NEW a, NEW b,
         \A i \in 1..m : a[i] \in Nat /\ b[i] \in Nat /\ a[i] <= b[i]
  PROVE  SumTo(a, m) <= SumTo(b, m)
<1> DEFINE P == {n \in Nat : n <= m => SumTo(a, n) <= SumTo(b, n)}
<1>1. 0 \in P
  BY SumZero
<1>2. ASSUME NEW n \in Nat, n \in P PROVE n + 1 \in P
  <2>1. CASE n + 1 <= m
    <3>1. SumTo(a, n) <= SumTo(b, n) /\ a[n + 1] <= b[n + 1]
          /\ a[n + 1] \in Nat /\ b[n + 1] \in Nat
      BY <1>2, <2>1
    <3>2. \A i \in 1..(n + 1) : a[i] \in Nat /\ b[i] \in Nat
      BY <2>1
    <3>3. SumTo(a, n) \in Nat /\ SumTo(b, n) \in Nat
      BY <3>2, SumNat
    <3>4. /\ SumTo(a, n + 1) = SumTo(a, n) + a[n + 1]
          /\ SumTo(b, n + 1) = SumTo(b, n) + b[n + 1]
      BY <3>2, SumNext
    <3> QED
      BY <3>1, <3>3, <3>4
  <2> QED
    BY <2>1
<1>3. Nat \subseteq P
  <2> HIDE DEF P
  <2> QED
    BY <1>1, <1>2, AllNat
<1> QED
  BY <1>3

\* The sum of the sums.
LEMMA SumPlus ==
  ASSUME NEW m \in Nat, NEW a, NEW b, NEW c,
         \A i \in 1..m : a[i] \in Nat /\ b[i] \in Nat /\ c[i] = a[i] + b[i]
  PROVE  SumTo(c, m) = SumTo(a, m) + SumTo(b, m)
<1> DEFINE P == {n \in Nat : n <= m => SumTo(c, n) = SumTo(a, n) + SumTo(b, n)}
<1>1. 0 \in P
  BY SumZero
<1>2. ASSUME NEW n \in Nat, n \in P PROVE n + 1 \in P
  <2>1. CASE n + 1 <= m
    <3>1. SumTo(c, n) = SumTo(a, n) + SumTo(b, n)
      BY <1>2, <2>1
    <3>2. \A i \in 1..(n + 1) : a[i] \in Nat /\ b[i] \in Nat /\ c[i] \in Nat
      BY <2>1
    <3>3. SumTo(a, n) \in Nat /\ SumTo(b, n) \in Nat
      BY <3>2, SumNat
    <3>4. /\ SumTo(a, n + 1) = SumTo(a, n) + a[n + 1]
          /\ SumTo(b, n + 1) = SumTo(b, n) + b[n + 1]
          /\ SumTo(c, n + 1) = SumTo(c, n) + c[n + 1]
      BY <3>2, SumNext
    <3>5. n + 1 \in 1..m
      BY <2>1
    <3> QED
      BY <3>1, <3>3, <3>4, <3>5
  <2> QED
    BY <2>1
<1>3. Nat \subseteq P
  <2> HIDE DEF P
  <2> QED
    BY <1>1, <1>2, AllNat
<1> QED
  BY <1>3

\* A sum, cut in two.
LEMMA SumSplit ==
  ASSUME NEW m \in Nat, NEW k \in Nat, NEW a, NEW b,
         \A i \in 1..(m + k) : a[i] \in Nat, \A i \in 1..k : b[i] = a[m + i]
  PROVE  SumTo(a, m + k) = SumTo(a, m) + SumTo(b, k)
<1> DEFINE P == {n \in Nat : n <= k => SumTo(a, m + n) = SumTo(a, m) + SumTo(b, n)}
<1>1. 0 \in P
  <2>1. SumTo(a, m) \in Nat
    <3>1. \A i \in 1..m : a[i] \in Nat
      OBVIOUS
    <3> QED
      BY <3>1, SumNat
  <2> QED
    BY <2>1, SumZero
<1>2. ASSUME NEW n \in Nat, n \in P PROVE n + 1 \in P
  <2>1. CASE n + 1 <= k
    <3>1. SumTo(a, m + n) = SumTo(a, m) + SumTo(b, n)
      BY <1>2, <2>1
    <3>2. \A i \in 1..(n + 1) : b[i] \in Nat
      BY <2>1
    <3>3. m + n \in Nat /\ m + n + 1 = m + (n + 1) /\ \A i \in 1..(m + n + 1) : a[i] \in Nat
      BY <2>1
    <3>4. SumTo(a, m + n + 1) = SumTo(a, m + n) + a[m + n + 1]
      BY <3>3, SumNext
    <3>5. SumTo(b, n + 1) = SumTo(b, n) + b[n + 1]
      BY <3>2, SumNext
    <3>6. SumTo(a, m) \in Nat /\ SumTo(b, n) \in Nat
      <4>1. \A i \in 1..m : a[i] \in Nat
        OBVIOUS
      <4>2. \A i \in 1..n : b[i] \in Nat
        BY <3>2
      <4> QED
        BY <4>1, <4>2, SumNat
    <3>7. b[n + 1] = a[m + (n + 1)] /\ b[n + 1] \in Nat
      BY <2>1, <3>2
    <3> QED
      BY <3>1, <3>3, <3>4, <3>5, <3>6, <3>7
  <2> QED
    BY <2>1
<1>3. Nat \subseteq P
  <2> HIDE DEF P
  <2> QED
    BY <1>1, <1>2, AllNat
<1> QED
  BY <1>3

-----------------------------------------------------------------------------
(* Powers of two, as far as doubling is known *)

\* A sum of exponents is a product of powers.
LEMMA PowersMultiply ==
  ASSUME NEW N \in Nat, \A n \in 0..N : 2^n \in Nat \ {0} /\ 2^(n + 1) = 2 * 2^n,
         NEW a \in Nat, NEW b \in Nat, a + b <= N
  PROVE  2^(a + b) = 2^a * 2^b
<1> DEFINE P == {n \in Nat : a + n <= N => 2^(a + n) = 2^a * 2^n}
<1>1. 0 \in P
  <2>1. a \in 0..N /\ a + 0 = a /\ 2^0 = 1
    OBVIOUS
  <2>2. 2^a \in Nat
    BY <2>1
  <2> QED
    BY <2>1, <2>2
<1>2. ASSUME NEW n \in Nat, n \in P PROVE n + 1 \in P
  <2> SUFFICES ASSUME a + (n + 1) <= N
               PROVE  2^(a + (n + 1)) = 2^a * 2^(n + 1)
    BY DEF P
  <2>1. a + n \in 0..N /\ n \in 0..N /\ a \in 0..N /\ a + (n + 1) = (a + n) + 1
    OBVIOUS
  <2>2. 2^(a + n) = 2^a * 2^n
    BY <1>2, <2>1 DEF P
  <2>3. 2^((a + n) + 1) = 2 * 2^(a + n)
    BY <2>1
  <2>4. 2^(n + 1) = 2 * 2^n /\ 2^a \in Nat /\ 2^n \in Nat
    BY <2>1
  <2> DEFINE x == 2^a
             y == 2^n
  <2>5. 2 * (x * y) = x * (2 * y)
    <3> HIDE DEF x, y
    <3> QED BY <2>4 DEF x, y
  <2> QED
    BY <2>1, <2>2, <2>3, <2>4, <2>5
<1> HIDE DEF P
<1>3. Nat \subseteq P
  BY <1>1, <1>2, AllNat
<1>4. b \in P
  BY <1>3
<1> QED
  BY <1>4 DEF P
=============================================================================
