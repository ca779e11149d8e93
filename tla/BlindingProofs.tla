--------------------------- MODULE BlindingProofs ---------------------------
(***************************************************************************)
(* Theorems about Blinding and the program around it (Simulation), for every *)
(* number of buckets, load, degree and field, every secret and key, and      *)
(* every pseudorandom function:                                             *)
(*   - the type invariant,                                                   *)
(*   - no index of the pseudorandom function is used for two numbers,        *)
(*   - the masks cancel, so that t - q is the plain combination,             *)
(*   - every common element but 0 is found, where the padding fits and there *)
(*     are enough points, all different,                                    *)
(*   - the program runs such a session, and its verdict is right.            *)
(***************************************************************************)
EXTENDS Simulation, FiniteSetTheorems, SequenceTheorems, Induction

-----------------------------------------------------------------------------

(* Sorting.                                                                *)

\* What a permutation is.
LEMMA PermutationIs ==
  ASSUME NEW S, NEW p \in Bijection(S, S)
  PROVE  /\ p \in [S -> S]
         /\ \A i, j \in S : p[i] = p[j] => i = j
         /\ \A x \in S : \E i \in S : p[i] = x
BY DEF Bijection, Injection, Surjection, IsInjective

LEMMA IsPermutation ==
  ASSUME NEW S, NEW p \in [S -> S],
         \A i, j \in S : p[i] = p[j] => i = j, \A x \in S : \E i \in S : p[i] = x
  PROVE  p \in Bijection(S, S)
BY DEF Bijection, Injection, Surjection, IsInjective

\* Of bounded numbers there is a greatest.
LEMMA GreatestAt ==
  ASSUME NEW B \in Nat, NEW m \in Nat, m > 0, NEW s \in [1..m -> 0..B]
  PROVE  \E g \in 1..m : \A i \in 1..m : s[i] <= s[g]
<1> DEFINE S == {b \in Nat : \E i \in 1..m : s[i] = B - b}
<1>1. ASSUME NEW i \in 1..m PROVE B - s[i] \in S
  <2>1. s[i] \in 0..B
    OBVIOUS
  <2>2. B - s[i] \in Nat /\ s[i] = B - (B - s[i])
    BY <2>1
  <2> QED BY <2>2
<1>2. S \in SUBSET Nat /\ S # {}
  <2>1. 1 \in 1..m
    OBVIOUS
  <2> QED BY <1>1, <2>1
<1>3. PICK b \in S : \A c \in S : b <= c
  <2> HIDE DEF S
  <2> QED BY <1>2, SmallestNat
<1>4. PICK g \in 1..m : s[g] = B - b
  BY <1>3
<1>5. ASSUME NEW i \in 1..m PROVE s[i] <= s[g]
  <2>1. b <= B - s[i] /\ b \in Nat
    BY <1>1, <1>3
  <2>2. s[i] \in 0..B
    OBVIOUS
  <2> QED BY <1>4, <2>1, <2>2
<1> QED BY <1>5

Ascends(p, s, m) == \A i, j \in 1..m : i < j => s[p[i]] <= s[p[j]]

\* Every sequence of bounded numbers can be sorted: the greatest goes last, and
\* the last takes its place among the others.
LEMMA OrderExists ==
  ASSUME NEW B \in Nat
  PROVE  \A m \in Nat : \A s \in [1..m -> 0..B] :
           \E p \in Bijection(1..m, 1..m) : Ascends(p, s, m)
<1> DEFINE P == {m \in Nat : \A s \in [1..m -> 0..B] :
                   \E p \in Bijection(1..m, 1..m) : Ascends(p, s, m)}
<1>1. 0 \in P
  <2>1. \A i : ~(i \in 1..0)
    OBVIOUS
  <2>2. [i \in 1..0 |-> i] \in Bijection(1..0, 1..0)
    BY <2>1, IsPermutation
  <2>3. ASSUME NEW s PROVE Ascends([i \in 1..0 |-> i], s, 0)
    BY <2>1 DEF Ascends
  <2> QED BY <2>2, <2>3
<1>2. ASSUME NEW m \in Nat, m \in P PROVE m + 1 \in P
  <2>1. ASSUME NEW s \in [1..(m + 1) -> 0..B]
        PROVE  \E p \in Bijection(1..(m + 1), 1..(m + 1)) : Ascends(p, s, m + 1)
    <3>1. PICK g \in 1..(m + 1) : \A i \in 1..(m + 1) : s[i] <= s[g]
      <4>1. m + 1 \in Nat /\ m + 1 > 0
        OBVIOUS
      <4> QED BY <2>1, <4>1, GreatestAt
    <3> DEFINE rest == [i \in 1..m |-> IF i = g THEN s[m + 1] ELSE s[i]]
    <3>2. /\ rest \in [1..m -> 0..B]
          /\ \A i \in 1..m : rest[i] = (IF i = g THEN s[m + 1] ELSE s[i])
      OBVIOUS
    <3> HIDE DEF rest
    <3>3. PICK o \in Bijection(1..m, 1..m) : Ascends(o, rest, m)
      BY <1>2, <3>2
    <3>4. /\ o \in [1..m -> 1..m]
          /\ \A i, j \in 1..m : o[i] = o[j] => i = j
          /\ \A x \in 1..m : \E i \in 1..m : o[i] = x
          /\ \A i \in 1..m : o[i] \in 1..m
      <4>1. o \in [1..m -> 1..m]
        BY <3>3, PermutationIs
      <4>2. \A i \in 1..m : o[i] \in 1..m
        BY <4>1
      <4> QED BY <3>3, <4>1, <4>2, PermutationIs
    <3> DEFINE p == [i \in 1..(m + 1) |->
                       IF i = m + 1 THEN g ELSE IF o[i] = g THEN m + 1 ELSE o[i]]
    <3>5. /\ p[m + 1] = g
          /\ \A i \in 1..m : p[i] = (IF o[i] = g THEN m + 1 ELSE o[i])
          /\ \A i \in 1..m : s[p[i]] = rest[o[i]]
      <4>1. p[m + 1] = g /\ \A i \in 1..m : p[i] = (IF o[i] = g THEN m + 1 ELSE o[i])
        OBVIOUS
      <4> HIDE DEF p
      <4>2. ASSUME NEW i \in 1..m PROVE s[p[i]] = rest[o[i]]
        <5>1. o[i] \in 1..m
          BY <3>4
        <5> QED BY <3>2, <4>1, <5>1
      <4> QED BY <4>1, <4>2
    <3>6. p \in [1..(m + 1) -> 1..(m + 1)]
      <4>1. ASSUME NEW i \in 1..(m + 1)
            PROVE  (IF i = m + 1 THEN g ELSE IF o[i] = g THEN m + 1 ELSE o[i]) \in 1..(m + 1)
        <5>1. CASE i = m + 1
          BY <5>1
        <5>2. CASE i # m + 1
          <6>1. i \in 1..m
            BY <5>2
          <6>2. o[i] \in 1..m
            BY <3>4, <6>1
          <6>3. o[i] \in 1..(m + 1) /\ m + 1 \in 1..(m + 1)
            BY <6>2
          <6> QED BY <5>2, <6>3
        <5> QED BY <5>1, <5>2
      <4> QED BY <4>1
    <3> HIDE DEF p
    <3>7. ASSUME NEW i \in 1..(m + 1), NEW j \in 1..(m + 1), p[i] = p[j] PROVE i = j
      <4>1. CASE i = m + 1 /\ j # m + 1
        <5>1. j \in 1..m
          BY <4>1
        <5>2. o[j] \in 1..m
          BY <3>4, <5>1
        <5> QED BY <3>5, <3>7, <4>1, <5>1, <5>2
      <4>2. CASE i # m + 1 /\ j = m + 1
        <5>1. i \in 1..m
          BY <4>2
        <5>2. o[i] \in 1..m
          BY <3>4, <5>1
        <5> QED BY <3>5, <3>7, <4>2, <5>1, <5>2
      <4>3. CASE i # m + 1 /\ j # m + 1
        <5>1. i \in 1..m /\ j \in 1..m
          BY <4>3
        <5>2. o[i] \in 1..m /\ o[j] \in 1..m
          BY <3>4, <5>1
        <5>3. o[i] = o[j]
          BY <3>5, <3>7, <5>1, <5>2
        <5> QED BY <3>4, <5>1, <5>3
      <4>4. CASE i = m + 1 /\ j = m + 1
        BY <4>4
      <4> QED BY <4>1, <4>2, <4>3, <4>4
    <3>8. ASSUME NEW x \in 1..(m + 1) PROVE \E i \in 1..(m + 1) : p[i] = x
      <4>1. CASE x = g
        <5>1. m + 1 \in 1..(m + 1)
          OBVIOUS
        <5> QED BY <3>5, <4>1, <5>1
      <4>2. CASE x # g /\ x = m + 1
        <5>1. g \in 1..m
          BY <4>2
        <5>2. PICK i \in 1..m : o[i] = g
          BY <3>4, <5>1
        <5>3. i \in 1..(m + 1) /\ p[i] = x
          BY <3>5, <4>2, <5>2
        <5> QED BY <5>3
      <4>3. CASE x # g /\ x # m + 1
        <5>1. x \in 1..m
          BY <4>3
        <5>2. PICK i \in 1..m : o[i] = x
          BY <3>4, <5>1
        <5>3. i \in 1..(m + 1) /\ p[i] = x
          BY <3>5, <4>3, <5>2
        <5> QED BY <5>3
      <4> QED BY <4>1, <4>2, <4>3
    <3>9. ASSUME NEW i \in 1..(m + 1), NEW j \in 1..(m + 1), i < j
          PROVE  s[p[i]] <= s[p[j]]
      <4>1. i \in 1..m
        BY <3>9
      <4>2. CASE j = m + 1
        <5>1. p[i] \in 1..(m + 1)
          BY <3>6
        <5> QED BY <3>1, <3>5, <4>2, <5>1
      <4>3. CASE j # m + 1
        <5>1. j \in 1..m
          BY <4>3
        <5>2. rest[o[i]] <= rest[o[j]]
          BY <3>3, <3>9, <4>1, <5>1 DEF Ascends
        <5> QED BY <3>5, <4>1, <5>1, <5>2
      <4> QED BY <4>2, <4>3
    <3>10. p \in Bijection(1..(m + 1), 1..(m + 1))
      <4>1. \A i, j \in 1..(m + 1) : p[i] = p[j] => i = j
        BY <3>7
      <4>2. \A x \in 1..(m + 1) : \E i \in 1..(m + 1) : p[i] = x
        BY <3>8
      <4> QED BY <3>6, <4>1, <4>2, IsPermutation
    <3>11. Ascends(p, s, m + 1)
      BY <3>9 DEF Ascends
    <3> QED BY <3>10, <3>11
  <2> QED BY <2>1
<1>3. Nat \subseteq P
  <2> HIDE DEF P
  <2> QED BY <1>1, <1>2, AllNat
<1> QED BY <1>3

\* What qsort does.
LEMMA SortedIs ==
  ASSUME NEW B \in Nat, NEW m \in Nat, NEW s \in [1..m -> 0..B]
  PROVE  /\ Sorted(s) \in [1..m -> 0..B]
         /\ \A i, j \in 1..m : i < j => Sorted(s)[i] <= Sorted(s)[j]
         /\ \E p \in Bijection(1..m, 1..m) : \A i \in 1..m : Sorted(s)[i] = s[p[i]]
<1> DEFINE o == CHOOSE p \in Bijection(DOMAIN s, DOMAIN s) :
                  \A i, j \in DOMAIN s : i < j => s[p[i]] <= s[p[j]]
<1>1. DOMAIN s = 1..m
  OBVIOUS
<1>2. o \in Bijection(1..m, 1..m) /\ Ascends(o, s, m)
  <2>1. \E p \in Bijection(1..m, 1..m) : Ascends(p, s, m)
    BY OrderExists
  <2>2. \E p \in Bijection(DOMAIN s, DOMAIN s) :
          \A i, j \in DOMAIN s : i < j => s[p[i]] <= s[p[j]]
    BY <1>1, <2>1 DEF Ascends
  <2>3. /\ o \in Bijection(DOMAIN s, DOMAIN s)
        /\ \A i, j \in DOMAIN s : i < j => s[o[i]] <= s[o[j]]
    BY <2>2, Zenon
  <2> HIDE DEF o
  <2> QED BY <1>1, <2>3 DEF Ascends
<1>3. Sorted(s) = [i \in DOMAIN s |-> s[o[i]]]
  BY Zenon DEF Sorted
<1> HIDE DEF o
<1>4. o \in [1..m -> 1..m]
  BY <1>2, PermutationIs
<1>5. Sorted(s) = [i \in 1..m |-> s[o[i]]]
  BY <1>1, <1>3
<1>6. \A i \in 1..m : Sorted(s)[i] = s[o[i]] /\ o[i] \in 1..m
  BY <1>4, <1>5
<1>7. Sorted(s) \in [1..m -> 0..B]
  BY <1>4, <1>5
<1>8. \A i, j \in 1..m : i < j => Sorted(s)[i] <= Sorted(s)[j]
  BY <1>2, <1>6 DEF Ascends
<1> QED BY <1>2, <1>6, <1>7, <1>8

-----------------------------------------------------------------------------

(* The elements that are repeated.                                          *)

\* What is taken of u with its k-th element, after v.
Again(u, v, k) ==
  /\ k > 1 /\ u[k] = u[k - 1]
  /\ \/ v = <<>>
     \/ u[k] # v[Len(v)]

IsTaken(g, u, m) ==
  g = [k \in 0..m |-> IF k = 0 THEN <<>>
                      ELSE IF Again(u, g[k - 1], k) THEN Append(g[k - 1], u[k])
                      ELSE g[k - 1]]

\* The function the repeated elements are defined with.
LEMMA TakenExists ==
  ASSUME NEW m \in Nat, NEW u \in [1..m -> Nat]
  PROVE  \E g : IsTaken(g, u, m)
<1> DEFINE step == [k \in Nat |-> [v \in Seq(Nat) |->
                      IF k \in 1..m /\ Again(u, v, k) THEN Append(v, u[k]) ELSE v]]
<1>1. step \in [Nat -> [Seq(Nat) -> Seq(Nat)]]
  <2>1. ASSUME NEW k \in Nat, NEW v \in Seq(Nat)
        PROVE  (IF k \in 1..m /\ Again(u, v, k) THEN Append(v, u[k]) ELSE v) \in Seq(Nat)
    <3>1. k \in 1..m => u[k] \in Nat
      OBVIOUS
    <3>2. k \in 1..m => Append(v, u[k]) \in Seq(Nat)
      BY <3>1
    <3> QED BY <3>2
  <2> QED BY <2>1
<1>2. \A k \in 1..m, v \in Seq(Nat) :
        step[k][v] = IF Again(u, v, k) THEN Append(v, u[k]) ELSE v
  OBVIOUS
<1> HIDE DEF step
<1>3. <<>> \in Seq(Nat)
  OBVIOUS
<1>4. HasRecursive(Seq(Nat), <<>>, step)
  BY <1>1, <1>3, RecursiveExists, Zenon
<1>5. PICK f : Recursive(f, Seq(Nat), <<>>, step)
  BY <1>4 DEF HasRecursive
<1>6. f \in [Nat -> Seq(Nat)] /\ f[0] = <<>> /\ \A k \in Nat : f[k + 1] = step[k + 1][f[k]]
  BY <1>5 DEF Recursive
<1> DEFINE g == [k \in 0..m |-> f[k]]
<1>7. ASSUME NEW k \in 0..m
      PROVE  g[k] = IF k = 0 THEN <<>>
                    ELSE IF Again(u, g[k - 1], k) THEN Append(g[k - 1], u[k])
                    ELSE g[k - 1]
  <2>1. CASE k = 0
    BY <1>6, <2>1
  <2>2. CASE k # 0
    <3>1. k - 1 \in Nat /\ k - 1 \in 0..m /\ (k - 1) + 1 = k /\ k \in 1..m
      BY <2>2
    <3>2. g[k] = f[k] /\ g[k - 1] = f[k - 1]
      BY <3>1
    <3>3. f[k - 1] \in Seq(Nat) /\ f[k] = step[k][f[k - 1]]
      BY <1>6, <3>1
    <3> HIDE DEF g
    <3>4. f[k] = IF Again(u, f[k - 1], k) THEN Append(f[k - 1], u[k]) ELSE f[k - 1]
      BY <1>2, <3>1, <3>3
    <3> QED BY <2>2, <3>2, <3>4
  <2> QED BY <2>1, <2>2
<1>8. IsTaken(g, u, m)
  BY <1>7 DEF IsTaken
<1> QED BY <1>8

\* The elements taken of the first k are those that equal the one before, in
\* ascending order and each once.
TakenOf(v, u, k) ==
  /\ v \in Seq(Nat)
  /\ \A i \in 1..Len(v) : \E j \in 2..k : u[j] = u[j - 1] /\ v[i] = u[j]
  /\ \A j \in 2..k : u[j] = u[j - 1] => \E i \in 1..Len(v) : v[i] = u[j]
  /\ \A i, j \in 1..Len(v) : i < j => v[i] < v[j]

LEMMA TakenNext ==
  ASSUME NEW m \in Nat, NEW u \in [1..m -> Nat],
         \A i, j \in 1..m : i < j => u[i] <= u[j],
         NEW k \in 1..m, NEW v, TakenOf(v, u, k - 1)
  PROVE  TakenOf(IF Again(u, v, k) THEN Append(v, u[k]) ELSE v, u, k)
<1> DEFINE l == Len(v)
<1>1. /\ v \in Seq(Nat) /\ l \in Nat /\ u[k] \in Nat
      /\ \A i \in 1..l : v[i] \in Nat
  BY DEF TakenOf
<1>2. /\ \A i \in 1..l : \E j \in 2..(k - 1) : u[j] = u[j - 1] /\ v[i] = u[j]
      /\ \A j \in 2..(k - 1) : u[j] = u[j - 1] => \E i \in 1..l : v[i] = u[j]
      /\ \A i, j \in 1..l : i < j => v[i] < v[j]
  BY DEF TakenOf
<1>3. \A j \in 2..(k - 1) : j \in 2..k
  OBVIOUS
<1>4. ASSUME NEW i \in 1..l PROVE v[i] <= u[k]
  <2>1. PICK j \in 2..(k - 1) : v[i] = u[j]
    BY <1>2
  <2>2. j \in 1..m /\ j < k
    OBVIOUS
  <2> QED BY <2>1, <2>2
<1>5. v = <<>> <=> l = 0
  BY <1>1
<1>6. CASE Again(u, v, k)
  <2> DEFINE w == Append(v, u[k])
  <2>1. /\ w \in Seq(Nat) /\ Len(w) = l + 1
        /\ \A i \in 1..l : w[i] = v[i]
        /\ w[l + 1] = u[k]
    BY <1>1
  <2> HIDE DEF w
  <2>2. k \in 2..k /\ u[k] = u[k - 1]
    BY <1>6 DEF Again
  <2>3. ASSUME NEW i \in 1..Len(w)
        PROVE  \E j \in 2..k : u[j] = u[j - 1] /\ w[i] = u[j]
    <3>1. CASE i = l + 1
      BY <2>1, <2>2, <3>1
    <3>2. CASE i # l + 1
      <4>1. i \in 1..l
        BY <1>1, <2>1, <3>2
      <4> QED BY <1>2, <1>3, <2>1, <4>1
    <3> QED BY <3>1, <3>2
  <2>4. ASSUME NEW j \in 2..k, u[j] = u[j - 1]
        PROVE  \E i \in 1..Len(w) : w[i] = u[j]
    <3>1. CASE j = k
      <4>1. l + 1 \in 1..Len(w)
        BY <1>1, <2>1
      <4> QED BY <2>1, <3>1, <4>1
    <3>2. CASE j # k
      <4>1. j \in 2..(k - 1)
        BY <3>2
      <4>2. PICK i \in 1..l : v[i] = u[j]
        BY <1>2, <2>4, <4>1
      <4>3. i \in 1..Len(w)
        BY <1>1, <2>1
      <4> QED BY <2>1, <4>2, <4>3
    <3> QED BY <3>1, <3>2
  <2>5. ASSUME NEW i \in 1..l PROVE v[i] < u[k]
    <3>1. l \in 1..l /\ u[k] # v[l] /\ v[l] <= u[k]
      <4>1. l \in 1..l /\ l # 0
        BY <1>1
      <4> QED BY <1>4, <1>5, <1>6, <4>1 DEF Again
    <3>2. CASE i = l
      BY <1>1, <3>1, <3>2
    <3>3. CASE i # l
      <4>1. v[i] < v[l]
        BY <1>1, <1>2, <3>1, <3>3
      <4> QED BY <1>1, <3>1, <4>1
    <3> QED BY <3>2, <3>3
  <2>6. ASSUME NEW i \in 1..Len(w), NEW j \in 1..Len(w), i < j PROVE w[i] < w[j]
    <3>1. i \in 1..l
      BY <1>1, <2>1, <2>6
    <3>2. CASE j = l + 1
      BY <2>1, <2>5, <3>1, <3>2
    <3>3. CASE j # l + 1
      <4>1. j \in 1..l
        BY <1>1, <2>1, <3>3
      <4> QED BY <1>2, <2>1, <2>6, <3>1, <4>1
    <3> QED BY <3>2, <3>3
  <2>7. TakenOf(w, u, k)
    BY <2>1, <2>3, <2>4, <2>6 DEF TakenOf
  <2> QED BY <1>6, <2>7 DEF w
<1>7. CASE ~Again(u, v, k)
  <2>1. ASSUME NEW i \in 1..l
        PROVE  \E j \in 2..k : u[j] = u[j - 1] /\ v[i] = u[j]
    BY <1>2, <1>3
  <2>2. ASSUME NEW j \in 2..k, u[j] = u[j - 1]
        PROVE  \E i \in 1..l : v[i] = u[j]
    <3>1. CASE j = k
      <4>1. l # 0 /\ u[k] = v[l]
        BY <1>5, <1>7, <2>2, <3>1 DEF Again
      <4>2. l \in 1..l
        BY <1>1, <4>1
      <4> QED BY <3>1, <4>1, <4>2
    <3>2. CASE j # k
      <4>1. j \in 2..(k - 1)
        BY <3>2
      <4> QED BY <1>2, <2>2, <4>1
    <3> QED BY <3>1, <3>2
  <2> QED BY <1>1, <1>2, <1>7, <2>1, <2>2 DEF TakenOf
<1> QED BY <1>6, <1>7

\* What intersect() takes of sorted numbers.
LEMMA RepeatedIs ==
  ASSUME NEW m \in Nat, NEW u \in [1..m -> Nat],
         \A i, j \in 1..m : i < j => u[i] <= u[j]
  PROVE  TakenOf(Repeated(u), u, m)
<1> DEFINE g == CHOOSE h : IsTaken(h, u, m)
<1>1. Repeated(u) = g[m]
  <2>1. Len(u) = m
    OBVIOUS
  <2> DEFINE h == CHOOSE f : IsTaken(f, u, Len(u))
  <2>2. Repeated(u) = h[Len(u)]
    BY Zenon DEF Repeated, IsTaken, Again
  <2> QED BY <2>1, <2>2
<1>2. IsTaken(g, u, m)
  <2>1. \E h : IsTaken(h, u, m)
    BY TakenExists
  <2> QED BY <2>1, Zenon
<1> HIDE DEF g
<1>3. /\ g[0] = <<>>
      /\ \A k \in 1..m : g[k] = IF Again(u, g[k - 1], k) THEN Append(g[k - 1], u[k])
                                ELSE g[k - 1]
  <2>1. \A k \in 0..m : g[k] = IF k = 0 THEN <<>>
                              ELSE IF Again(u, g[k - 1], k) THEN Append(g[k - 1], u[k])
                              ELSE g[k - 1]
    BY <1>2, Zenon DEF IsTaken
  <2>2. 0 \in 0..m /\ \A k \in 1..m : k \in 0..m /\ k # 0
    OBVIOUS
  <2> HIDE DEF Again
  <2> QED BY <2>1, <2>2
<1> DEFINE P == {k \in Nat : k <= m => TakenOf(g[k], u, k)}
<1>4. 0 \in P
  <2>1. TakenOf(<<>>, u, 0)
    BY DEF TakenOf
  <2> QED BY <1>3, <2>1
<1>5. ASSUME NEW k \in Nat, k \in P PROVE k + 1 \in P
  <2>1. CASE k + 1 <= m
    <3>1. k + 1 \in 1..m /\ (k + 1) - 1 = k
      BY <2>1
    <3>2. TakenOf(g[k], u, (k + 1) - 1)
      BY <1>5, <2>1, <3>1
    <3>3. TakenOf(IF Again(u, g[k], k + 1) THEN Append(g[k], u[k + 1]) ELSE g[k], u, k + 1)
      BY <3>1, <3>2, TakenNext
    <3>4. g[k + 1] = IF Again(u, g[k], k + 1) THEN Append(g[k], u[k + 1]) ELSE g[k]
      BY <1>3, <3>1
    <3> QED BY <3>3, <3>4
  <2>2. CASE ~(k + 1 <= m)
    BY <2>2
  <2> QED BY <2>1, <2>2
<1>6. Nat \subseteq P
  <2> HIDE DEF P
  <2> QED BY <1>4, <1>5, AllNat
<1> QED BY <1>1, <1>6

-----------------------------------------------------------------------------

(* The intersection in the clear.                                           *)

\* Where an element is in both sequences it comes twice in both together, and
\* an element that is twice in one is in the other too: equal neighbours, once
\* all is sorted, are the common elements.
Shared(set1, set2, m) ==
  \A i, j \in 1..m : i # j /\ set1[i] = set1[j] => \E k \in 1..m : set2[k] = set1[i]

LEMMA NeighboursAreCommon ==
  ASSUME NEW B \in Nat, NEW m \in Nat,
         NEW set1 \in [1..m -> 0..B], NEW set2 \in [1..m -> 0..B],
         Shared(set1, set2, m), Shared(set2, set1, m)
  PROVE  LET u == Sorted(Join(set1, set2))
         IN  /\ u \in [1..(m + m) -> 0..B]
             /\ \A i, j \in 1..(m + m) : i < j => u[i] <= u[j]
             /\ \A k \in 2..(m + m) : u[k] = u[k - 1] =>
                  u[k] \in Range(set1) /\ u[k] \in Range(set2)
             /\ \A i \in 1..m, j \in 1..m : set1[i] = set2[j] =>
                  \E k \in 2..(m + m) : u[k] = u[k - 1] /\ u[k] = set1[i]
<1> DEFINE s == Join(set1, set2)
           u == Sorted(s)
<1>1. /\ set1 \in Seq(0..B) /\ Len(set1) = m
      /\ set2 \in Seq(0..B) /\ Len(set2) = m
  OBVIOUS
<1>2. s = [i \in 1..(m + m) |-> IF i <= m THEN set1[i] ELSE set2[i - m]]
  <2>1. s \in Seq(0..B) /\ Len(s) = m + m
    BY <1>1, ConcatProperties DEF Join
  <2>2. \A i \in 1..(m + m) : s[i] = IF i <= m THEN set1[i] ELSE set2[i - m]
    <3>1. \A i \in 1..(Len(set1) + Len(set2)) :
            (set1 \o set2)[i] = IF i <= Len(set1) THEN set1[i] ELSE set2[i - Len(set1)]
      BY <1>1, ConcatProperties
    <3> QED BY <1>1, <3>1, Zenon DEF Join
  <2> HIDE DEF s
  <2>3. s = [i \in 1..(m + m) |-> s[i]]
    BY <2>1
  <2> QED BY <2>2, <2>3
<1>3. /\ \A i \in 1..m : i \in 1..(m + m) /\ s[i] = set1[i]
      /\ \A i \in 1..m : i + m \in 1..(m + m) /\ s[i + m] = set2[i]
  <2>1. ASSUME NEW i \in 1..m PROVE i \in 1..(m + m) /\ s[i] = set1[i]
    BY <1>2
  <2>2. ASSUME NEW i \in 1..m PROVE i + m \in 1..(m + m) /\ s[i + m] = set2[i]
    <3>1. i + m \in 1..(m + m) /\ ~(i + m <= m) /\ (i + m) - m = i
      OBVIOUS
    <3> HIDE DEF s
    <3> QED BY <1>2, <3>1
  <2> QED BY <2>1, <2>2
<1> HIDE DEF s
<1>4. s \in [1..(m + m) -> 0..B]
  <2>1. ASSUME NEW i \in 1..(m + m)
        PROVE  (IF i <= m THEN set1[i] ELSE set2[i - m]) \in 0..B
    <3>1. CASE i <= m
      <4>1. i \in 1..m
        BY <3>1
      <4> QED BY <3>1, <4>1
    <3>2. CASE ~(i <= m)
      <4>1. i - m \in 1..m
        BY <3>2
      <4> QED BY <3>2, <4>1
    <3> QED BY <3>1, <3>2
  <2> QED BY <1>2, <2>1
<1>5. \A i \in 1..(m + m) : i \in 1..m \/ \E l \in 1..m : i = l + m
  <2> SUFFICES ASSUME NEW i \in 1..(m + m), ~(i \in 1..m) PROVE \E l \in 1..m : i = l + m
    OBVIOUS
  <2>1. i - m \in 1..m /\ i = (i - m) + m
    OBVIOUS
  <2> QED BY <2>1
<1>6. /\ u \in [1..(m + m) -> 0..B]
      /\ \A i, j \in 1..(m + m) : i < j => u[i] <= u[j]
      /\ \E p \in Bijection(1..(m + m), 1..(m + m)) : \A i \in 1..(m + m) : u[i] = s[p[i]]
  <2>1. m + m \in Nat
    OBVIOUS
  <2> QED BY <1>4, <2>1, SortedIs
<1> HIDE DEF u
<1>7. PICK p \in Bijection(1..(m + m), 1..(m + m)) : \A i \in 1..(m + m) : u[i] = s[p[i]]
  BY <1>6
<1>8. p \in [1..(m + m) -> 1..(m + m)]
  BY <1>7, PermutationIs
<1>9. /\ \A i, j \in 1..(m + m) : p[i] = p[j] => i = j
      /\ \A x \in 1..(m + m) : \E i \in 1..(m + m) : p[i] = x
      /\ \A i \in 1..(m + m) : p[i] \in 1..(m + m)
  <2>1. \A i \in 1..(m + m) : p[i] \in 1..(m + m)
    BY <1>8
  <2> DEFINE S == 1..(m + m)
  <2>2. p \in Bijection(S, S)
    BY <1>7
  <2> HIDE DEF S
  <2>3. (\A i, j \in S : p[i] = p[j] => i = j) /\ \A x \in S : \E i \in S : p[i] = x
    BY <2>2, PermutationIs
  <2> QED BY <2>1, <2>3 DEF S
<1>10. \A i \in 1..m : set1[i] \in Range(set1) /\ set2[i] \in Range(set2)
  BY DEF Range
<1>11. ASSUME NEW x \in 1..(m + m), NEW y \in 1..(m + m), x # y, s[x] = s[y]
       PROVE  s[x] \in Range(set1) /\ s[x] \in Range(set2)
  <2>1. CASE x \in 1..m /\ y \in 1..m
    BY <1>3, <1>10, <1>11, <2>1 DEF Shared
  <2>2. CASE x \in 1..m /\ \E l \in 1..m : y = l + m
    BY <1>3, <1>10, <1>11, <2>2
  <2>3. CASE y \in 1..m /\ \E l \in 1..m : x = l + m
    BY <1>3, <1>10, <1>11, <2>3
  <2>4. CASE (\E l \in 1..m : x = l + m) /\ \E l \in 1..m : y = l + m
    <3>1. PICK i \in 1..m : x = i + m
      BY <2>4
    <3>2. PICK j \in 1..m : y = j + m
      BY <2>4
    <3>3. i # j /\ s[x] = set2[i] /\ s[y] = set2[j]
      BY <1>3, <1>11, <3>1, <3>2
    <3> QED BY <1>10, <1>11, <3>3 DEF Shared
  <2> QED BY <1>5, <2>1, <2>2, <2>3, <2>4
<1>12. ASSUME NEW k \in 2..(m + m), u[k] = u[k - 1]
       PROVE  u[k] \in Range(set1) /\ u[k] \in Range(set2)
  <2>1. k \in 1..(m + m) /\ k - 1 \in 1..(m + m) /\ k # k - 1
    OBVIOUS
  <2>2. p[k] # p[k - 1] /\ s[p[k]] = s[p[k - 1]] /\ u[k] = s[p[k]]
    BY <1>7, <1>9, <1>12, <2>1
  <2>3. p[k] \in 1..(m + m) /\ p[k - 1] \in 1..(m + m)
    BY <1>9, <2>1
  <2> QED BY <1>11, <2>2, <2>3
<1>13. ASSUME NEW i \in 1..(m + m), NEW j \in 1..(m + m), i < j, u[i] = u[j]
       PROVE  \E k \in 2..(m + m) : u[k] = u[k - 1] /\ u[k] = u[i]
  <2>1. j \in 2..(m + m) /\ j - 1 \in 1..(m + m) /\ j - 1 < j /\ (i = j - 1 \/ i < j - 1)
    BY <1>13
  <2>2. u[i] <= u[j - 1] /\ u[j - 1] <= u[j]
    <3>1. u[i] \in Nat
      BY <1>6
    <3>2. u[i] <= u[i]
      BY <3>1
    <3> QED BY <1>6, <2>1, <3>2
  <2>3. u[i] \in Nat /\ u[j - 1] \in Nat /\ u[j] \in Nat
    BY <1>6, <2>1
  <2>4. u[j] = u[j - 1] /\ u[j] = u[i]
    BY <1>13, <2>2, <2>3
  <2> QED BY <2>1, <2>4
<1>14. ASSUME NEW i \in 1..m, NEW j \in 1..m, set1[i] = set2[j]
       PROVE  \E k \in 2..(m + m) : u[k] = u[k - 1] /\ u[k] = set1[i]
  <2>1. /\ i \in 1..(m + m) /\ j + m \in 1..(m + m) /\ i # j + m
        /\ s[i] = set1[i] /\ s[j + m] = set1[i]
    BY <1>3, <1>14
  <2>2. PICK x \in 1..(m + m) : p[x] = i
    BY <1>9, <2>1
  <2>3. PICK y \in 1..(m + m) : p[y] = j + m
    BY <1>9, <2>1
  <2>4. u[x] = set1[i] /\ u[y] = set1[i] /\ x # y
    BY <1>7, <2>1, <2>2, <2>3
  <2>5. x < y \/ y < x
    BY <2>4
  <2> QED BY <1>13, <2>4, <2>5
<1> QED BY <1>6, <1>12, <1>14 DEF u, s

\* v has every common element, and each once.
IsCommon(v, set1, set2) ==
  /\ Range(v) = Range(set1) \cap Range(set2)
  /\ Cardinality(Range(set1) \cap Range(set2)) = Len(v)

\* What the program computes in the clear.
LEMMA PlainIs ==
  ASSUME NEW B \in Nat, NEW m \in Nat,
         NEW set1 \in [1..m -> 0..B], NEW set2 \in [1..m -> 0..B],
         Shared(set1, set2, m), Shared(set2, set1, m)
  PROVE  IsCommon(PlainIntersection(set1, set2), set1, set2)
<1> DEFINE u == Sorted(Join(set1, set2))
           v == PlainIntersection(set1, set2)
           common == Range(set1) \cap Range(set2)
<1>1. /\ u \in [1..(m + m) -> 0..B]
      /\ \A i, j \in 1..(m + m) : i < j => u[i] <= u[j]
      /\ \A k \in 2..(m + m) : u[k] = u[k - 1] =>
           u[k] \in Range(set1) /\ u[k] \in Range(set2)
      /\ \A i \in 1..m, j \in 1..m : set1[i] = set2[j] =>
           \E k \in 2..(m + m) : u[k] = u[k - 1] /\ u[k] = set1[i]
  BY NeighboursAreCommon
<1>2. v = Repeated(u)
  BY DEF PlainIntersection
<1> HIDE DEF u
<1>3. u \in [1..(m + m) -> Nat] /\ m + m \in Nat
  BY <1>1
<1>4. TakenOf(v, u, m + m)
  BY <1>1, <1>2, <1>3, RepeatedIs
<1> HIDE DEF v
<1>5. /\ v \in Seq(Nat)
      /\ \A i \in 1..Len(v) : \E j \in 2..(m + m) : u[j] = u[j - 1] /\ v[i] = u[j]
      /\ \A j \in 2..(m + m) : u[j] = u[j - 1] => \E i \in 1..Len(v) : v[i] = u[j]
      /\ \A i, j \in 1..Len(v) : i < j => v[i] < v[j]
  BY <1>4 DEF TakenOf
<1>6. Len(v) \in Nat /\ DOMAIN v = 1..Len(v) /\ \A i \in 1..Len(v) : v[i] \in Nat
  <2>1. Len(v) \in Nat /\ DOMAIN v = 1..Len(v)
    BY <1>5
  <2>2. \A i \in 1..Len(v) : v[i] \in Nat
    BY <1>5, ElementOfSeq
  <2> QED BY <2>1, <2>2
<1>7. ASSUME NEW e \in Range(v) PROVE e \in common
  <2>1. PICK i \in 1..Len(v) : v[i] = e
    BY <1>6 DEF Range
  <2> QED BY <1>1, <1>5, <2>1
<1>8. ASSUME NEW e \in common PROVE e \in Range(v)
  <2>1. PICK i \in 1..m : set1[i] = e
    BY DEF Range
  <2>2. PICK j \in 1..m : set2[j] = e
    BY DEF Range
  <2>3. PICK k \in 2..(m + m) : u[k] = u[k - 1] /\ u[k] = e
    BY <1>1, <2>1, <2>2
  <2>4. PICK l \in 1..Len(v) : v[l] = e
    BY <1>5, <2>3
  <2> QED BY <1>6, <2>4 DEF Range
<1>9. Range(v) = common
  BY <1>7, <1>8
<1>10. ASSUME NEW i \in 1..Len(v), NEW j \in 1..Len(v), v[i] = v[j] PROVE i = j
  <2>1. v[i] \in Nat /\ v[j] \in Nat /\ ~(v[i] < v[j]) /\ ~(v[j] < v[i])
    BY <1>6, <1>10
  <2>2. ~(i < j) /\ ~(j < i)
    BY <1>5, <2>1
  <2> QED BY <2>2
<1> HIDE DEF common
<1>11. v \in Bijection(1..Len(v), common)
  <2>1. v \in [1..Len(v) -> common]
    <3>1. v = [i \in 1..Len(v) |-> v[i]]
      BY <1>5
    <3>2. \A i \in 1..Len(v) : v[i] \in common
      BY <1>6, <1>7 DEF Range
    <3> QED BY <3>1, <3>2
  <2>2. IsInjective(v)
    BY <1>6, <1>10 DEF IsInjective
  <2>3. \A e \in common : \E i \in 1..Len(v) : v[i] = e
    BY <1>6, <1>9 DEF Range
  <2> QED BY <2>1, <2>2, <2>3 DEF Bijection, Injection, Surjection
<1>12. Cardinality(common) = Len(v)
  <2>1. ExistsBijection(1..Len(v), common)
    BY <1>11 DEF ExistsBijection
  <2> QED BY <1>6, <2>1, FS_CountingElements
<1> QED BY <1>9, <1>12 DEF v, common, IsCommon

-----------------------------------------------------------------------------

(* Sessions.                                                                *)

USE SizeAssumption, PartyAssumption, KeyAssumption

-----------------------------------------------------------------------------

(* Arithmetic of the indices.                                              *)

\* A smaller number of rows of the same length has no more cells.
LEMMA ProductMonotone ==
  ASSUME NEW a \in Nat, NEW b \in Nat, NEW c \in Nat, a <= b
  PROVE  a * c <= b * c
<1>1. PICK d \in Nat : b = a + d
  <2>1. b - a \in Nat /\ b = a + (b - a)
    OBVIOUS
  <2>2. QED
    BY <2>1
<1>2. b * c = a * c + d * c
  BY <1>1
<1>3. d * c >= 0 /\ a * c \in Nat /\ d * c \in Nat
  OBVIOUS
<1>4. QED
  BY <1>2, <1>3

\* The products that occur are naturals.
LEMMA ProductNat ==
  ASSUME NEW a \in Nat, NEW b \in Nat
  PROVE  a * b \in Nat
OBVIOUS

\* The cells of a row come before the cells of the next.
LEMMA Below ==
  ASSUME NEW n \in Nat, NEW w \in Nat, NEW r \in 0..(n - 1), NEW c \in 0..(w - 1)
  PROVE  /\ r * w + c \in Nat
         /\ r * w + c < n * w
<1>1. r + 1 \in Nat /\ r \in Nat /\ r + 1 <= n
  OBVIOUS
<1>2. (r + 1) * w <= n * w
  BY <1>1, ProductMonotone
<1>3. (r + 1) * w = r * w + w /\ r * w \in Nat /\ n * w \in Nat
  BY <1>1
<1>4. QED
  BY <1>1, <1>2, <1>3

\* Two cells with the same number are the same cell.
LEMMA OneCell ==
  ASSUME NEW n \in Nat, NEW w \in Nat,
         NEW r \in 0..(n - 1), NEW c \in 0..(w - 1),
         NEW s \in 0..(n - 1), NEW d \in 0..(w - 1),
         r * w + c = s * w + d
  PROVE  r = s /\ c = d
<1>1. ASSUME NEW x \in 0..(n - 1), NEW y \in 0..(n - 1), x < y,
             NEW k \in 0..(w - 1), NEW l \in 0..(w - 1)
      PROVE  x * w + k < y * w + l
  <2>1. x + 1 \in Nat /\ y \in Nat /\ x \in Nat /\ x + 1 <= y
    BY <1>1
  <2>2. (x + 1) * w <= y * w
    BY <2>1, ProductMonotone
  <2>3. (x + 1) * w = x * w + w /\ x * w \in Nat /\ y * w \in Nat
    BY <2>1
  <2>4. QED
    BY <2>2, <2>3
<1>2. r * w \in Nat /\ s * w \in Nat
  OBVIOUS
<1>3. ~(r < s) /\ ~(s < r)
  <2>1. ASSUME r < s PROVE FALSE
    <3>1. r * w + c < s * w + d
      BY <1>1, <2>1
    <3>2. QED
      BY <3>1, <1>2
  <2>2. ASSUME s < r PROVE FALSE
    <3>1. s * w + d < r * w + c
      BY <1>1, <2>2
    <3>2. QED
      BY <3>1, <1>2
  <2>3. QED
    BY <2>1, <2>2
<1>4. r = s
  BY <1>3
<1>5. QED
  BY <1>2, <1>4

-----------------------------------------------------------------------------

(* Types.                                                                  *)

\* The numbers drawn are elements of the field.
LEMMA DrawType ==
  ASSUME NEW s \in Seeds, NEW k \in 0..(3 * (Length * Degree))
  PROVE  Draw(s, k) \in F
BY PrfAssumption DEF Draw, F

\* The evaluation points.
LEMMA UnknownsType ==
  /\ Unknowns(Degree) \in [Cols -> F]
  /\ DOMAIN Unknowns(Degree) # {}
<1>1. UnknownSeed \in Seeds
  BY DEF Seeds
<1>2. Length * Degree \in Nat /\ Length * Degree >= Degree
  <2>1. 1 * Degree <= Length * Degree
    BY ProductMonotone
  <2>2. QED
    BY <2>1, ProductNat
<1>3. \A k \in 0..(Degree - 1) : Draw(UnknownSeed, k) \in F
  BY <1>1, <1>2, DrawType
<1>4. Unknowns(Degree) \in [0..(Degree - 1) -> F]
  BY <1>3 DEF Unknowns
<1>5. 0 \in 0..(Degree - 1)
  OBVIOUS
<1>6. QED
  BY <1>4, <1>5 DEF Cols

\* The masks of a client.
LEMMA MasksType ==
  ASSUME NEW c \in Clients
  PROVE  /\ Masks(Secret[c]) \in Matrix
         /\ \A r \in Rows, k \in Cols : Mask(Secret[c], r, k) \in F
<1>1. Secret[c] % Modulus \in Seeds
  BY DEF Seeds
<1>2. ASSUME NEW r \in Rows, NEW k \in Cols
      PROVE  Mask(Secret[c], r, k) \in F
  <2>1. r * Degree + k \in Nat /\ r * Degree + k < Length * Degree
    BY Below DEF Rows, Cols
  <2>2. r * Degree + k \in 0..(3 * (Length * Degree))
    BY <2>1, ProductNat
  <2>3. QED
    BY <1>1, <2>2, DrawType DEF Mask
<1>3. QED
  BY <1>2 DEF Masks, Matrix

\* An omega, of either matrix.
LEMMA OmegaType ==
  ASSUME NEW key \in Keys, NEW r \in Rows
  PROVE  /\ Omega(key, OmegaAIdx + Height * r) \in [0..Height -> F]
         /\ Omega(key, OmegaBIdx + Height * r) \in [0..Height -> F]
<1>1. key \in Seeds
  BY DEF Seeds
<1>2. 1 % Modulus \in F
  BY DEF F
<1>3. ASSUME NEW k \in 0..(Height - 1)
      PROVE  /\ OmegaAIdx + Height * r + k \in 0..(3 * (Length * Degree))
             /\ OmegaBIdx + Height * r + k \in 0..(3 * (Length * Degree))
  <2>1. r * Height + k \in Nat /\ r * Height + k < Length * Height
    BY Below DEF Rows
  <2>2. Height * Length <= Degree * Length
    BY DegreeAssumption, ProductMonotone
  <2>3. /\ Height * r = r * Height /\ Height * Length = Length * Height
        /\ Degree * Length = Length * Degree
        /\ Length * Degree \in Nat /\ Length * Height \in Nat /\ Height * r \in Nat
    BY DEF Rows
  <2>4. QED
    BY <2>1, <2>2, <2>3 DEF OmegaAIdx, OmegaBIdx
<1>4. \A k \in 0..Height : k # Height => k \in 0..(Height - 1)
  OBVIOUS
<1>5. \A k \in 0..Height : k # Height =>
        /\ Draw(key, OmegaAIdx + Height * r + k) \in F
        /\ Draw(key, OmegaBIdx + Height * r + k) \in F
  BY <1>1, <1>3, <1>4, DrawType
<1>6. QED
  BY <1>2, <1>5 DEF Omega
-----------------------------------------------------------------------------

(* The inductive invariant.                                                *)

USE DEF InSession, Computing

\* Matrices are no absent matrices, and a table is no absent table.
LEMMA NoMatrixApart ==
  /\ NoMatrix \notin Matrix
  /\ NoMatrix \notin [Rows -> [1..Height -> F]]
<1>1. 0 \in Rows /\ DOMAIN NoMatrix = {}
  BY DEF Rows, NoMatrix
<1>2. QED
  BY <1>1 DEF Matrix

\* getUnknowns() with a degree gives the same points to every party.
LEMMA GetUnknownsSame ==
  ASSUME PointsAgree, NEW p \in Parties
  PROVE  GetUnknowns(p, Degree) = Unknowns(Degree)
<1>1. CASE unknowns[p] = <<>>
  BY <1>1 DEF GetUnknowns
<1>2. CASE unknowns[p] = Unknowns(Degree)
  BY <1>2, UnknownsType DEF GetUnknowns
<1>3. QED
  BY <1>1, <1>2 DEF PointsAgree

\* A matrix of evaluations, blinded.
LEMMA EvaluationsType ==
  ASSUME NEW tab \in [Rows -> [1..Height -> F]], NEW c \in Clients
  PROVE  /\ Evaluations(tab, Unknowns(Degree), Secret[c]) \in Matrix
         /\ \A r \in Rows, k \in Cols :
              Evaluations(tab, Unknowns(Degree), Secret[c])[r][k] =
                Plus(EvalRoots(tab[r], Unknowns(Degree)[k]), Mask(Secret[c], r, k))
<1>1. \A r \in Rows, k \in Cols :
        /\ EvalRoots(tab[r], Unknowns(Degree)[k]) \in F
        /\ Mask(Secret[c], r, k) \in F
  BY UnknownsType, MasksType, EvalAssumption
<1>2. QED
  BY <1>1, RingAssumption DEF Evaluations, Matrix

\* The value a cell of a computation gets.
LEMMA CellOfType ==
  ASSUME NEW a \in Matrix, NEW b \in Matrix, NEW r \in Rows, NEW c \in Cols,
         session.key \in Keys
  PROVE  CellOf(a, b, r, c) \in F
<1> DEFINE u == Unknowns(Degree)[c]
           x == Eval(Omega(session.key, OmegaAIdx + Height * r), u)
           y == Eval(Omega(session.key, OmegaBIdx + Height * r), u)
           m == Draw(session.key, r * Degree + c)
<1>1. u \in F
  BY UnknownsType
<1>2. x \in F /\ y \in F
  BY <1>1, OmegaType, EvalAssumption
<1>3. m \in F
  <2>1. r * Degree + c \in Nat /\ r * Degree + c < Length * Degree
    BY Below DEF Rows, Cols
  <2>2. r * Degree + c \in 0..(3 * (Length * Degree))
    BY <2>1, ProductNat
  <2>3. session.key \in Seeds
    BY DEF Seeds
  <2>4. QED
    BY <2>2, <2>3, DrawType
<1>4. a[r][c] \in F /\ b[r][c] \in F
  BY DEF Matrix
<1> HIDE DEF u, x, y, m
<1>5. Times(a[r][c], x) \in F /\ Times(b[r][c], y) \in F
  BY <1>2, <1>4, RingAssumption
<1>6. Plus(m, Times(a[r][c], x)) \in F
  BY <1>3, <1>5, RingAssumption
<1>7. Plus(Plus(m, Times(a[r][c], x)), Times(b[r][c], y)) \in F
  BY <1>5, <1>6, RingAssumption
<1>8. QED
  BY <1>7 DEF CellOf, u, x, y, m

\* The state an unfinished computation starts from.
LEMMA InitInv == Init => BlindInv
<1> SUFFICES ASSUME Init PROVE BlindInv
  OBVIOUS
<1>1. TypeOK
  BY DEF Init, TypeOK, Parties
<1>2. PointsAgree
  BY DEF Init, PointsAgree
<1>3. BlindedFromTable
  BY DEF Init, BlindedFromTable
<1>4. Counted
  BY DEF Init, Counted
<1>5. SessionInv
  BY DEF Init, SessionInv
<1>6. QED
  BY <1>1, <1>2, <1>3, <1>4, <1>5 DEF BlindInv

\* setRawData() makes the matrix from the table.
LEMMA SetRawDataStep ==
  ASSUME BlindInv, NEW c \in Clients, NEW s, SetRawData(c, s)
  PROVE  BlindInv'
<1>1. PICK tab \in [Rows -> [1..Height -> TableRoots \cap F]] :
        /\ table' = [table EXCEPT ![c] = tab]
        /\ blinded' = [blinded EXCEPT ![c] =
                         Evaluations(tab, GetUnknowns(c, Degree), Secret[c])]
  BY DEF SetRawData
<1>2. tab \in [Rows -> [1..Height -> F]]
  OBVIOUS
<1>3. GetUnknowns(c, Degree) = Unknowns(Degree)
  BY GetUnknownsSame DEF BlindInv, Parties
<1>4. Evaluations(tab, Unknowns(Degree), Secret[c]) \in Matrix
  BY <1>2, EvaluationsType
<1>5. pc = "idle" /\ pc' = "idle"
  BY DEF SetRawData
<1>6. unknowns' = [unknowns EXCEPT ![c] = Unknowns(Degree)]
  BY <1>3 DEF SetRawData
<1>7. TypeOK'
  <2>1. table' \in [Clients -> [Rows -> [1..Height -> F]] \cup {NoMatrix}]
    BY <1>1, <1>2 DEF BlindInv, TypeOK
  <2>2. blinded' \in [Clients -> Matrix \cup {NoMatrix}]
    BY <1>1, <1>3, <1>4 DEF BlindInv, TypeOK
  <2>3. unknowns' \in [Parties -> [Cols -> F] \cup {<<>>}]
    BY <1>6, UnknownsType DEF BlindInv, TypeOK
  <2>4. UNCHANGED <<session, pc, worker, matrixA, matrixB, tq, row, col, aIdx,
                    omegaA, omegaB, drawn, t, q, setcap>>
    BY DEF SetRawData, loop
  <2>5. QED
    BY <2>1, <2>2, <2>3, <2>4, <1>5 DEF BlindInv, TypeOK
<1>8. PointsAgree'
  BY <1>6 DEF BlindInv, PointsAgree
<1>9. BlindedFromTable'
  BY <1>1, <1>2, <1>3, NoMatrixApart DEF BlindInv, TypeOK, BlindedFromTable
<1>10. Counted'
  BY <1>5 DEF BlindInv, Counted, SetRawData, loop
<1>11. SessionInv'
  BY <1>5 DEF SessionInv
<1>12. QED
  BY <1>7, <1>8, <1>9, <1>10, <1>11 DEF BlindInv

\* A computation starts: no cell is done, and its party has its points.
LEMMA BeginStep ==
  ASSUME BlindInv, NEW p \in Parties, NEW a \in Matrix, NEW b \in Matrix,
         BeginComputation(p, a, b)
  PROVE  /\ unknowns' = [unknowns EXCEPT ![p] = Unknowns(Degree)]
         /\ unknowns' \in [Parties -> [Cols -> F] \cup {<<>>}]
         /\ unknowns'[p] = Unknowns(Degree)
         /\ PointsAgree'
         /\ Counted'
         /\ CellsDone'
         /\ pc' = "row" /\ worker' = p /\ row' = 0 /\ col' = 0 /\ aIdx' = 0
         /\ matrixA' = a /\ matrixB' = b /\ tq' \in Matrix
<1>1. unknowns' = [unknowns EXCEPT ![p] = Unknowns(Degree)]
  BY GetUnknownsSame DEF BeginComputation, BlindInv
<1>2. /\ unknowns' \in [Parties -> [Cols -> F] \cup {<<>>}]
      /\ unknowns'[p] = Unknowns(Degree)
  BY <1>1, UnknownsType DEF BlindInv, TypeOK
<1>3. PointsAgree'
  BY <1>1 DEF PointsAgree, BlindInv
<1>4. /\ pc' = "row" /\ worker' = p /\ row' = 0 /\ col' = 0 /\ aIdx' = 0
      /\ matrixA' = a /\ matrixB' = b /\ drawn' = {}
      /\ tq' = [r \in Rows |-> [c \in Cols |-> 0]]
  BY DEF BeginComputation
<1>5. Counted'
  BY <1>4 DEF Counted
<1>6. CellsDone'
  BY <1>4 DEF CellsDone, Rows
<1>7. tq' \in Matrix
  <2>1. 0 \in F
    BY DEF F
  <2>2. QED
    BY <1>4, <2>1 DEF Matrix
<1>8. QED
  BY <1>1, <1>2, <1>3, <1>4, <1>5, <1>6, <1>7

\* A request starts the computation of the cloud.
LEMMA RequestStep ==
  ASSUME BlindInv, NEW h \in Clients, NEW r \in Clients, NEW k \in Keys,
         Request(h, r, k)
  PROVE  BlindInv'
<1>1. /\ blinded[h] \in Matrix /\ blinded[r] \in Matrix
      /\ blinded[h] # NoMatrix /\ blinded[r] # NoMatrix
      /\ pc = "idle"
      /\ session' = [helper |-> h, requester |-> r, key |-> k]
      /\ BeginComputation(Cloud, blinded[h], blinded[r])
      /\ UNCHANGED <<rawData, table, blinded, t, q, setcap>>
  BY DEF Request, BlindInv, TypeOK, data
<1>2. Cloud \in Parties
  BY DEF Parties
<1>3. /\ unknowns' \in [Parties -> [Cols -> F] \cup {<<>>}]
      /\ unknowns'[Cloud] = Unknowns(Degree)
      /\ PointsAgree' /\ Counted' /\ CellsDone'
      /\ pc' = "row" /\ worker' = Cloud /\ row' = 0 /\ col' = 0 /\ aIdx' = 0
      /\ matrixA' = blinded[h] /\ matrixB' = blinded[r] /\ tq' \in Matrix
  BY <1>1, <1>2, BeginStep
<1>4. TypeOK'
  BY <1>1, <1>2, <1>3 DEF BlindInv, TypeOK
<1>5. BlindedFromTable'
  BY <1>1 DEF BlindInv, BlindedFromTable
<1>6. SessionInv'
  BY <1>1, <1>3 DEF SessionInv
<1>7. QED
  BY <1>3, <1>4, <1>5, <1>6 DEF BlindInv

\* t is what the cloud combined; the helper starts its own computation.
LEMMA DelegationOutputStep ==
  ASSUME BlindInv, DelegationOutput
  PROVE  BlindInv'
<1> DEFINE h == session.helper
           r == session.requester
<1>1. /\ pc = "row" /\ row = Length /\ worker = Cloud
      /\ t' = tq
      /\ BeginComputation(h, Masks(Secret[h]), Masks(Secret[r]))
      /\ UNCHANGED <<rawData, table, blinded, session, q, setcap>>
  BY DEF DelegationOutput, data
<1>2. h \in Clients /\ r \in Clients /\ h \in Parties /\ h # Cloud
  BY <1>1 DEF BlindInv, TypeOK, Parties
<1>3. Masks(Secret[h]) \in Matrix /\ Masks(Secret[r]) \in Matrix
  BY <1>2, MasksType
<1>4. /\ unknowns' \in [Parties -> [Cols -> F] \cup {<<>>}]
      /\ unknowns'[h] = Unknowns(Degree)
      /\ PointsAgree' /\ Counted' /\ CellsDone'
      /\ pc' = "row" /\ worker' = h /\ row' = 0 /\ col' = 0 /\ aIdx' = 0
      /\ matrixA' = Masks(Secret[h]) /\ matrixB' = Masks(Secret[r]) /\ tq' \in Matrix
  BY <1>1, <1>2, <1>3, BeginStep
<1>5. tq \in Matrix
  BY <1>1 DEF BlindInv, TypeOK
<1>6. TypeOK'
  BY <1>1, <1>2, <1>3, <1>4, <1>5 DEF BlindInv, TypeOK
<1>7. BlindedFromTable'
  BY <1>1 DEF BlindInv, BlindedFromTable
<1>8. CombinesData(t)'
  <2>1. \A i \in Rows, c \in Cols : tq[i][c] = CellOf(matrixA, matrixB, i, c)
    BY <1>1 DEF BlindInv, SessionInv, CellsDone, Rows
  <2>2. matrixA = blinded[h] /\ matrixB = blinded[r]
    BY <1>1 DEF BlindInv, SessionInv
  <2>3. QED
    BY <1>1, <2>1, <2>2 DEF CombinesData, Combines, CellOf
<1>9. SessionInv'
  BY <1>1, <1>2, <1>4, <1>5, <1>8 DEF BlindInv, SessionInv
<1>10. QED
  BY <1>4, <1>6, <1>7, <1>9 DEF BlindInv

\* q is what the helper combined.
LEMMA SendQStep ==
  ASSUME BlindInv, SendQ
  PROVE  BlindInv'
<1> DEFINE h == session.helper
           r == session.requester
<1>1. /\ pc = "row" /\ row = Length /\ worker # Cloud
      /\ q' = tq /\ pc' = "intersect"
      /\ UNCHANGED <<rawData, table, blinded, session, unknowns, worker, matrixA,
                     matrixB, tq, row, col, aIdx, omegaA, omegaB, drawn, t, setcap>>
  BY DEF SendQ, data, loop
<1>2. tq \in Matrix
  BY <1>1 DEF BlindInv, TypeOK
<1>3. TypeOK'
  BY <1>1, <1>2 DEF BlindInv, TypeOK
<1>4. PointsAgree' /\ BlindedFromTable' /\ Counted'
  BY <1>1 DEF BlindInv, PointsAgree, BlindedFromTable, Counted
<1>5. CombinesMasks(q)'
  <2>1. \A i \in Rows, c \in Cols : tq[i][c] = CellOf(matrixA, matrixB, i, c)
    BY <1>1 DEF BlindInv, SessionInv, CellsDone, Rows
  <2>2. matrixA = Masks(Secret[h]) /\ matrixB = Masks(Secret[r])
    BY <1>1 DEF BlindInv, SessionInv
  <2>3. QED
    BY <1>1, <2>1, <2>2 DEF CombinesMasks, Combines, CellOf
<1>6. t \in Matrix /\ CombinesData(t)
  BY <1>1 DEF BlindInv, SessionInv
<1>7. CombinesData(t)'
  BY <1>1, <1>6 DEF CombinesData, Combines, CellOf
<1>8. SessionInv'
  BY <1>1, <1>2, <1>5, <1>6, <1>7 DEF BlindInv, SessionInv
<1>9. QED
  BY <1>3, <1>4, <1>8 DEF BlindInv

\* The omegas of a row are drawn with indices of their own.
LEMMA GenOmegasStep ==
  ASSUME BlindInv, GenOmegas
  PROVE  BlindInv'
<1>1. /\ pc = "row" /\ row < Length /\ pc' = "cell" /\ col' = 0
      /\ omegaA' = Omega(session.key, OmegaAIdx + Height * row)
      /\ omegaB' = Omega(session.key, OmegaBIdx + Height * row)
      /\ UNCHANGED <<rawData, table, blinded, unknowns, session, worker, matrixA,
                     matrixB, tq, row, aIdx, t, q, setcap>>
  BY DEF GenOmegas, data
<1>2. row \in Rows /\ session.key \in Keys
  BY <1>1 DEF BlindInv, TypeOK, Rows
<1>3. omegaA' \in [0..Height -> F] /\ omegaB' \in [0..Height -> F]
  BY <1>1, <1>2, OmegaType
<1>4. TypeOK'
  BY <1>1, <1>3 DEF BlindInv, TypeOK
<1>5. PointsAgree' /\ BlindedFromTable'
  BY <1>1 DEF BlindInv, PointsAgree, BlindedFromTable
<1>6. Counted'
  <2>1. aIdx = row * Degree
    <3>1. aIdx = row * Degree + 0
      BY <1>1 DEF BlindInv, Counted
    <3>2. row * Degree \in Nat
      BY <1>2, ProductNat DEF Rows
    <3>3. QED
      BY <3>1, <3>2
  <2>2. row * Degree \in Nat
    BY <1>2, ProductNat DEF Rows
  <2>3. drawn' \subseteq DrawnFor
    <3> DEFINE A == {<<OmegaAIdx + Height * row + k, <<"A", row, k>>>> : k \in 0..(Height - 1)}
               B == {<<OmegaBIdx + Height * row + k, <<"B", row, k>>>> : k \in 0..(Height - 1)}
    <3>1. A \subseteq DrawnFor
      <4>1. \A k \in 0..(Height - 1) :
              <<OmegaAIdx + Height * row + k, <<"A", row, k>>>> \in DrawnFor
        BY <1>2 DEF DrawnFor
      <4>2. QED
        BY <4>1, Zenon
    <3>2. B \subseteq DrawnFor
      <4>1. \A k \in 0..(Height - 1) :
              <<OmegaBIdx + Height * row + k, <<"B", row, k>>>> \in DrawnFor
        BY <1>2 DEF DrawnFor
      <4>2. QED
        BY <4>1, Zenon
    <3>3. drawn \subseteq DrawnFor
      BY DEF BlindInv, Counted
    <3>4. drawn' = drawn \cup A \cup B
      BY Zenon DEF GenOmegas
    <3> HIDE DEF A, B
    <3>5. QED
      BY <3>1, <3>2, <3>3, <3>4
  <2>4. QED
    BY <1>1, <2>1, <2>2, <2>3 DEF Counted
<1>7. CellsDone'
  BY <1>1 DEF BlindInv, SessionInv, CellsDone, CellOf, Rows, Cols
<1>8. SessionInv'
  BY <1>1, <1>7 DEF BlindInv, SessionInv, CombinesData, Combines, CellOf
<1>9. QED
  BY <1>4, <1>5, <1>6, <1>8 DEF BlindInv

\* The number of a cell is the index its mask is drawn with.
LEMMA ComputeCellStep ==
  ASSUME BlindInv, ComputeCell
  PROVE  BlindInv'
<1> DEFINE v == Cell(unknowns[worker][col])
<1>1. /\ pc = "cell" /\ col < Degree
      /\ tq' = [tq EXCEPT ![row][col] = v]
      /\ drawn' = drawn \cup {<<aIdx, <<"a", row, col>>>>}
      /\ aIdx' = aIdx + 1 /\ col' = col + 1
      /\ UNCHANGED <<rawData, table, blinded, unknowns, session, pc, worker,
                     matrixA, matrixB, row, omegaA, omegaB, t, q, setcap>>
  BY DEF ComputeCell, data
<1>2. /\ row \in Rows /\ col \in Cols /\ session.key \in Keys
      /\ matrixA \in Matrix /\ matrixB \in Matrix /\ tq \in Matrix
  BY <1>1 DEF BlindInv, TypeOK, Rows, Cols
<1>3. aIdx = row * Degree + col
  BY <1>1 DEF BlindInv, Counted
<1>4. v = CellOf(matrixA, matrixB, row, col)
  BY <1>1, <1>3 DEF BlindInv, SessionInv, Cell, CellOf
<1>5. v \in F
  BY <1>2, <1>4, CellOfType
<1> HIDE DEF v
<1>6. tq' \in Matrix
  BY <1>1, <1>2, <1>5 DEF Matrix
<1>7. TypeOK'
  BY <1>1, <1>2, <1>6 DEF BlindInv, TypeOK, Cols
<1>8. PointsAgree' /\ BlindedFromTable'
  BY <1>1 DEF BlindInv, PointsAgree, BlindedFromTable
<1>9. Counted'
  <2>1. <<aIdx, <<"a", row, col>>>> \in DrawnFor
    BY <1>2, <1>3 DEF DrawnFor
  <2>2. row * Degree \in Nat
    BY <1>2, ProductNat DEF Rows
  <2>3. aIdx' = row' * Degree + col'
    BY <1>1, <1>2, <1>3, <2>2 DEF Cols
  <2>4. QED
    BY <1>1, <2>1, <2>3 DEF BlindInv, Counted
<1>10. CellsDone'
  <2> SUFFICES ASSUME NEW r \in Rows, NEW c \in Cols,
                      r < row \/ (r = row /\ c < col + 1)
               PROVE  tq'[r][c] = CellOf(matrixA, matrixB, r, c)
    BY <1>1 DEF CellsDone, CellOf
  <2>1. CASE r = row /\ c = col
    BY <1>1, <1>2, <1>4, <2>1 DEF Matrix
  <2>2. CASE ~(r = row /\ c = col)
    <3>1. tq'[r][c] = tq[r][c]
      BY <1>1, <1>2, <2>2 DEF Matrix
    <3>2. r < row \/ (r = row /\ c < col)
      BY <1>2, <2>2 DEF Rows, Cols
    <3>3. QED
      BY <1>1, <3>1, <3>2 DEF BlindInv, SessionInv, CellsDone
  <2>3. QED
    BY <2>1, <2>2
<1>11. SessionInv'
  BY <1>1, <1>10 DEF BlindInv, SessionInv, CombinesData, Combines, CellOf
<1>12. QED
  BY <1>7, <1>8, <1>9, <1>11 DEF BlindInv

\* A finished row.
LEMMA NextRowStep ==
  ASSUME BlindInv, NextRow
  PROVE  BlindInv'
<1>1. /\ pc = "cell" /\ col = Degree /\ row' = row + 1 /\ pc' = "row"
      /\ UNCHANGED <<rawData, table, blinded, unknowns, session, worker, matrixA,
                     matrixB, tq, col, aIdx, omegaA, omegaB, drawn, t, q, setcap>>
  BY DEF NextRow, data
<1>2. row \in Rows
  BY <1>1 DEF BlindInv, TypeOK, Rows
<1>3. TypeOK'
  BY <1>1, <1>2 DEF BlindInv, TypeOK, Rows
<1>4. PointsAgree' /\ BlindedFromTable'
  BY <1>1 DEF BlindInv, PointsAgree, BlindedFromTable
<1>5. Counted'
  <2>1. aIdx = row * Degree + Degree
    BY <1>1 DEF BlindInv, Counted
  <2>2. (row + 1) * Degree = row * Degree + Degree /\ (row + 1) * Degree \in Nat
    BY <1>2 DEF Rows
  <2>3. QED
    BY <1>1, <2>1, <2>2 DEF BlindInv, Counted
<1>6. CellsDone'
  <2> SUFFICES ASSUME NEW r \in Rows, NEW c \in Cols, r < row + 1
               PROVE  tq[r][c] = CellOf(matrixA, matrixB, r, c)
    BY <1>1 DEF CellsDone, CellOf
  <2>1. r < row \/ (r = row /\ c < col)
    BY <1>1, <1>2 DEF Rows, Cols
  <2>2. QED
    BY <1>1, <2>1 DEF BlindInv, SessionInv, CellsDone
<1>7. SessionInv'
  BY <1>1, <1>6 DEF BlindInv, SessionInv, CombinesData, Combines, CellOf
<1>8. QED
  BY <1>3, <1>4, <1>5, <1>7 DEF BlindInv

\* The requester has its points since it blinded its data.
LEMMA IntersectStep ==
  ASSUME BlindInv, Intersect
  PROVE  BlindInv'
<1>1. /\ pc = "intersect" /\ pc' = "done"
      /\ unknowns' = [unknowns EXCEPT ![session.requester] =
                        GetUnknowns(session.requester, 0)]
      /\ UNCHANGED <<rawData, table, blinded, session, worker, matrixA, matrixB,
                     tq, row, col, aIdx, omegaA, omegaB, drawn, t, q>>
  BY DEF Intersect, data, loop
<1>2. session.requester \in Clients
  BY <1>1 DEF BlindInv, TypeOK
<1>3. unknowns' = unknowns
  BY <1>1, <1>2 DEF GetUnknowns, BlindInv, TypeOK, Parties
<1>4. TypeOK'
  BY <1>1, <1>3 DEF BlindInv, TypeOK
<1>5. PointsAgree' /\ BlindedFromTable' /\ Counted'
  BY <1>1, <1>3 DEF BlindInv, PointsAgree, BlindedFromTable, Counted
<1>6. SessionInv'
  BY <1>1 DEF BlindInv, SessionInv, CombinesData, CombinesMasks, Combines, CellOf
<1>7. QED
  BY <1>4, <1>5, <1>6 DEF BlindInv

\* The invariant is inductive.
LEMMA NextInv == BlindInv /\ [Next]_vars => BlindInv'
<1> SUFFICES ASSUME BlindInv, [Next]_vars PROVE BlindInv'
  OBVIOUS
<1>1. ASSUME NEW c \in Clients, NEW s \in Inputs, SetRawData(c, s) PROVE BlindInv'
  BY <1>1, SetRawDataStep
<1>2. ASSUME NEW a \in Clients, NEW b \in Clients, NEW k \in Keys, Request(a, b, k)
      PROVE  BlindInv'
  BY <1>2, RequestStep
<1>3. CASE GenOmegas
  BY <1>3, GenOmegasStep
<1>4. CASE ComputeCell
  BY <1>4, ComputeCellStep
<1>5. CASE NextRow
  BY <1>5, NextRowStep
<1>6. CASE DelegationOutput
  BY <1>6, DelegationOutputStep
<1>7. CASE SendQ
  BY <1>7, SendQStep
<1>8. CASE Intersect
  BY <1>8, IntersectStep
<1>9. CASE UNCHANGED vars
  BY <1>9 DEF vars, BlindInv, TypeOK, PointsAgree, BlindedFromTable, Counted,
              SessionInv, CellsDone, CombinesData, CombinesMasks, Combines, CellOf
<1>10. QED
  BY <1>1, <1>2, <1>3, <1>4, <1>5, <1>6, <1>7, <1>8, <1>9 DEF Next, SessionNext

\* The invariant holds of every behaviour.
LEMMA Invariant == Spec => []BlindInv
<1>1. Init => BlindInv
  BY InitInv
<1>2. BlindInv /\ [Next]_vars => BlindInv'
  BY NextInv
<1>3. QED
  BY <1>1, <1>2, PTL DEF Spec

-----------------------------------------------------------------------------

(* The theorems.                                                           *)

\* The numbers of a session stay in the field, whatever its parties' data: the
\* type invariant of Blinding, for every instance.
THEOREM TypeCorrect == Spec => []TypeOK
<1>1. BlindInv => TypeOK
  BY DEF BlindInv
<1>2. QED
  BY Invariant, <1>1, PTL

\* Where the three ranges of indices lie: the masks of the cells first, then
\* the coefficients of the first omega, then those of the second.
LEMMA Ranges ==
  ASSUME NEW r \in Rows
  PROVE  /\ \A c \in Cols : /\ r * Degree + c \in Nat
                            /\ r * Degree + c < OmegaAIdx
         /\ \A k \in 0..(Height - 1) :
              /\ OmegaAIdx + Height * r + k \in Nat
              /\ OmegaAIdx <= OmegaAIdx + Height * r + k
              /\ OmegaAIdx + Height * r + k < OmegaBIdx
              /\ OmegaBIdx + Height * r + k \in Nat
              /\ OmegaBIdx <= OmegaBIdx + Height * r + k
         /\ OmegaAIdx \in Nat /\ OmegaBIdx \in Nat /\ Height * r = r * Height
<1>1. /\ OmegaAIdx \in Nat /\ OmegaBIdx = OmegaAIdx + OmegaAIdx
      /\ Height * r = r * Height /\ r * Height \in Nat
  BY ProductNat DEF OmegaAIdx, OmegaBIdx, Rows
<1>2. ASSUME NEW c \in Cols
      PROVE  r * Degree + c \in Nat /\ r * Degree + c < OmegaAIdx
  BY Below DEF Rows, Cols, OmegaAIdx
<1>3. ASSUME NEW k \in 0..(Height - 1)
      PROVE  r * Height + k \in Nat /\ r * Height + k < OmegaAIdx
  <2>1. r * Height + k \in Nat /\ r * Height + k < Length * Height
    BY Below DEF Rows
  <2>2. /\ Height * Length <= Degree * Length
        /\ Height * Length = Length * Height /\ Degree * Length = Length * Degree
        /\ Length * Height \in Nat /\ Length * Degree \in Nat
    BY DegreeAssumption, ProductMonotone
  <2>3. QED
    BY <2>1, <2>2 DEF OmegaAIdx
<1>4. QED
  BY <1>1, <1>2, <1>3

\* What an index is for is determined by the index.
LEMMA IndicesApart ==
  ASSUME NEW d \in DrawnFor, NEW e \in DrawnFor, d[1] = e[1]
  PROVE  d = e
<1> DEFINE InCells(x) == \E r \in Rows, c \in Cols : x = <<r * Degree + c, <<"a", r, c>>>>
           InA(x) == \E r \in Rows, k \in 0..(Height - 1) :
                       x = <<OmegaAIdx + Height * r + k, <<"A", r, k>>>>
           InB(x) == \E r \in Rows, k \in 0..(Height - 1) :
                       x = <<OmegaBIdx + Height * r + k, <<"B", r, k>>>>
<1>1. \A x \in DrawnFor : InCells(x) \/ InA(x) \/ InB(x)
  BY DEF DrawnFor
<1>2. \A x : InCells(x) => x[1] \in Nat /\ x[1] < OmegaAIdx
  BY Ranges
<1>3. \A x : InA(x) => x[1] \in Nat /\ OmegaAIdx <= x[1] /\ x[1] < OmegaBIdx
  BY Ranges
<1>4. \A x : InB(x) => x[1] \in Nat /\ OmegaBIdx <= x[1]
  BY Ranges
<1>5. OmegaAIdx \in Nat /\ OmegaBIdx \in Nat /\ OmegaAIdx <= OmegaBIdx
  BY ProductNat DEF OmegaAIdx, OmegaBIdx
<1>6. CASE InCells(d) /\ InCells(e)
  <2>1. PICK r \in Rows, c \in Cols : d = <<r * Degree + c, <<"a", r, c>>>>
    BY <1>6
  <2>2. PICK s \in Rows, b \in Cols : e = <<s * Degree + b, <<"a", s, b>>>>
    BY <1>6
  <2>3. r * Degree + c = s * Degree + b
    BY <2>1, <2>2
  <2>4. r = s /\ c = b
    BY <2>3, OneCell DEF Rows, Cols
  <2>5. QED
    BY <2>1, <2>2, <2>4
<1>7. CASE InA(d) /\ InA(e)
  <2>1. PICK r \in Rows, k \in 0..(Height - 1) :
          d = <<OmegaAIdx + Height * r + k, <<"A", r, k>>>>
    BY <1>7
  <2>2. PICK s \in Rows, l \in 0..(Height - 1) :
          e = <<OmegaAIdx + Height * s + l, <<"A", s, l>>>>
    BY <1>7
  <2>3. OmegaAIdx + Height * r + k = OmegaAIdx + Height * s + l
    BY <2>1, <2>2
  <2>4. /\ Height * r = r * Height /\ Height * s = s * Height
        /\ r * Height \in Nat /\ s * Height \in Nat
    BY DEF Rows
  <2>5. r * Height + k = s * Height + l
    BY <2>3, <2>4, <1>5
  <2>6. r = s /\ k = l
    BY <2>5, OneCell DEF Rows
  <2>7. QED
    BY <2>1, <2>2, <2>6
<1>8. CASE InB(d) /\ InB(e)
  <2>1. PICK r \in Rows, k \in 0..(Height - 1) :
          d = <<OmegaBIdx + Height * r + k, <<"B", r, k>>>>
    BY <1>8
  <2>2. PICK s \in Rows, l \in 0..(Height - 1) :
          e = <<OmegaBIdx + Height * s + l, <<"B", s, l>>>>
    BY <1>8
  <2>3. OmegaBIdx + Height * r + k = OmegaBIdx + Height * s + l
    BY <2>1, <2>2
  <2>4. /\ Height * r = r * Height /\ Height * s = s * Height
        /\ r * Height \in Nat /\ s * Height \in Nat
    BY DEF Rows
  <2>5. r * Height + k = s * Height + l
    BY <2>3, <2>4, <1>5
  <2>6. r = s /\ k = l
    BY <2>5, OneCell DEF Rows
  <2>7. QED
    BY <2>1, <2>2, <2>6
<1> HIDE DEF InCells, InA, InB
<1>9. ~(InCells(d) /\ InA(e)) /\ ~(InA(d) /\ InCells(e))
  BY <1>2, <1>3, <1>5
<1>10. ~(InCells(d) /\ InB(e)) /\ ~(InB(d) /\ InCells(e))
  BY <1>2, <1>4, <1>5
<1>11. ~(InA(d) /\ InB(e)) /\ ~(InB(d) /\ InA(e))
  BY <1>3, <1>4, <1>5
<1>12. QED
  BY <1>1, <1>6, <1>7, <1>8, <1>9, <1>10, <1>11

\* No two numbers of one computation share an index, for every number of
\* buckets and every load up to the degree.
THEOREM EachIndexOnce == Spec => []IndexOnce
<1>1. BlindInv => IndexOnce
  BY IndicesApart DEF BlindInv, Counted, IndexOnce
<1>2. QED
  BY Invariant, <1>1, PTL

\* Two cells of t and q that have been computed differ by the plain product.
LEMMA MasksCancelled == BlindInv => MasksCancel
<1>1. ASSUME BlindInv, pc \in {"intersect", "done"}, NEW r \in Rows, NEW c \in Cols
      PROVE  Minus(t[r][c], q[r][c]) = PlainCell(r, c)
  <2> DEFINE h == session.helper
             e == session.requester
             u == Unknowns(Degree)[c]
             m == Draw(session.key, r * Degree + c)
             x == Eval(Omega(session.key, OmegaAIdx + Height * r), u)
             y == Eval(Omega(session.key, OmegaBIdx + Height * r), u)
             p == EvalRoots(table[h][r], u)
             s == EvalRoots(table[e][r], u)
             a == Mask(Secret[h], r, c)
             b == Mask(Secret[e], r, c)
  <2>1. /\ h \in Clients /\ e \in Clients /\ session.key \in Keys
        /\ blinded[h] # NoMatrix /\ blinded[e] # NoMatrix
        /\ CombinesData(t) /\ CombinesMasks(q)
    BY <1>1 DEF BlindInv, TypeOK, SessionInv
  <2>2. /\ table[h] \in [Rows -> [1..Height -> F]]
        /\ table[e] \in [Rows -> [1..Height -> F]]
        /\ blinded[h] = Evaluations(table[h], Unknowns(Degree), Secret[h])
        /\ blinded[e] = Evaluations(table[e], Unknowns(Degree), Secret[e])
    BY <1>1, <2>1 DEF BlindInv, TypeOK, BlindedFromTable
  <2>3. blinded[h][r][c] = Plus(p, a) /\ blinded[e][r][c] = Plus(s, b)
    <3>1. ASSUME NEW k \in Clients, table[k] \in [Rows -> [1..Height -> F]]
          PROVE  Evaluations(table[k], Unknowns(Degree), Secret[k])[r][c] =
                   Plus(EvalRoots(table[k][r], Unknowns(Degree)[c]), Mask(Secret[k], r, c))
      BY <1>1, <3>1, EvaluationsType
    <3>2. QED
      BY <2>1, <2>2, <3>1
  <2>4. Masks(Secret[h])[r][c] = a /\ Masks(Secret[e])[r][c] = b
    BY <1>1 DEF Masks
  <2>5. t[r][c] = Plus(Plus(m, Times(Plus(p, a), x)), Times(Plus(s, b), y))
    BY <1>1, <2>1, <2>3 DEF CombinesData, Combines, CellOf
  <2>6. q[r][c] = Plus(Plus(m, Times(a, x)), Times(b, y))
    BY <1>1, <2>1, <2>4 DEF CombinesMasks, Combines, CellOf
  <2>7. u \in F
    BY <1>1, UnknownsType
  <2>8. x \in F /\ y \in F
    BY <1>1, <2>1, <2>7, OmegaType, EvalAssumption
  <2>9. p \in F /\ s \in F
    BY <1>1, <2>2, <2>7, EvalAssumption
  <2>10. a \in F /\ b \in F
    BY <1>1, <2>1, MasksType
  <2>11. m \in F
    <3>1. r * Degree + c \in Nat /\ r * Degree + c < Length * Degree
      BY <1>1, Below DEF Rows, Cols
    <3>2. r * Degree + c \in 0..(3 * (Length * Degree))
      BY <3>1, ProductNat
    <3>3. session.key \in Seeds
      BY <2>1 DEF Seeds
    <3>4. QED
      BY <3>2, <3>3, DrawType
  <2>12. PlainCell(r, c) = Plus(Times(p, x), Times(s, y))
    BY DEF PlainCell, PlainValue
  <2> HIDE DEF m, x, y, p, s, a, b
  <2>13. Minus(Plus(Plus(m, Times(Plus(p, a), x)), Times(Plus(s, b), y)),
               Plus(Plus(m, Times(a, x)), Times(b, y)))
           = Plus(Times(p, x), Times(s, y))
    <3> DEFINE px == Times(p, x)  ax == Times(a, x)
               sy == Times(s, y)  by == Times(b, y)
    <3>1. px \in F /\ ax \in F /\ sy \in F /\ by \in F
      BY <2>8, <2>9, <2>10, RingAssumption
    <3>2. Times(Plus(p, a), x) = Plus(px, ax) /\ Times(Plus(s, b), y) = Plus(sy, by)
      BY <2>8, <2>9, <2>10, RingAssumption
    <3> HIDE DEF px, ax, sy, by
    <3> DEFINE target == Plus(px, sy)
               masks == Plus(Plus(m, ax), by)
    <3>3. target \in F /\ Plus(m, ax) \in F /\ masks \in F /\ Plus(px, ax) \in F
          /\ Plus(m, px) \in F /\ Plus(sy, by) \in F /\ Plus(px, m) \in F
      BY <3>1, <2>11, RingAssumption
    <3>4. Plus(m, Plus(px, ax)) = Plus(px, Plus(m, ax))
      <4>1. Plus(m, Plus(px, ax)) = Plus(Plus(m, px), ax)
        BY <3>1, <2>11, RingAssumption
      <4>2. Plus(m, px) = Plus(px, m)
        BY <3>1, <2>11, RingAssumption
      <4>3. Plus(Plus(px, m), ax) = Plus(px, Plus(m, ax))
        BY <3>1, <2>11, RingAssumption
      <4>4. QED
        BY <4>1, <4>2, <4>3
    <3>5. Plus(Plus(px, Plus(m, ax)), Plus(sy, by)) = Plus(target, masks)
      <4> DEFINE n == Plus(m, ax)
      <4>1. n \in F /\ Plus(n, Plus(sy, by)) \in F /\ Plus(n, sy) \in F /\ Plus(sy, n) \in F
        BY <3>1, <3>3, RingAssumption
      <4> HIDE DEF n
      <4>2. Plus(Plus(px, n), Plus(sy, by)) = Plus(px, Plus(n, Plus(sy, by)))
        BY <3>1, <3>3, <4>1, RingAssumption
      <4>3. Plus(n, Plus(sy, by)) = Plus(Plus(n, sy), by)
        BY <3>1, <4>1, RingAssumption
      <4>4. Plus(n, sy) = Plus(sy, n)
        BY <3>1, <4>1, RingAssumption
      <4>5. Plus(Plus(sy, n), by) = Plus(sy, Plus(n, by)) /\ Plus(n, by) \in F
        BY <3>1, <4>1, RingAssumption
      <4>6. Plus(px, Plus(sy, Plus(n, by))) = Plus(Plus(px, sy), Plus(n, by))
        BY <3>1, <4>5, RingAssumption
      <4>7. QED
        BY <4>2, <4>3, <4>4, <4>5, <4>6 DEF n
    <3>6. Minus(Plus(target, masks), masks) = target
      BY <3>3, RingAssumption
    <3>7. QED
      BY <3>2, <3>4, <3>5, <3>6 DEF px, ax, sy, by
  <2>14. QED
    BY <2>5, <2>6, <2>12, <2>13
<1> QED
  BY <1>1 DEF MasksCancel

\* What the cloud and the helper computed apart differs by the product of the
\* plain polynomials with the omegas: all masks cancel, for every field, every
\* secret, key and table, and every pseudorandom function.
THEOREM MasksCancelAlways == Spec => []MasksCancel
  BY Invariant, MasksCancelled, PTL
-----------------------------------------------------------------------------

(* The padding.                                                            *)

\* The powers of two that fit.
LEMMA Powers ==
  ASSUME NEW n \in Nat, n <= FieldBits + SizeBits
  PROVE  2^n \in Nat /\ 2^n > 0 /\ 2^(n + 1) = 2 * 2^n
<1>1. n \in 0..(FieldBits + SizeBits)
  BY FieldAssumption
<1> QED
  BY <1>1, PowerAssumption

\* A sum of exponents is a product of powers.
LEMMA PowerSum ==
  ASSUME NEW a \in Nat, NEW b \in Nat, a + b <= FieldBits + SizeBits
  PROVE  2^(a + b) = 2^a * 2^b
<1>1. FieldBits + SizeBits \in Nat
  BY FieldAssumption
<1> QED
  BY <1>1, PowerAssumption, PowersMultiply

PaddingFits == RawDataBits < FieldBits

\* The bits that are added.  The difference does not wrap.
LEMMA PadSizeValue ==
  ASSUME PaddingFits
  PROVE  /\ PadSize = FieldBits - RawDataBits - 1
         /\ PadSize \in Nat /\ PadSize < FieldBits
         /\ PadSize < 2^(SizeBits - 1)
<1> DEFINE p == FieldBits - RawDataBits - 1
           s == 2^SizeBits
           h == 2^(SizeBits - 1)
<1>1. /\ FieldBits \in Nat /\ RawDataBits \in Nat /\ SizeBits - 1 \in Nat
      /\ FieldBits < h /\ RawDataBits < FieldBits
  BY FieldAssumption DEF PaddingFits
<1>2. h \in Nat /\ 2^((SizeBits - 1) + 1) = 2 * h
  BY <1>1, FieldAssumption, Powers
<1>3. s = 2 * h
  BY <1>1, <1>2, FieldAssumption
<1>4. s \in Nat /\ p \in Nat /\ p < h /\ p < s /\ s > 0 /\ p < FieldBits
  BY <1>1, <1>2, <1>3
<1>5. FieldBits + s - RawDataBits - 1 = 1 * s + p
  BY <1>1, <1>4
<1> HIDE DEF p, s, h
<1>6. (1 * s + p) % s = p
  BY <1>4
<1>7. PadSize = p
  BY <1>5, <1>6 DEF PadSize, s
<1> QED
  BY <1>4, <1>7 DEF p, h

\* Padding an element multiplies it, within the field.
LEMMA PaddedValue ==
  ASSUME PaddingFits, NEW e \in Elements
  PROVE  /\ Padded(e) = e * 2^PadSize /\ Padded(e) \in F
         /\ 2^PadSize \in Nat \ {0} /\ e \in Nat /\ Padded(e) < 2^FieldBits
<1> DEFINE p == 2^PadSize
           n == 2^RawDataBits
<1>1. /\ PadSize \in Nat /\ RawDataBits \in Nat /\ FieldBits \in Nat /\ SizeBits \in Nat
      /\ PadSize < FieldBits /\ RawDataBits < FieldBits
      /\ RawDataBits + PadSize = FieldBits - 1
  BY FieldAssumption, PadSizeValue DEF PaddingFits
<1>2. p \in Nat /\ p > 0 /\ n \in Nat /\ n > 0
  BY <1>1, Powers
<1>3. 2^(RawDataBits + PadSize) = n * p
  BY <1>1, PowerSum
<1>4. e \in Nat /\ e <= n - 1
  BY <1>2 DEF Elements
<1>5. n * p <= Modulus /\ Modulus < 2^FieldBits
  BY <1>1, <1>3, FieldAssumption
<1>6. ZeroPad(e) = e * p
  BY PadSizeValue DEF ZeroPad
<1> HIDE DEF p, n
<1>7. e * p \in Nat /\ e * p < n * p
  <2>1. e + 1 \in Nat /\ e + 1 <= n
    BY <1>2, <1>4
  <2>2. (e + 1) * p <= n * p
    BY <1>2, <2>1, ProductMonotone
  <2>3. (e + 1) * p = e * p + p /\ e * p \in Nat /\ n * p \in Nat
    BY <1>2, <1>4
  <2> QED
    BY <1>2, <2>2, <2>3
<1>8. e * p < Modulus
  BY <1>5, <1>7, <1>2, ProductNat
<1>9. (e * p) % Modulus = e * p
  <2> DEFINE x == e * p
  <2>1. x \in Nat /\ x < Modulus
    BY <1>7, <1>8
  <2> HIDE DEF x
  <2>2. x % Modulus = x
    BY <2>1
  <2> QED
    BY <2>2 DEF x
<1>10. 2^FieldBits \in Nat
  BY <1>1, Powers
<1>11. Padded(e) = e * p
  BY <1>6, <1>9 DEF Padded
<1>12. e * p \in F /\ e * p < 2^FieldBits
  <2> DEFINE x == e * p
             f == 2^FieldBits
  <2>1. x \in Nat /\ x < Modulus /\ Modulus < f /\ f \in Nat
    BY <1>5, <1>7, <1>8, <1>10
  <2> HIDE DEF x, f
  <2>2. x \in 0..(Modulus - 1) /\ x < f
    BY <2>1
  <2> QED
    BY <2>2 DEF x, f, F
<1> QED
  BY <1>2, <1>4, <1>11, <1>12 DEF p
\* The lowest bit that is set of a number that is not 0.
LEMMA LowestBit ==
  ASSUME NEW z \in Nat, z > 0, z < 2^FieldBits
  PROVE  \E k \in 0..FieldBits : z % 2^k = 0 /\ z % 2^(k + 1) # 0
<1> DEFINE S == {n \in Nat : n < FieldBits /\ z % 2^(n + 1) # 0}
<1>1. FieldBits \in Nat /\ FieldBits - 1 \in Nat /\ FieldBits > 0
  BY FieldAssumption
<1>2. FieldBits - 1 \in S
  <2> DEFINE f == 2^FieldBits
  <2>1. f \in Nat /\ z < f
    BY <1>1, FieldAssumption, Powers
  <2> HIDE DEF f
  <2>2. z % f = z
    BY <2>1
  <2>3. (FieldBits - 1) + 1 = FieldBits
    BY <1>1
  <2> QED
    BY <1>1, <2>2, <2>3 DEF f
<1>3. S \in SUBSET Nat /\ S # {}
  BY <1>2
<1>4. PICK k \in S : \A n \in S : k <= n
  <2> HIDE DEF S
  <2> QED BY <1>3, SmallestNat
<1>5. k \in Nat /\ k < FieldBits /\ z % 2^(k + 1) # 0
  BY <1>4
<1>6. z % 2^k = 0
  <2>1. CASE k = 0
    <3>1. 2^k = 1 /\ z % 1 = 0
      BY <2>1
    <3> QED BY <3>1
  <2>2. CASE k # 0
    <3>1. k - 1 \in Nat /\ k - 1 < FieldBits /\ ~(k <= k - 1) /\ (k - 1) + 1 = k
      BY <1>1, <1>5, <2>2
    <3>2. k - 1 \notin S
      BY <1>4, <3>1
    <3>3. ~(z % 2^((k - 1) + 1) # 0)
      BY <3>1, <3>2
    <3> QED
      BY <3>1, <3>3
  <2> QED BY <2>1, <2>2
<1>7. k \in 0..FieldBits
  BY <1>1, <1>5
<1> QED
  BY <1>5, <1>6, <1>7

\* A padded element, 0 excepted, has the zeros the padding has put there.
LEMMA PaddedZeros ==
  ASSUME PaddingFits, NEW e \in Elements, e # 0
  PROVE  CountLeadingZeros(Padded(e)) >= PadSize
<1> DEFINE z == Padded(e)
           p == PadSize
           k == CHOOSE i \in 0..FieldBits : z % 2^i = 0 /\ z % 2^(i + 1) # 0
<1>1. /\ z = e * 2^p /\ 2^p \in Nat \ {0} /\ e \in Nat /\ z < 2^FieldBits
      /\ p \in Nat /\ p < FieldBits /\ FieldBits \in Nat /\ SizeBits \in Nat
  BY PaddedValue, PadSizeValue, FieldAssumption
<1>2. z \in Nat /\ z > 0
  <2> DEFINE x == 2^p
  <2>1. x \in Nat /\ x > 0 /\ e > 0 /\ e \in Nat
    BY <1>1
  <2> HIDE DEF x
  <2>2. e * x \in Nat /\ e * x > 0
    BY <2>1
  <2> QED
    BY <1>1, <2>2 DEF x
<1> HIDE DEF z, p
<1>3. k \in 0..FieldBits /\ z % 2^k = 0 /\ z % 2^(k + 1) # 0
  <2>1. \E i \in 0..FieldBits : z % 2^i = 0 /\ z % 2^(i + 1) # 0
    BY <1>1, <1>2, LowestBit
  <2> QED
    BY <2>1
<1>4. CountLeadingZeros(z) = k
  BY <1>2 DEF CountLeadingZeros
<1> HIDE DEF k
<1>5. k \in Nat
  BY <1>1, <1>3
<1>6. ASSUME k < p PROVE FALSE
  <2> DEFINE d == p - (k + 1)
             x == 2^(k + 1)
             y == 2^d
  <2>1. /\ d \in Nat /\ k + 1 \in Nat /\ p = (k + 1) + d
        /\ (k + 1) + d <= FieldBits + SizeBits
        /\ k + 1 <= FieldBits + SizeBits /\ d <= FieldBits + SizeBits
    BY <1>1, <1>5, <1>6
  <2>2. 2^((k + 1) + d) = x * y
    BY <2>1, PowerSum
  <2>3. x \in Nat /\ x > 0 /\ y \in Nat
    BY <2>1, Powers
  <2>4. z = e * (x * y)
    BY <1>1, <2>1, <2>2
  <2> HIDE DEF x, y
  <2>5. e * (x * y) = (e * y) * x /\ e * y \in Nat
    BY <1>1, <2>3
  <2> DEFINE m == e * y
  <2> HIDE DEF m
  <2>6. (m * x) % x = 0
    BY <2>3, <2>5 DEF m
  <2> QED
    BY <1>3, <2>4, <2>5, <2>6 DEF x, m
<1> QED
  BY <1>1, <1>4, <1>5, <1>6 DEF z, p

\* A root that is a padded element is given back without its padding.
LEMMA PaddedFound ==
  ASSUME PaddingFits, NEW e \in Elements, e # 0, NEW roots, Padded(e) \in roots
  PROVE  e \in Found(roots)
<1> DEFINE x == 2^PadSize
<1>1. Padded(e) = e * x /\ x \in Nat /\ x > 0 /\ e \in Nat
  BY PaddedValue
<1>2. CountLeadingZeros(Padded(e)) >= PadSize
  BY PaddedZeros
<1> HIDE DEF x
<1>3. (e * x) \div x = e
  BY <1>1
<1>4. Padded(e) \div x = e
  BY <1>1, <1>3
<1> QED
  BY <1>2, <1>4 DEF Found, x
-----------------------------------------------------------------------------

(* The common elements.                                                    *)

\* An element of the data is in the bucket it was placed in.
LEMMA SlotOf ==
  ASSUME NEW s \in Seq(Elements), NEW place \in [DOMAIN s -> Rows], NEW tab,
         Filled(s, place, tab), NEW k \in DOMAIN s
  PROVE  \E j \in 1..Height : tab[place[k]][j] = Padded(s[k])
<1> DEFINE r == place[k]
           at == InBucket(place, r)
           before == at \cap 1..k
<1>1. Len(s) \in Nat /\ DOMAIN s = 1..Len(s) /\ s[k] \in Elements
  OBVIOUS
<1>2. r \in Rows
  OBVIOUS
<1>3. k \in at /\ at \subseteq 1..Len(s)
  BY <1>1 DEF InBucket
<1>4. k \in before /\ before \subseteq at
  BY <1>1, <1>3
<1>5. /\ Cardinality(at) <= Height
      /\ \A i \in at : tab[r][Cardinality(at \cap 1..i)] = Padded(s[i])
  BY <1>2 DEF Filled
<1>6. tab[r][Cardinality(before)] = Padded(s[k])
  BY <1>3, <1>5
<1> HIDE DEF at, before
<1>7. IsFiniteSet(at)
  <2>1. 1 \in Int /\ Len(s) \in Int
    BY <1>1
  <2>2. IsFiniteSet(1..Len(s))
    BY <2>1, FS_Interval
  <2> QED
    BY <1>3, <2>2, FS_Subset
<1>8. IsFiniteSet(before) /\ Cardinality(before) <= Cardinality(at)
  BY <1>4, <1>7, FS_Subset
<1>9. Cardinality(before) \in Nat /\ Cardinality(at) \in Nat /\ Cardinality(before) # 0
  BY <1>4, <1>7, <1>8, FS_CardinalityType, FS_EmptySet
<1>10. Cardinality(before) \in 1..Height
  BY <1>5, <1>8, <1>9
<1> QED
  BY <1>2, <1>6, <1>10

LEMMA InitFinds == Init => FindInv
<1> SUFFICES ASSUME Init PROVE FindInv
  OBVIOUS
<1>1. \A c \in Clients : blinded[c] = NoMatrix
  BY DEF Init
<1>2. rawData \in [Clients -> Seq(Elements)] /\ DOMAIN placed = Clients
  <2>1. <<>> \in Seq(Elements)
    OBVIOUS
  <2> QED BY <2>1 DEF Init
<1> QED
  BY <1>1, <1>2 DEF Init, FindInv, DataInTable, FoundInDifference

\* Data is put in its table before it is blinded.
LEMMA SetRawDataFinds ==
  ASSUME BlindInv, FindInv, NEW c \in Clients, NEW s \in Inputs, SetRawData(c, s)
  PROVE  FindInv'
<1>1. PICK place \in Placements(s), tab \in [Rows -> [1..Height -> TableRoots \cap F]] :
        /\ Filled(s, place, tab)
        /\ placed' = [placed EXCEPT ![c] = place]
        /\ table' = [table EXCEPT ![c] = tab]
  BY DEF SetRawData
<1>2. /\ DOMAIN table = Clients /\ DOMAIN unknowns = Parties /\ DOMAIN blinded = Clients
      /\ c \in Parties
  BY DEF BlindInv, TypeOK, Parties
<1>3. unknowns' = [unknowns EXCEPT ![c] = Unknowns(Degree)]
  BY <1>2, GetUnknownsSame DEF SetRawData, BlindInv
<1>4. /\ rawData' = [rawData EXCEPT ![c] = s]
      /\ \A d \in Clients : d # c => blinded'[d] = blinded[d]
      /\ pc' # "done"
  BY <1>2 DEF SetRawData
<1>5. s \in Seq(Elements)
  BY InputAssumption
<1>6. rawData' \in [Clients -> Seq(Elements)] /\ DOMAIN placed' = Clients
  BY <1>1, <1>4, <1>5 DEF FindInv, DataInTable
<1>7. ASSUME NEW d \in Clients, blinded'[d] # NoMatrix
      PROVE  /\ unknowns'[d] = Unknowns(Degree)
             /\ table'[d] \in [Rows -> [1..Height -> TableRoots \cap F]]
             /\ placed'[d] \in Placements(rawData'[d])
             /\ Filled(rawData'[d], placed'[d], table'[d])
  <2>1. d \in Parties /\ DOMAIN rawData = Clients /\ DOMAIN placed = Clients
    BY DEF Parties, FindInv, DataInTable
  <2>2. CASE d = c
    <3>1. /\ table'[d] = tab /\ rawData'[d] = s /\ unknowns'[d] = Unknowns(Degree)
          /\ placed'[d] = place
      BY <1>1, <1>2, <1>3, <1>4, <2>1, <2>2
    <3> QED
      BY <1>1, <3>1
  <2>3. CASE d # c
    <3>1. /\ table'[d] = table[d] /\ rawData'[d] = rawData[d] /\ unknowns'[d] = unknowns[d]
          /\ blinded[d] # NoMatrix /\ placed'[d] = placed[d]
      BY <1>1, <1>2, <1>3, <1>4, <1>7, <2>1, <2>3
    <3> QED
      BY <3>1 DEF FindInv, DataInTable
  <2> QED BY <2>2, <2>3
<1> QED
  BY <1>4, <1>6, <1>7 DEF FindInv, DataInTable, FoundInDifference

\* A party that begins to compute changes nobody's points but its own.
LEMMA BeginFinds ==
  ASSUME BlindInv, FindInv, NEW p \in Parties, NEW a, NEW b,
         BeginComputation(p, a, b), UNCHANGED data
  PROVE  FindInv'
<1>1. unknowns' = [unknowns EXCEPT ![p] = Unknowns(Degree)] /\ pc' # "done"
  BY GetUnknownsSame DEF BeginComputation, BlindInv
<1>2. UNCHANGED <<rawData, placed, table, blinded>> /\ DOMAIN unknowns = Parties
  BY DEF data, BlindInv, TypeOK
<1>3. ASSUME NEW d \in Clients, blinded'[d] # NoMatrix
      PROVE  unknowns'[d] = Unknowns(Degree)
  <2>1. d \in Parties /\ unknowns[d] = Unknowns(Degree)
    BY <1>2, <1>3 DEF Parties, FindInv, DataInTable
  <2> QED
    BY <1>1, <1>2, <2>1
<1> QED
  BY <1>1, <1>2, <1>3 DEF FindInv, DataInTable, FoundInDifference

\* A step that leaves data and points alone.
LEMMA QuietFinds ==
  ASSUME FindInv, UNCHANGED <<data, unknowns>>,
         pc' # "done" \/ UNCHANGED <<pc, setcap, t, q>>
  PROVE  FindInv'
<1>1. UNCHANGED <<rawData, placed, table, blinded, unknowns>>
  BY DEF data
<1>2. DataInTable'
  BY <1>1 DEF FindInv, DataInTable
<1>3. FoundInDifference'
  BY DEF FindInv, FoundInDifference, Difference
<1> QED
  BY <1>2, <1>3 DEF FindInv

\* The requester, which has outsourced its own data, has the points already.
LEMMA IntersectFinds ==
  ASSUME BlindInv, FindInv, Intersect
  PROVE  FindInv'
<1> DEFINE c == session.requester
<1>1. /\ pc = "intersect" /\ UNCHANGED <<rawData, placed, table, blinded, t, q>>
      /\ setcap' = [r \in Rows |-> Found(RootsOf(GetUnknowns(c, 0), Difference(r)))]
      /\ unknowns' = [unknowns EXCEPT ![c] = GetUnknowns(c, 0)]
  BY DEF Intersect, data
<1>2. c \in Clients /\ blinded[c] # NoMatrix
  BY <1>1 DEF BlindInv, TypeOK, SessionInv
<1>3. GetUnknowns(c, 0) = unknowns[c] /\ unknowns[c] = Unknowns(Degree)
  BY <1>2 DEF GetUnknowns, FindInv, DataInTable
<1>4. unknowns' = unknowns
  BY <1>1, <1>3 DEF BlindInv, TypeOK
<1>5. \A r : Difference(r)' = Difference(r)
  BY <1>1 DEF Difference
<1>6. FoundInDifference'
  BY <1>1, <1>3, <1>5 DEF FoundInDifference
<1>7. DataInTable'
  BY <1>1, <1>4 DEF FindInv, DataInTable
<1> QED
  BY <1>6, <1>7 DEF FindInv

LEMMA NextFinds == BlindInv /\ FindInv /\ [Next]_vars => FindInv'
<1> SUFFICES ASSUME BlindInv, FindInv, [Next]_vars PROVE FindInv'
  OBVIOUS
<1>1. ASSUME NEW c \in Clients, NEW s \in Inputs, SetRawData(c, s) PROVE FindInv'
  BY <1>1, SetRawDataFinds
<1>2. ASSUME NEW a \in Clients, NEW b \in Clients, NEW k \in Keys, Request(a, b, k)
      PROVE  FindInv'
  BY <1>2, BeginFinds DEF Request, Parties
<1>3. CASE GenOmegas
  BY <1>3, QuietFinds DEF GenOmegas
<1>4. CASE ComputeCell
  BY <1>4, QuietFinds DEF ComputeCell
<1>5. CASE NextRow
  BY <1>5, QuietFinds DEF NextRow
<1>6. CASE DelegationOutput
  <2>1. session.helper \in Parties
    BY <1>6 DEF DelegationOutput, BlindInv, TypeOK, Parties
  <2> QED
    BY <1>6, <2>1, BeginFinds DEF DelegationOutput
<1>7. CASE SendQ
  BY <1>7, QuietFinds DEF SendQ
<1>8. CASE Intersect
  BY <1>8, IntersectFinds
<1>9. CASE UNCHANGED vars
  BY <1>9, QuietFinds DEF vars, data
<1> QED
  BY <1>1, <1>2, <1>3, <1>4, <1>5, <1>6, <1>7, <1>8, <1>9 DEF Next, SessionNext

LEMMA FindAlways == Spec => [](BlindInv /\ FindInv)
<1>1. Init => FindInv
  BY InitFinds
<1>2. BlindInv /\ FindInv /\ [Next]_vars => FindInv'
  BY NextFinds
<1> QED
  BY Invariant, <1>1, <1>2, PTL DEF Spec
\* A padded element in a table is a root of the polynomial of its bucket.
LEMMA TableRoot ==
  ASSUME FindInv, NEW c \in Clients, blinded[c] # NoMatrix,
         NEW r \in Rows, NEW e \in HeldIn(c, r)
  PROVE  /\ e \in Elements
         /\ Padded(e) \in F => EvalRoots(table[c][r], Padded(e)) = 0
<1> DEFINE s == rawData[c]
           place == placed[c]
           z == Padded(e)
<1>1. /\ s \in Seq(Elements) /\ place \in Placements(s) /\ Filled(s, place, table[c])
      /\ table[c] \in [Rows -> [1..Height -> TableRoots \cap F]]
  BY DEF FindInv, DataInTable
<1>2. place \in [DOMAIN s -> Rows]
  BY <1>1 DEF Placements
<1>3. PICK k \in DOMAIN s : s[k] = e /\ place[k] = r
  BY <1>2 DEF HeldIn, InBucket
<1> HIDE DEF s, place
<1>4. \E j \in 1..Height : table[c][r][j] = z
  <2> DEFINE tab == table[c]
  <2>1. s \in Seq(Elements) /\ Filled(s, place, tab)
    BY <1>1
  <2> HIDE DEF tab
  <2>2. \E j \in 1..Height : tab[place[k]][j] = Padded(s[k])
    BY <1>2, <2>1, SlotOf
  <2> QED BY <1>3, <2>2 DEF tab
<1>5. table[c][r] \in [1..Height -> F]
  BY <1>1
<1>6. z \in F => EvalRoots(table[c][r], z) = 0
  <2> HIDE DEF z
  <2> QED BY <1>4, <1>5, EvalAssumption
<1>7. e \in Elements
  BY <1>1, <1>3
<1> QED
  BY <1>6, <1>7

\* A common root of both tables is a root of what the requester interpolates.
LEMMA RootInterpolated ==
  ASSUME BlindInv, FindInv, pc = "done", 2 * Height < Degree, PointsDiffer,
         NEW r \in Rows, NEW z \in F,
         EvalRoots(table[session.helper][r], z) = 0,
         EvalRoots(table[session.requester][r], z) = 0
  PROVE  z \in RootsOf(Unknowns(Degree), Difference(r))
<1> DEFINE a == table[session.helper][r]
           b == table[session.requester][r]
           key == session.key
           plain == [c \in Cols |-> PlainValue(a, b, key, r, Unknowns(Degree)[c])]
           x == Eval(Omega(key, OmegaAIdx + Height * r), z)
           y == Eval(Omega(key, OmegaBIdx + Height * r), z)
<1>1. /\ session.helper \in Clients /\ session.requester \in Clients /\ key \in Keys
      /\ blinded[session.helper] # NoMatrix /\ blinded[session.requester] # NoMatrix
  BY DEF BlindInv, TypeOK, SessionInv
<1>2. /\ a \in [1..Height -> TableRoots \cap F]
      /\ b \in [1..Height -> TableRoots \cap F]
  BY <1>1 DEF FindInv, DataInTable
<1>3. x \in F /\ y \in F
  BY <1>1, OmegaType, EvalAssumption
<1>4. PlainValue(a, b, key, r, z) = Plus(Times(0, x), Times(0, y))
  BY DEF PlainValue
<1>5. Plus(Times(0, x), Times(0, y)) = 0
  <2> HIDE DEF x, y
  <2>1. 0 \in F
    BY DEF F
  <2>2. Times(0, x) = 0 /\ Times(0, y) = 0 /\ Plus(0, 0) = 0
    BY <1>3, <2>1, RingAssumption
  <2> QED
    BY <2>2
<1>6. \A c \in Cols : Minus(t[r][c], q[r][c]) = PlainValue(a, b, key, r, Unknowns(Degree)[c])
  BY MasksCancelled DEF MasksCancel, PlainCell
<1>7. Difference(r) = plain
  BY <1>6 DEF Difference
<1> HIDE DEF a, b, key, x, y
<1>8. z \in RootsOf(Unknowns(Degree), plain)
  BY <1>1, <1>2, <1>4, <1>5, InterpolationAssumption
<1> HIDE DEF plain
<1> QED
  BY <1>7, <1>8

\* Every element, but 0, both clients hold in the same bucket is found in it by
\* the requester, for every field, table size, data, secret, key and pseudorandom
\* function, and whatever bytes the hash reads: where an element with its padding
\* fits the field, and the evaluation points are more than the degree of the
\* product of two polynomials and all different.
THEOREM CommonAlwaysFound ==
  ASSUME PaddingFits, 2 * Height < Degree, PointsDiffer
  PROVE  Spec => []CommonFound
<1>1. ASSUME BlindInv, FindInv, pc = "done", NEW r \in Rows,
             NEW e \in (HeldIn(session.helper, r) \cap HeldIn(session.requester, r)) \ {0}
      PROVE  e \in setcap[r]
  <2> DEFINE h == session.helper
             c == session.requester
  <2>1. h \in Clients /\ c \in Clients /\ blinded[h] # NoMatrix /\ blinded[c] # NoMatrix
    BY <1>1 DEF BlindInv, TypeOK, SessionInv
  <2>2. e \in HeldIn(h, r) /\ e \in HeldIn(c, r)
    OBVIOUS
  <2>4. e \in Elements
    BY <1>1, <2>1, <2>2, TableRoot
  <2>5. e # 0 /\ Padded(e) \in F
    BY <2>4, PaddedValue
  <2>6. EvalRoots(table[h][r], Padded(e)) = 0
    BY <1>1, <2>1, <2>2, <2>5, TableRoot
  <2>7. EvalRoots(table[c][r], Padded(e)) = 0
    BY <1>1, <2>1, <2>2, <2>5, TableRoot
  <2>8. Padded(e) \in RootsOf(Unknowns(Degree), Difference(r))
    BY <1>1, <2>4, <2>5, <2>6, <2>7, RootInterpolated
  <2>9. e \in Found(RootsOf(Unknowns(Degree), Difference(r)))
    BY <2>4, <2>5, <2>8, PaddedFound
  <2>10. setcap[r] = Found(RootsOf(Unknowns(Degree), Difference(r)))
    BY <1>1, <2>4 DEF FindInv, FoundInDifference
  <2> QED
    BY <2>4, <2>9, <2>10
<1>2. BlindInv /\ FindInv => CommonFound
  BY <1>1 DEF CommonFound
<1> QED
  BY FindAlways, <1>2, PTL

-----------------------------------------------------------------------------

(* What is drawn.                                                           *)

USE SimulationAssumption

\* What a client's data is drawn from.
LEMMA ElementsBounded ==
  \E B \in Nat : Elements = 0..B
<1>1. RawDataBits \in Nat /\ RawDataBits \in 0..(FieldBits + SizeBits)
  BY FieldAssumption
<1>2. 2^RawDataBits \in Nat \ {0}
  BY <1>1, PowerAssumption
<1>3. 2^RawDataBits - 1 \in Nat
  BY <1>2
<1> QED BY <1>3 DEF Elements

\* The data of a client are N elements, those common to both clients first.
LEMMA DataDrawn ==
  ASSUME NEW k \in 0..N, NEW common \in RandomData(k), NEW own \in RandomData(N - k)
  PROVE  /\ Join(common, own) \in [1..N -> Elements]
         /\ \A i \in 1..N : Join(common, own)[i] = IF i <= k THEN common[i] ELSE own[i - k]
<1> DEFINE s == Join(common, own)
<1>1. common \in [1..k -> Elements] /\ own \in [1..(N - k) -> Elements] /\ N - k \in Nat
  BY DEF RandomData
<1>2. /\ common \in Seq(Elements) /\ Len(common) = k
      /\ own \in Seq(Elements) /\ Len(own) = N - k /\ k + (N - k) = N
  BY <1>1
<1>3. s \in Seq(Elements) /\ Len(s) = N
  <2>1. /\ common \o own \in Seq(Elements)
        /\ Len(common \o own) = Len(common) + Len(own)
    BY <1>2, ConcatProperties
  <2> QED BY <1>2, <2>1 DEF Join
<1>4. \A i \in 1..N : s[i] = IF i <= k THEN common[i] ELSE own[i - k]
  <2>1. \A i \in 1..(Len(common) + Len(own)) :
          (common \o own)[i] = IF i <= Len(common) THEN common[i] ELSE own[i - Len(common)]
    BY <1>2, ConcatProperties
  <2> QED BY <1>2, <2>1, Zenon DEF Join
<1> HIDE DEF s
<1>5. s \in [1..N -> Elements]
  BY <1>3
<1> QED BY <1>4, <1>5 DEF s

\* What a client holds twice is common data.
LEMMA TwiceIsCommon ==
  ASSUME NEW k \in 0..N, NEW common \in RandomData(k),
         NEW a \in RandomData(N - k), NEW b \in RandomData(N - k)
  PROVE  Shared(Join(common, a), Join(common, b), N)
<1> DEFINE s == Join(common, a)
           u == Join(common, b)
<1>1. /\ \A i \in 1..N : s[i] = IF i <= k THEN common[i] ELSE a[i - k]
      /\ \A i \in 1..N : u[i] = IF i <= k THEN common[i] ELSE b[i - k]
  BY DataDrawn
<1> HIDE DEF s, u
<1>2. /\ common \in [1..k -> Elements] /\ \A i, j \in 1..k : i < j => common[i] < common[j]
      /\ a \in [1..(N - k) -> Elements] /\ \A i, j \in 1..(N - k) : i < j => a[i] < a[j]
  BY DEF RandomData
<1>3. PICK B \in Nat : Elements = 0..B
  BY ElementsBounded
<1>4. ASSUME NEW i \in 1..N, NEW j \in 1..N, i < j, s[i] = s[j]
      PROVE  \E l \in 1..N : u[l] = s[i]
  <2>1. CASE i <= k
    BY <1>1, <2>1
  <2>2. CASE ~(i <= k)
    <3>1. i - k \in 1..(N - k) /\ j - k \in 1..(N - k) /\ i - k < j - k /\ ~(j <= k)
      BY <1>4, <2>2
    <3>2. a[i - k] < a[j - k] /\ a[i - k] \in Nat /\ a[j - k] \in Nat
      BY <1>2, <1>3, <3>1
    <3>3. s[i] = a[i - k] /\ s[j] = a[j - k]
      BY <1>1, <2>2, <3>1
    <3>4. a[i - k] = a[j - k]
      BY <1>4, <3>3
    <3> QED BY <3>2, <3>4
  <2> QED BY <2>1, <2>2
<1>5. ASSUME NEW i \in 1..N, NEW j \in 1..N, i # j, s[i] = s[j]
      PROVE  \E l \in 1..N : u[l] = s[i]
  <2>1. i < j \/ j < i
    BY <1>5
  <2> QED BY <1>4, <1>5, <2>1
<1> QED BY <1>5 DEF Shared, s, u

\* The intersection in the clear of the data that was drawn.
LEMMA PlainOfDrawn ==
  ASSUME Drawn, dataAlice # <<>>
  PROVE  IsCommon(PlainIntersection(dataAlice, dataBob), dataAlice, dataBob)
<1> PICK k \in 0..N : \E common \in RandomData(k), a, b \in RandomData(N - k) :
      dataAlice = Join(common, a) /\ dataBob = Join(common, b)
  BY DEF Drawn
<1>1. PICK common \in RandomData(k), a \in RandomData(N - k), b \in RandomData(N - k) :
        dataAlice = Join(common, a) /\ dataBob = Join(common, b)
  OBVIOUS
<1> DEFINE s == Join(common, a)
           u == Join(common, b)
<1>2. Shared(s, u, N) /\ Shared(u, s, N)
  BY TwiceIsCommon
<1>3. PICK B \in Nat : Elements = 0..B
  BY ElementsBounded
<1>4. s \in [1..N -> 0..B] /\ u \in [1..N -> 0..B] /\ N \in Nat
  BY <1>3, DataDrawn
<1> HIDE DEF s, u
<1>5. IsCommon(PlainIntersection(s, u), s, u)
  <2> HIDE SimulationAssumption
  <2> QED BY <1>2, <1>4, PlainIs
<1>6. dataAlice = s /\ dataBob = u
  BY <1>1 DEF s, u
<1> QED BY <1>5, <1>6

\* The verdict, where the data is drawn and the session run in order.
LEMMA VerdictIs == SimulationInv => VerdictRight
<1> SUFFICES ASSUME Drawn, InOrder, verdict # "none" PROVE VerdictRight
  BY DEF SimulationInv, VerdictRight
<1> DEFINE v == PlainIntersection(dataAlice, dataBob)
           common == Range(dataAlice) \cap Range(dataBob)
<1>1. dataAlice # <<>> /\ (verdict = "correct" <=> Matches(v))
  BY DEF InOrder
<1>2. Range(v) = common /\ Cardinality(common) = Len(v)
  BY <1>1, PlainOfDrawn DEF IsCommon
<1> HIDE DEF v
<1>3. (verdict = "correct") <=> (FoundElements = common /\ FoundLength = Cardinality(common))
  BY <1>1, <1>2 DEF Matches
<1> QED BY <1>3 DEF VerdictRight

-----------------------------------------------------------------------------

(* Steps of the program.                                                    *)

\* Before it starts nothing is drawn.
LEMMA SimInitDraws == SimInit => SimulationInv
BY DEF SimInit, Init, SimulationInv, Drawn, InOrder

\* Data is drawn before anything else happens.
LEMMA GenerateKeeps ==
  ASSUME SimulationInv, Generate
  PROVE  SimulationInv'
<1>1. /\ dataAlice = <<>> /\ \A c \in Clients : blinded[c] = NoMatrix
      /\ pc = "idle" /\ verdict = "none"
  BY DEF Generate, SimulationInv, InOrder
<1>2. Drawn'
  BY DEF Generate, Drawn
<1>3. UNCHANGED <<blinded, pc, verdict>>
  BY DEF Generate, vars
<1>4. InOrder'
  BY <1>1, <1>3 DEF InOrder
<1> QED BY <1>2, <1>4 DEF SimulationInv

\* A blinded matrix has rows.
LEMMA EvaluationsApart ==
  ASSUME NEW tab, NEW us, NEW secret
  PROVE  Evaluations(tab, us, secret) # NoMatrix
<1>1. 0 \in Rows /\ DOMAIN NoMatrix = {}
  BY DEF Rows, NoMatrix
<1>2. DOMAIN Evaluations(tab, us, secret) = Rows
  BY DEF Evaluations
<1> QED BY <1>1, <1>2

\* A client stores what was drawn for it.
LEMMA OutsourceKeeps ==
  ASSUME SimulationInv, TypeOK, rawData \in [Clients -> Seq(Elements)],
         OutsourceAlice \/ OutsourceBob
  PROVE  SimulationInv'
<1>1. UNCHANGED <<dataAlice, dataBob, verdict, pc, session, setcap>>
  BY DEF OutsourceAlice, OutsourceBob, simulation, SetRawData
<1>2. Drawn'
  BY <1>1 DEF SimulationInv, Drawn
<1>3. pc = "idle" /\ verdict = "none"
  BY DEF SimulationInv, InOrder, OutsourceAlice, OutsourceBob, SetRawData
<1>4. PICK c \in Clients : \E m :
        /\ m # NoMatrix
        /\ blinded' = [blinded EXCEPT ![c] = m]
        /\ rawData' = [rawData EXCEPT ![c] = IF c = Alice THEN dataAlice ELSE dataBob]
        /\ dataAlice # <<>>
        /\ c = Bob => blinded[Alice] # NoMatrix
  <2>1. CASE OutsourceAlice
    <3>1. PICK tab : blinded' = [blinded EXCEPT ![Alice] =
                        Evaluations(tab, GetUnknowns(Alice, Degree), Secret[Alice])]
      BY <2>1 DEF OutsourceAlice, SetRawData
    <3>2. Evaluations(tab, GetUnknowns(Alice, Degree), Secret[Alice]) # NoMatrix
      BY EvaluationsApart
    <3> QED BY <2>1, <3>1, <3>2 DEF OutsourceAlice, SetRawData
  <2>2. CASE OutsourceBob
    <3>1. PICK tab : blinded' = [blinded EXCEPT ![Bob] =
                        Evaluations(tab, GetUnknowns(Bob, Degree), Secret[Bob])]
      BY <2>2 DEF OutsourceBob, SetRawData
    <3>2. Evaluations(tab, GetUnknowns(Bob, Degree), Secret[Bob]) # NoMatrix
      BY EvaluationsApart
    <3> QED BY <2>2, <3>1, <3>2 DEF OutsourceBob, SetRawData, SimulationInv, InOrder
  <2> QED BY <2>1, <2>2
<1>5. DOMAIN blinded = Clients /\ DOMAIN rawData = Clients
  BY DEF TypeOK
<1>6. InOrder'
  BY <1>1, <1>3, <1>4, <1>5 DEF InOrder, SimulationInv
<1> QED BY <1>2, <1>6 DEF SimulationInv

\* Of a session, once begun, only its own variables change.
LEMMA SessionKeeps ==
  ASSUME SimulationInv, RequestBob \/ Computes
  PROVE  SimulationInv'
<1>1. UNCHANGED <<dataAlice, dataBob, verdict, rawData, blinded>>
  BY DEF RequestBob, Computes, Request, GenOmegas, ComputeCell, NextRow,
         DelegationOutput, SendQ, Intersect, simulation, data
<1>2. pc # "done" /\ verdict = "none"
  BY DEF SimulationInv, InOrder, RequestBob, Computes, Request, GenOmegas, ComputeCell,
         NextRow, DelegationOutput, SendQ, Intersect
<1>3. Drawn'
  BY <1>1 DEF SimulationInv, Drawn
<1>4. blinded[Alice] # NoMatrix
  BY DEF SimulationInv, InOrder, RequestBob, Computes, Request, GenOmegas, ComputeCell,
         NextRow, DelegationOutput, SendQ, Intersect
<1>5. session'.helper = Alice /\ session'.requester = Bob
  <2>1. CASE RequestBob
    BY <2>1 DEF RequestBob, Request
  <2>2. CASE Computes
    BY <2>2 DEF Computes, SimulationInv, InOrder, GenOmegas, ComputeCell,
         NextRow, DelegationOutput, SendQ, Intersect
  <2> QED BY <2>1, <2>2
<1>6. InOrder'
  BY <1>1, <1>2, <1>4, <1>5 DEF SimulationInv, InOrder
<1> QED BY <1>3, <1>6 DEF SimulationInv

\* The verdict is about the data and the elements found as they are.
LEMMA CheckKeeps ==
  ASSUME SimulationInv, Check
  PROVE  SimulationInv'
<1>1. /\ UNCHANGED <<dataAlice, dataBob, rawData, blinded, pc, session, setcap>>
      /\ pc = "done"
      /\ verdict' = IF Matches(PlainIntersection(dataAlice, dataBob))
                    THEN "correct" ELSE "wrong"
  BY DEF Check, vars
<1>2. Drawn'
  BY <1>1 DEF SimulationInv, Drawn
<1>3. FoundElements' = FoundElements /\ FoundLength' = FoundLength
  BY <1>1 DEF FoundElements, FoundLength
<1>4. (verdict' = "correct") <=> Matches(PlainIntersection(dataAlice, dataBob))'
  <2> DEFINE v == PlainIntersection(dataAlice, dataBob)
  <2>1. v' = v
    BY <1>1
  <2> HIDE DEF v
  <2>2. Matches(v)' <=> Matches(v)
    BY <1>3, <2>1 DEF Matches
  <2> QED BY <1>1, <2>2 DEF v
<1>5. InOrder'
  BY <1>1, <1>4 DEF SimulationInv, InOrder
<1> QED BY <1>2, <1>5 DEF SimulationInv

\* What the program does not touch.
LEMMA StutterKeeps ==
  ASSUME SimulationInv, UNCHANGED simVars
  PROVE  SimulationInv'
<1>1. UNCHANGED <<dataAlice, dataBob, verdict, rawData, blinded, pc, session, setcap>>
  BY DEF simVars, simulation, vars
<1>2. Drawn'
  BY <1>1 DEF SimulationInv, Drawn
<1>3. FoundElements' = FoundElements /\ FoundLength' = FoundLength
  BY <1>1 DEF FoundElements, FoundLength
<1> DEFINE v == PlainIntersection(dataAlice, dataBob)
<1>4. v' = v
  BY <1>1
<1> HIDE DEF v
<1>5. Matches(v)' <=> Matches(v)
  BY <1>3, <1>4 DEF Matches
<1>6. InOrder'
  BY <1>1, <1>5 DEF SimulationInv, InOrder, v
<1> QED BY <1>2, <1>6 DEF SimulationInv

-----------------------------------------------------------------------------

\* The data that is drawn may be given to setRawData().
LEMMA DrawnIsInput ==
  ASSUME Drawn, dataAlice # <<>>
  PROVE  dataAlice \in Inputs /\ dataBob \in Inputs
<1> PICK k \in 0..N : \E common \in RandomData(k), a, b \in RandomData(N - k) :
      dataAlice = Join(common, a) /\ dataBob = Join(common, b)
  BY DEF Drawn
<1>1. PICK common \in RandomData(k), a \in RandomData(N - k), b \in RandomData(N - k) :
        dataAlice = Join(common, a) /\ dataBob = Join(common, b)
  OBVIOUS
<1>2. dataAlice \in [1..N -> Elements] /\ dataBob \in [1..N -> Elements]
  BY <1>1, DataDrawn
<1> QED BY <1>2

\* Every step of the program is a step of a session, or none.
LEMMA StepOfSession ==
  ASSUME SimulationInv, [SimNext]_simVars
  PROVE  [Next]_vars
<1>1. CASE Generate
  BY <1>1 DEF Generate
<1>2. CASE OutsourceAlice
  <2>1. dataAlice \in Inputs /\ SetRawData(Alice, dataAlice) /\ Alice \in Clients
    BY <1>2, DrawnIsInput DEF OutsourceAlice, SimulationInv
  <2> QED BY <2>1 DEF Next
<1>3. CASE OutsourceBob
  <2>1. blinded[Alice] # NoMatrix /\ SetRawData(Bob, dataBob) /\ Bob \in Clients
    BY <1>3 DEF OutsourceBob
  <2>2. dataAlice # <<>>
    BY <2>1 DEF SimulationInv, InOrder
  <2>3. dataBob \in Inputs
    BY <2>2, DrawnIsInput DEF SimulationInv
  <2> QED BY <2>1, <2>3 DEF Next
<1>4. CASE RequestBob
  <2>1. Alice \in Clients /\ Bob \in Clients /\ \E key \in Keys : Request(Alice, Bob, key)
    BY <1>4 DEF RequestBob
  <2> QED BY <2>1 DEF Next, SessionNext
<1>5. CASE Computes
  BY <1>5 DEF Computes, Next, SessionNext
<1>6. CASE Check
  BY <1>6 DEF Check
<1>7. CASE UNCHANGED simVars
  BY <1>7 DEF simVars, vars
<1> QED BY <1>1, <1>2, <1>3, <1>4, <1>5, <1>6, <1>7 DEF SimNext

\* Every step of the program keeps its order.
LEMMA SimStep ==
  SimulationInv /\ TypeOK /\ DataInTable /\ [SimNext]_simVars => SimulationInv'
BY GenerateKeeps, OutsourceKeeps, SessionKeeps, CheckKeeps, StutterKeeps
   DEF SimNext, DataInTable

\* eopsisimul runs a session of its two clients, whatever it draws: every
\* theorem about Blinding is one about the program.
THEOREM SimulationIsSession == SimSpec => Spec
<1> DEFINE I == SimulationInv /\ BlindInv /\ FindInv
<1>1. SimInit => Init /\ I
  BY InitInv, InitFinds, SimInitDraws DEF SimInit
<1>2. I /\ [SimNext]_simVars => [Next]_vars
  BY StepOfSession
<1>3. I /\ [SimNext]_simVars => I'
  <2> SUFFICES ASSUME I, [SimNext]_simVars PROVE I'
    OBVIOUS
  <2>1. [Next]_vars
    BY <1>2
  <2>2. BlindInv' /\ FindInv'
    BY <2>1, NextInv, NextFinds
  <2>3. SimulationInv'
    BY SimStep DEF BlindInv, FindInv
  <2> QED BY <2>2, <2>3
<1> HIDE DEF I
<1> QED BY <1>1, <1>2, <1>3, PTL DEF SimSpec, Spec

\* What holds of the program and of its session, always.
LEMMA SimulationAlways == SimSpec => [](SimulationInv /\ BlindInv /\ FindInv)
<1>1. SimInit => SimulationInv
  BY SimInitDraws
<1>2. SimulationInv /\ BlindInv /\ FindInv /\ [SimNext]_simVars => SimulationInv'
  BY SimStep DEF BlindInv, FindInv
<1>3. Spec => [](BlindInv /\ FindInv)
  BY FindAlways
<1> QED BY <1>1, <1>2, <1>3, SimulationIsSession, PTL DEF SimSpec

\* The program prints "correct" exactly when the vector Bob holds lists every
\* common element once and nothing else, for any number of elements and buckets,
\* whatever is drawn, and whatever the session finds.
THEOREM VerdictAlwaysRight == SimSpec => []VerdictRight
BY SimulationAlways, VerdictIs, PTL

\* A run that is judged wrong lists an element twice, lists one that is not common,
\* misses 0, or misses an element the two clients have put in different buckets:
\* the protocol and the test together miss no other, where elements with their
\* padding fit the field and the points are enough and different.
THEOREM WrongExplained ==
  ASSUME PaddingFits, 2 * Height < Degree, PointsDiffer
  PROVE  SimSpec => [](verdict = "wrong" =>
           \/ FoundLength # Cardinality(FoundElements)
           \/ \E e \in FoundElements : e \notin Range(dataAlice) \cap Range(dataBob)
           \/ \E e \in (Range(dataAlice) \cap Range(dataBob)) \ FoundElements :
                e = 0 \/ \A r \in Rows : e \notin HeldIn(Alice, r) \cap HeldIn(Bob, r))
<1> DEFINE Wrong == verdict = "wrong" =>
             \/ FoundLength # Cardinality(FoundElements)
             \/ \E e \in FoundElements : e \notin Range(dataAlice) \cap Range(dataBob)
             \/ \E e \in (Range(dataAlice) \cap Range(dataBob)) \ FoundElements :
                  e = 0 \/ \A r \in Rows : e \notin HeldIn(Alice, r) \cap HeldIn(Bob, r)
<1>1. ASSUME SimulationInv, BlindInv, CommonFound, verdict = "wrong",
             FoundLength = Cardinality(FoundElements),
             ~ \E e \in FoundElements : e \notin Range(dataAlice) \cap Range(dataBob)
      PROVE  \E e \in (Range(dataAlice) \cap Range(dataBob)) \ FoundElements :
               e = 0 \/ \A r \in Rows : e \notin HeldIn(Alice, r) \cap HeldIn(Bob, r)
  <2> DEFINE common == Range(dataAlice) \cap Range(dataBob)
  <2>1. pc = "done" /\ session.helper = Alice /\ session.requester = Bob
    BY <1>1 DEF SimulationInv, InOrder
  <2>2. FoundElements # common
    BY <1>1, VerdictIs DEF VerdictRight
  <2> HIDE DEF common
  <2>3. FoundElements \subseteq common
    BY <1>1 DEF common
  <2>4. PICK e \in common : e \notin FoundElements
    BY <2>2, <2>3
  <2>5. ASSUME NEW r \in Rows, e \in HeldIn(Alice, r) \cap HeldIn(Bob, r), e # 0
        PROVE  FALSE
    <3>1. e \in setcap[r]
      BY <1>1, <2>1, <2>5 DEF CommonFound
    <3> QED BY <2>4, <2>5, <3>1 DEF FoundElements
  <2>6. e = 0 \/ \A r \in Rows : e \notin HeldIn(Alice, r) \cap HeldIn(Bob, r)
    BY <2>5
  <2>7. e \in common \ FoundElements
    BY <2>4
  <2> QED BY <2>6, <2>7 DEF common
<1>2. SimulationInv /\ BlindInv /\ CommonFound => Wrong
  BY <1>1
<1>3. Spec => []CommonFound
  BY CommonAlwaysFound
<1> HIDE DEF Wrong
<1>4. SimSpec => []Wrong
  BY <1>2, <1>3, SimulationIsSession, SimulationAlways, PTL
<1> QED BY <1>4 DEF Wrong
=============================================================================
