---------------------------- MODULE StrIntProofs -----------------------------
(***************************************************************************)
(* Theorems about StrInt, for every number of cells, every size of a byte     *)
(* and every string: adding the cells in pairs makes the number the bytes     *)
(* stand for, whatever the cells held before.                                *)
(***************************************************************************)
EXTENDS StrInt, Induction

USE SizeAssumption

\* The sum of the first j cells.
CellSum(cells, j) == SumTo([i \in 1..j |-> cells[i - 1]], j)

\* The cells hold natural numbers.
CellsOK == b \in [Cells -> Nat]

-----------------------------------------------------------------------------

(* One round                                                               *)

\* A round keeps the sum of the cells that count: of an even number the second
\* half is added to the first, of an odd number one cell is left over.
LEMMA HalvedSum ==
  ASSUME NEW cells \in [Cells -> Nat], NEW j \in Nat, j >= 2, j <= Length
  PROVE  /\ Halved(cells, j) \in [Cells -> Nat]
         /\ CellSum(Halved(cells, j), (j + 1) \div 2) = CellSum(cells, j)
<1> DEFINE h == j \div 2
           d == Halved(cells, j)
           low == [i \in 1..h |-> cells[i - 1]]
           high == [i \in 1..h |-> cells[h + i - 1]]
           all == [i \in 1..j |-> cells[i - 1]]
           new == [i \in 1..((j + 1) \div 2) |-> d[i - 1]]
<1>1. /\ h \in Nat /\ h >= 1 /\ (j % 2 = 0 \/ j % 2 = 1)
      /\ j % 2 = 0 => j = h + h /\ (j + 1) \div 2 = h
      /\ j % 2 = 1 => j = h + h + 1 /\ (j + 1) \div 2 = h + 1
  OBVIOUS
<1>2. d \in [Cells -> Nat] /\ \A i \in Cells :
        d[i] = IF i < h THEN cells[i] + cells[h + i]
               ELSE IF i = h /\ j % 2 = 1 THEN cells[j - 1] ELSE cells[i]
  <2>1. j - 1 \in Cells /\ \A i \in Cells : i < h => h + i \in Cells
    BY <1>1 DEF Cells
  <2> QED
    BY <2>1 DEF Halved
<1> HIDE DEF d, h
<1>3. /\ \A i \in 1..h : i - 1 \in Cells /\ h + i - 1 \in Cells /\ i - 1 < h
      /\ \A i \in 1..j : i - 1 \in Cells
  BY <1>1 DEF Cells
<1>4. SumTo(new, h) = SumTo(low, h) + SumTo(high, h)
  <2>1. ASSUME NEW i \in 1..h
        PROVE  low[i] \in Nat /\ high[i] \in Nat /\ new[i] = low[i] + high[i]
    <3>1. i - 1 \in Cells /\ h + (i - 1) = h + i - 1 /\ i - 1 < h
      BY <1>1, <1>3
    <3>2. d[i - 1] = cells[i - 1] + cells[h + (i - 1)]
      BY <1>2, <3>1
    <3>3. i \in 1..((j + 1) \div 2)
      BY <1>1
    <3> QED
      BY <1>3, <3>1, <3>2, <3>3
  <2> HIDE DEF low, high, new
  <2> QED
    BY <1>1, <2>1, SumPlus
<1>5. SumTo(all, h + h) = SumTo(low, h) + SumTo(high, h)
  <2>1. /\ \A i \in 1..(h + h) : all[i] \in Nat
        /\ \A i \in 1..h : high[i] = all[h + i] /\ all[i] \in Nat /\ all[i] = low[i]
    BY <1>1, <1>3
  <2> HIDE DEF low, high, all
  <2>2. SumTo(all, h + h) = SumTo(all, h) + SumTo(high, h)
    BY <1>1, <2>1, SumSplit
  <2>3. SumTo(all, h) = SumTo(low, h)
    BY <1>1, <2>1, SumSame
  <2> QED
    BY <2>2, <2>3
<1>6. SumTo(new, (j + 1) \div 2) = SumTo(all, j)
  <2>1. CASE j % 2 = 0
    BY <1>1, <1>4, <1>5, <2>1
  <2>2. CASE j % 2 = 1
    <3>1. j = h + h + 1 /\ (j + 1) \div 2 = h + 1 /\ h \in Cells /\ j - 1 \in Cells
      BY <1>1, <2>2 DEF Cells
    <3>2. new[h + 1] = cells[j - 1] /\ all[h + h + 1] = cells[j - 1]
      BY <1>1, <1>2, <2>2, <3>1
    <3>3. \A i \in 1..(h + h + 1) : all[i] \in Nat
      BY <1>3, <3>1
    <3>4. \A i \in 1..(h + 1) : new[i] \in Nat
      <4>1. \A i \in 1..(h + 1) : i - 1 \in Cells
        BY <1>1, <3>1 DEF Cells
      <4> QED
        BY <1>2, <3>1, <4>1
    <3> HIDE DEF new, all
    <3>5. SumTo(new, h + 1) = SumTo(new, h) + new[h + 1]
      BY <1>1, <3>4, SumNext
    <3>6. SumTo(all, h + h + 1) = SumTo(all, h + h) + all[h + h + 1]
      BY <1>1, <3>3, SumNext
    <3> QED
      BY <1>4, <1>5, <3>1, <3>2, <3>5, <3>6
  <2> QED
    BY <1>1, <2>1, <2>2
<1> QED
  BY <1>2, <1>6 DEF CellSum, d
-----------------------------------------------------------------------------

(* The rounds                                                              *)

\* What a round starts from: so many cells left to add.
Round == [j : Nat, cells : [Cells -> Nat]]

\* A string of bytes that can be given to set().
LEMMA Bytes ==
  ASSUME NEW bytes \in ByteStrings
  PROVE  /\ Dim(bytes) \in 0..Length
         /\ bytes # <<>> => Dim(bytes) >= 1
         /\ \A i \in 1..Dim(bytes) : bytes[i] \in Nat
<1>1. PICK n \in 0..MaxBytes : bytes \in [1..n -> 0..(ByteBase - 1)]
  BY DEF ByteStrings
<1>2. n \in Nat /\ Len(bytes) = n
  BY <1>1, ArgumentAssumption
<1>3. bytes # <<>> => n # 0
  BY <1>1
<1>4. /\ Dim(bytes) \in 0..Length /\ Dim(bytes) <= n
      /\ bytes # <<>> => Dim(bytes) >= 1
  BY <1>2, <1>3 DEF Dim
<1>5. \A i \in 1..n : bytes[i] \in Nat
  BY <1>1
<1> QED
  BY <1>2, <1>4, <1>5

\* The bytes in their cells add up to the number, whatever the other cells hold.
LEMMA SpreadSum ==
  ASSUME CellsOK, NEW bytes \in ByteStrings
  PROVE  /\ Spread(bytes) \in [Cells -> Nat]
         /\ CellSum(Spread(bytes), Dim(bytes)) = Number(bytes)
<1> DEFINE m == Dim(bytes)
           a == [i \in 1..m |-> Spread(bytes)[i - 1]]
           c == [i \in 1..m |-> bytes[i] * ByteBase ^ (i - 1)]
<1>1. m \in 0..Length /\ \A i \in 1..m : bytes[i] \in Nat
  BY Bytes
<1> HIDE DEF m
<1>2. ASSUME NEW i \in Cells, i < m
      PROVE  bytes[i + 1] * ByteBase ^ i \in Nat
  <2>1. i + 1 \in 1..m /\ i \in 0..(Length - 1)
    BY <1>1, <1>2 DEF Cells
  <2>2. bytes[i + 1] \in Nat /\ ByteBase ^ i \in Nat
    BY <1>1, <2>1, PowerAssumption
  <2> QED
    BY <2>2
<1>3. Spread(bytes) \in [Cells -> Nat]
  BY <1>2 DEF Spread, CellsOK, m
<1>4. ASSUME NEW i \in 1..m PROVE a[i] = c[i] /\ a[i] \in Nat
  <2>1. i - 1 \in Cells /\ i - 1 < m /\ i - 1 + 1 = i
    BY <1>1 DEF Cells
  <2>2. Spread(bytes)[i - 1] = bytes[i] * ByteBase ^ (i - 1)
    BY <2>1 DEF Spread, m
  <2> QED
    BY <1>3, <2>1, <2>2
<1> HIDE DEF a, c
<1>5. SumTo(a, m) = SumTo(c, m)
  BY <1>1, <1>4, SumSame
<1> QED
  BY <1>3, <1>5 DEF CellSum, Number, a, c, m

\* One cell is left after fewer rounds than there are cells, and it holds the
\* number.
LEMMA SummedNumber ==
  ASSUME CellsOK, NEW bytes \in ByteStrings
  PROVE  /\ Summed(bytes) \in [Cells -> Nat]
         /\ bytes # <<>> => Summed(bytes)[0] = Number(bytes)
<1> DEFINE first == [j |-> Dim(bytes), cells |-> Spread(bytes)]
           After(r) == IF r.j <= 1 THEN r
                       ELSE [j |-> (r.j + 1) \div 2, cells |-> Halved(r.cells, r.j)]
           Rounds(f) == f = [n \in Nat |-> IF n = 0 THEN first ELSE After(f[n - 1])]
           Left(n, r) == /\ r \in Round
                         /\ r.j <= Length /\ (bytes # <<>> => r.j >= 1)
                         /\ r.j <= 1 \/ r.j + n <= Length
                         /\ CellSum(r.cells, r.j) = Number(bytes)
           g == CHOOSE f : Rounds(f)
<1>1. Left(0, first)
  BY SpreadSum, Bytes DEF Round
<1>2. ASSUME NEW n \in Nat, NEW r, Left(n, r) PROVE Left(n + 1, After(r))
  <2>1. CASE r.j <= 1
    BY <1>2, <2>1 DEF Round
  <2>2. CASE ~(r.j <= 1)
    <3>1. r.cells \in [Cells -> Nat] /\ r.j \in Nat /\ r.j >= 2 /\ r.j <= Length
          /\ r.j + n <= Length
      BY <1>2, <2>2 DEF Round
    <3>2. /\ Halved(r.cells, r.j) \in [Cells -> Nat]
          /\ CellSum(Halved(r.cells, r.j), (r.j + 1) \div 2) = CellSum(r.cells, r.j)
      BY <3>1, HalvedSum
    <3>3. /\ (r.j + 1) \div 2 \in Nat /\ (r.j + 1) \div 2 >= 1
          /\ (r.j + 1) \div 2 + 1 <= r.j
      BY <3>1
    <3>4. After(r) = [j |-> (r.j + 1) \div 2, cells |-> Halved(r.cells, r.j)]
      BY <2>2
    <3> HIDE DEF After
    <3> QED
      BY <1>2, <3>1, <3>2, <3>3, <3>4 DEF Round
  <2> QED
    BY <2>1, <2>2
<1>3. \E f : Rounds(f)
  <2> DEFINE good == {r \in Round : CellSum(r.cells, r.j) = Number(bytes) /\ r.j \in 0..Length}
             step == [n \in Nat |-> [r \in good |-> After(r)]]
  <2>1. first \in good
    BY SpreadSum, Bytes DEF Round
  <2>2. \A r \in good : After(r) \in good
    BY HalvedSum DEF Round
  <2> HIDE DEF good, After, first
  <2>3. step \in [Nat -> [good -> good]]
    BY <2>2
  <2>4. \A n \in Nat : \A r \in good : step[n][r] = After(r)
    OBVIOUS
  <2> HIDE DEF step
  <2>5. PICK f : Recursive(f, good, first, step)
    BY <2>1, <2>3, RecursiveExists DEF HasRecursive
  <2>6. f \in [Nat -> good] /\ f[0] = first /\ \A n \in Nat : f[n + 1] = After(f[n])
    <3>1. f \in [Nat -> good] /\ f[0] = first /\ \A n \in Nat : f[n + 1] = step[n + 1][f[n]]
      BY <2>5 DEF Recursive
    <3>2. \A n \in Nat : n + 1 \in Nat /\ f[n] \in good
      BY <3>1
    <3> QED
      BY <2>4, <3>1, <3>2
  <2>7. ASSUME NEW n \in Nat, n # 0 PROVE f[n] = After(f[n - 1])
    <3>1. n - 1 \in Nat /\ (n - 1) + 1 = n
      BY <2>7
    <3> QED
      BY <2>6, <3>1
  <2>8. Rounds(f)
    BY <2>6, <2>7
  <2> QED
    BY <2>8
<1>4. Rounds(g)
  <2> HIDE DEF Rounds
  <2> QED
    BY <1>3, Zenon
<1>5. Summed(bytes) = g[Length].cells
  BY Zenon DEF Summed
<1> HIDE DEF g
<1>6. g[0] = first /\ \A n \in Nat : g[n + 1] = After(g[n])
  <2> HIDE DEF first, After
  <2>1. \A n \in Nat : n + 1 # 0 /\ n + 1 - 1 = n
    OBVIOUS
  <2> QED
    BY <1>4, <2>1
<1>7. \A n \in Nat : Left(n, g[n])
  <2> HIDE DEF Left, After, first
  <2> DEFINE P == {n \in Nat : Left(n, g[n])}
  <2>1. 0 \in P
    BY <1>1, <1>6
  <2>2. \A n \in Nat : n \in P => n + 1 \in P
    BY <1>2, <1>6
  <2>3. Nat \subseteq P
    <3> HIDE DEF P
    <3> QED
      BY <2>1, <2>2, AllNat
  <2> QED
    BY <2>3
<1>8. /\ g[Length].cells \in [Cells -> Nat]
      /\ bytes # <<>> => CellSum(g[Length].cells, 1) = Number(bytes)
  <2>1. Left(Length, g[Length])
    <3> HIDE DEF Left
    <3> QED
      BY <1>7
  <2> QED
    <3>1. g[Length].j <= 1 /\ (bytes # <<>> => g[Length].j = 1)
      BY <2>1 DEF Round
    <3> QED
      BY <2>1, <3>1 DEF Round
<1>9. ASSUME NEW cells \in [Cells -> Nat] PROVE CellSum(cells, 1) = cells[0]
  <2> DEFINE a == [i \in 1..1 |-> cells[i - 1]]
  <2>1. 0 \in Cells
    BY DEF Cells
  <2>2. a[1] = cells[0] /\ \A i \in 1..(0 + 1) : a[i] \in Nat
    BY <2>1
  <2> HIDE DEF a
  <2>3. SumTo(a, 0 + 1) = SumTo(a, 0) + a[0 + 1]
    BY <2>2, SumNext
  <2>4. SumTo(a, 1) = cells[0]
    BY <2>1, <2>2, <2>3, SumZero
  <2> QED
    BY <2>4 DEF CellSum, a
<1> QED
  BY <1>5, <1>8, <1>9

-----------------------------------------------------------------------------

(* The theorem                                                             *)

\* The cells hold natural numbers in every state.
LEMMA CellsAlwaysOK == Spec => []CellsOK
<1>1. Init => CellsOK
  BY DEF Init, CellsOK
<1>2. CellsOK /\ [Next]_vars => CellsOK'
  <2> SUFFICES ASSUME CellsOK, [Next]_vars PROVE CellsOK'
    OBVIOUS
  <2>1. ASSUME NEW bytes \in ByteStrings, SetBytes(bytes) PROVE CellsOK'
    BY <2>1, SummedNumber DEF SetBytes, CellsOK
  <2>2. ASSUME NEW n \in Addends, SetLong(n) \/ Add(n) PROVE CellsOK'
    <3>1. n \in Nat
      BY ArgumentAssumption
    <3> QED
      BY <2>2, <3>1 DEF SetLong, Add, CellsOK
  <2>3. CASE Inc
    BY <2>3 DEF Inc, CellsOK
  <2>4. ASSUME NEW hasBuffer \in BOOLEAN, ToBytes(hasBuffer) PROVE CellsOK'
    BY <2>4 DEF ToBytes, CellsOK
  <2>5. CASE UNCHANGED vars
    BY <2>5 DEF vars, CellsOK
  <2> QED
    BY <2>1, <2>2, <2>3, <2>4, <2>5 DEF Next
<1> QED
  BY <1>1, <1>2, PTL DEF Spec

\* Whatever operations came before, set() makes of every string that is not
\* empty the number it stands for, for every number of cells and every string.
THEOREM SetIsNumberAlways == Spec => []SetIsNumber
<1>1. CellsOK => SetIsNumber
  BY SummedNumber DEF SetIsNumber
<1> QED
  BY CellsAlwaysOK, <1>1, PTL
=============================================================================
