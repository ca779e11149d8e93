-------------------------- MODULE PolynomialsProofs --------------------------
(***************************************************************************)
(* Theorems about Polynomials, for batches of any number and length:         *)
(*   - however the object is used, its polynomials are as many as n says;     *)
(*   - used in the order of the header, it leaves its arrays in one way only,  *)
(*     gives the roots of the batch it was given last, and ends the process    *)
(*     only for a row that has no monic polynomial or no polynomial at all.   *)
(***************************************************************************)
EXTENDS Polynomials, TLAPS

USE BatchAssumption

-----------------------------------------------------------------------------

\* A function on 1..k is a sequence of length k.
LEMMA IsSequence ==
  ASSUME NEW k \in Nat, NEW S, NEW s \in [1..k -> S]
  PROVE  s \in Seq(S) /\ Len(s) = k
OBVIOUS

\* The polynomials of a batch, in order, all of them monic or none.
LEMMA BatchPolynomials ==
  ASSUME NEW b \in Seq(Rows)
  PROVE  /\ Interpolated(b) \in Seq(Polynomial)
         /\ Len(Interpolated(b)) = Len(b)
         /\ \A j \in 1..Len(b) : /\ Interpolated(b)[j] \in Polynomial
                                 /\ Interpolated(b)[j].row = b[j]
<1>1. Len(b) \in Nat /\ \A j \in 1..Len(b) : b[j] \in Rows
  OBVIOUS
<1>2. Interpolated(b) \in [1..Len(b) -> Polynomial]
  BY <1>1 DEF Interpolated, Polynomial
<1>3. QED
  BY <1>1, <1>2, IsSequence DEF Interpolated

\* makeMonic() keeps every polynomial's row.
LEMMA MonicPolynomials ==
  ASSUME NEW k \in Nat, NEW s, Len(s) = k, \A j \in 1..k : s[j] \in Polynomial
  PROVE  /\ Monic(s) \in Seq(Polynomial)
         /\ Len(Monic(s)) = k
         /\ \A j \in 1..k : /\ Monic(s)[j].row = s[j].row
                            /\ Monic(s)[j].monic = (s[j].row \notin Zeros)
<1>1. \A j \in 1..k : [s[j] EXCEPT !.monic = s[j].row \notin Zeros]
                        = [row |-> s[j].row, monic |-> (s[j].row \notin Zeros)]
  BY DEF Polynomial
<1>2. Monic(s) = [j \in 1..k |-> [row |-> s[j].row, monic |-> (s[j].row \notin Zeros)]]
  BY <1>1 DEF Monic
<1>3. Monic(s) \in [1..k -> Polynomial]
  BY <1>2 DEF Polynomial
<1>4. QED
  BY <1>2, <1>3, IsSequence

\* The factors of a batch are those of its rows.
LEMMA FactoredRows ==
  ASSUME NEW k \in Nat, NEW s, Len(s) = k, \A j \in 1..k : s[j] \in Polynomial
  PROVE  /\ Factored(s) \in Seq(Rows)
         /\ Len(Factored(s)) = k
         /\ \A j \in 1..k : Factored(s)[j] = s[j].row
<1>1. Factored(s) \in [1..k -> Rows]
  BY DEF Factored, Polynomial
<1>2. QED
  BY <1>1, IsSequence DEF Factored

\* A new array.
LEMMA NewArray ==
  ASSUME NEW k \in Nat, NEW S
  PROVE  /\ IsArray(New(k), S \cup {Empty})
         /\ New(k) # Null /\ Len(New(k)[1]) = k
<1> DEFINE array == [j \in 1..k |-> Empty]
<1>1. array \in [1..k -> S \cup {Empty}]
  OBVIOUS
<1>2. array \in Seq(S \cup {Empty}) /\ Len(array) = k
  BY <1>1, IsSequence
<1>3. QED
  BY <1>2 DEF New, IsArray, Null

\* Writing changes no length.
LEMMA WrittenArray ==
  ASSUME NEW S, NEW pointer, IsArray(pointer, S), NEW entries \in Seq(S),
         Len(entries) <= Len(pointer[1])
  PROVE  /\ IsArray(Written(pointer, entries), S)
         /\ pointer # Null /\ Written(pointer, entries) # Null
         /\ Len(Written(pointer, entries)[1]) = Len(pointer[1])
         /\ \A j \in 1..Len(entries) : Written(pointer, entries)[1][j] = entries[j]
<1> DEFINE array == [j \in 1..Len(pointer[1]) |->
                       IF j <= Len(entries) THEN entries[j] ELSE pointer[1][j]]
<1>1. pointer[1] \in Seq(S) /\ Len(pointer) = 1 /\ Len(pointer[1]) \in Nat
  BY DEF IsArray
<1>2. pointer # Null
  <2>1. Len(<<>>) # 1
    OBVIOUS
  <2>2. QED
    BY <1>1, <2>1, Zenon DEF Null
<1>3. array \in [1..Len(pointer[1]) -> S]
  BY <1>1
<1>4. array \in Seq(S) /\ Len(array) = Len(pointer[1])
  BY <1>1, <1>3, IsSequence
<1>5. Written(pointer, entries) = <<array>>
  BY <1>2 DEF Written
<1> HIDE DEF array
<1>6. /\ Len(<<array>>) = 1 /\ <<array>>[1] = array /\ <<array>> # Null
  BY DEF Null
<1>7. \A j \in 1..Len(entries) : array[j] = entries[j]
  BY <1>1 DEF array
<1>8. QED
  BY <1>2, <1>4, <1>5, <1>6, <1>7 DEF IsArray

-----------------------------------------------------------------------------

(* The inductive invariant.                                                *)

LEMMA InitInv == Init => PolyInv
<1> SUFFICES ASSUME Init PROVE PolyInv
  OBVIOUS
<1>1. /\ n = 0 /\ polynomials = Null /\ factorPairs = Null /\ roots = <<>>
      /\ pc = "ready" /\ ordered \in BOOLEAN
      /\ stage = "empty" /\ batch \in [x : Points, y : {<<>>}] /\ last = "none"
  BY DEF Init
<1>2. Len(<<>>) = 0 /\ <<>> \in Seq(Rows) /\ <<>> \in Seq(Rows \cup {Empty})
  OBVIOUS
<1>3. batch.y = <<>> /\ batch \in [x : Points, y : Seq(Rows)]
  BY <1>1, <1>2
<1>4. TypeOK
  BY <1>1, <1>2, <1>3 DEF TypeOK, Stages, Calls
<1>5. Allocated
  BY <1>1 DEF Allocated
<1>6. StageHolds
  BY <1>1, <1>2, <1>3 DEF StageHolds
<1>7. QED
  BY <1>1, <1>4, <1>5, <1>6 DEF PolyInv, UndefinedOnlyUnfactorised, EndsForBadRows

\* A call that does not come back changes nothing else: it is of no account for
\* an application that was not orderly, or made the one call the header forgets.
LEMMA UndefinedStep ==
  ASSUME PolyInv, Undefined, ordered' = ordered, last' \in Calls,
         ordered => /\ last' = "findIntersectionOf" /\ ~Covers(factorPairs, n)
                    /\ stage \in {"interpolated", "monic"}
  PROVE  PolyInv'
<1>1. pc' = "undefined" /\ UNCHANGED <<n, polynomials, factorPairs, roots, stage, batch>>
  BY DEF Undefined, arrays
<1>2. TypeOK'
  BY <1>1 DEF PolyInv, TypeOK, IsArray
<1>3. Allocated'
  BY <1>1 DEF PolyInv, Allocated
<1>4. (ordered /\ pc = "undefined")' =>
         /\ last' = "findIntersectionOf"
         /\ stage' \in {"interpolated", "monic"} /\ ~Covers(factorPairs', n')
  BY <1>1
<1>5. UndefinedOnlyUnfactorised'
  BY <1>4, Zenon DEF UndefinedOnlyUnfactorised, Covers
<1>6. QED
  BY <1>1, <1>2, <1>3, <1>5 DEF PolyInv, StageHolds, EndsForBadRows

\* The process may end for a batch with a row that NTL refuses.
LEMMA EndsStep ==
  ASSUME PolyInv, NEW c \in [x : Points, y : Seq(Rows)], Ends(c),
         ordered' = ordered, last' \in Calls,
         ordered => \E j \in 1..Len(c.y) : c.y[j] \in Zeros \/ Refuses(c, j)
  PROVE  PolyInv'
<1>1. /\ pc' = "ended" /\ batch' = c
      /\ UNCHANGED <<n, polynomials, factorPairs, roots, stage>>
  BY DEF Ends, arrays
<1>2. TypeOK'
  BY <1>1 DEF PolyInv, TypeOK, IsArray
<1>3. Allocated'
  BY <1>1 DEF PolyInv, Allocated
<1>4. EndsForBadRows'
  BY <1>1 DEF EndsForBadRows, Refuses
<1>5. QED
  BY <1>1, <1>2, <1>3, <1>4 DEF PolyInv, StageHolds, UndefinedOnlyUnfactorised

\* A call that comes back leaves the object ready.
LEMMA ReadyStep ==
  ASSUME pc' = "ready", TypeOK', Allocated', StageHolds'
  PROVE  PolyInv'
BY DEF PolyInv, UndefinedOnlyUnfactorised, EndsForBadRows

\* The array of polynomials a batch is written to.
LEMMA ResizedPolynomials ==
  ASSUME PolyInv, NEW b \in Seq(Rows), NEW array, array = Resized(polynomials, Len(b))
  PROVE  /\ Covers(array, Len(b))
         /\ array = Null => Len(b) = 0 /\ factorPairs = Null
         /\ array # Null => /\ IsArray(array, Polynomial \cup {Empty})
                            /\ Len(array[1]) = Len(b)
<1>1. Len(b) \in Nat /\ n \in Nat
  BY DEF PolyInv, TypeOK
<1>2. CASE n # Len(b)
  <2>1. array = New(Len(b))
    BY <1>2 DEF Resized
  <2>2. /\ IsArray(New(Len(b)), Polynomial \cup {Empty})
        /\ New(Len(b)) # Null /\ Len(New(Len(b))[1]) = Len(b)
    BY <1>1, NewArray
  <2>3. QED
    BY <1>1, <2>1, <2>2 DEF Covers
<1>3. CASE n = Len(b)
  <2>1. array = polynomials
    BY <1>3 DEF Resized
  <2>2. QED
    BY <1>1, <1>3, <2>1 DEF Covers, PolyInv, TypeOK, Allocated
<1>4. QED
  BY <1>2, <1>3

\* What is written there.
LEMMA WrittenPolynomials ==
  ASSUME NEW array, NEW k \in Nat, NEW polys \in Seq(Polynomial), Len(polys) = k,
         array = Null => k = 0,
         array # Null => IsArray(array, Polynomial \cup {Empty}) /\ Len(array[1]) = k
  PROVE  /\ array = Null <=> Written(array, polys) = Null
         /\ \/ Written(array, polys) = Null
            \/ IsArray(Written(array, polys), Polynomial \cup {Empty})
         /\ Written(array, polys) # Null => Len(Written(array, polys)[1]) = k
         /\ \A j \in 1..k : /\ Written(array, polys)[1][j] = polys[j]
                            /\ Written(array, polys)[1][j] \in Polynomial
<1>1. CASE array = Null
  BY <1>1 DEF Written
<1>2. CASE array # Null
  <2>1. polys \in Seq(Polynomial \cup {Empty})
    OBVIOUS
  <2>2. \A j \in 1..k : polys[j] \in Polynomial
    OBVIOUS
  <2>3. QED
    BY <1>2, <2>1, <2>2, WrittenArray
<1>3. QED
  BY <1>1, <1>2

\* interpolate() leaves exactly the batch, monic if asked for.
LEMMA InterpolateStep ==
  ASSUME PolyInv, NEW b \in Batches, NEW monicise \in BOOLEAN, Interpolate(b, monicise)
  PROVE  PolyInv'
<1> DEFINE plain == Interpolated(b.y)
           polys == IF monicise THEN Monic(plain) ELSE plain
           array == Resized(polynomials, Len(b.y))
<1>1. /\ b \in [x : Points, y : Seq(Rows)]
      /\ b.y \in Seq(Rows) /\ Len(b.y) \in Nat /\ \A j \in 1..Len(b.y) : b.y[j] \in Rows
  OBVIOUS
<1>2. pc = "ready" /\ last' = "interpolate" /\ ordered' = ordered /\ last' \in Calls
  BY DEF Interpolate, Ready, Calls
<1>3. CASE \E j \in 1..Len(b.y) : Refuses(b, j)
  <2>1. Ends(b)
    BY <1>3 DEF Interpolate
  <2>2. QED
    BY <1>1, <1>2, <1>3, <2>1, EndsStep
<1>4. CASE ~\E j \in 1..Len(b.y) : Refuses(b, j)
  <2>1. /\ pc = "ready"
        /\ Covers(array, Len(b.y))
        /\ n' = Len(b.y) /\ polynomials' = Written(array, polys)
        /\ stage' = (IF monicise THEN "monic" ELSE "interpolated") /\ batch' = b
        /\ UNCHANGED <<factorPairs, roots, pc, ordered>> /\ last' = "interpolate"
    <3>1. Covers(array, Len(b.y))
      BY <1>1, ResizedPolynomials, Zenon
    <3>2. QED
      BY <1>2, <1>4, <3>1 DEF Interpolate
  <2>2. /\ plain \in Seq(Polynomial) /\ Len(plain) = Len(b.y)
        /\ \A j \in 1..Len(b.y) : plain[j] \in Polynomial /\ plain[j].row = b.y[j]
    BY <1>1, BatchPolynomials
  <2>3. /\ polys \in Seq(Polynomial) /\ Len(polys) = Len(b.y)
        /\ \A j \in 1..Len(b.y) : polys[j].row = b.y[j]
        /\ monicise => \A j \in 1..Len(b.y) : polys[j].monic = (b.y[j] \notin Zeros)
    <3> HIDE DEF plain
    <3>1. CASE monicise
      <4>1. polys = Monic(plain)
        BY <3>1
      <4>2. /\ Monic(plain) \in Seq(Polynomial) /\ Len(Monic(plain)) = Len(b.y)
            /\ \A j \in 1..Len(b.y) :
                 /\ Monic(plain)[j].row = plain[j].row
                 /\ Monic(plain)[j].monic = (plain[j].row \notin Zeros)
        BY <1>1, <2>2, MonicPolynomials
      <4> HIDE DEF polys
      <4>3. QED
        BY <2>2, <4>1, <4>2
    <3>2. CASE ~monicise
      <4>1. polys = plain
        BY <3>2
      <4> HIDE DEF polys
      <4>2. QED
        BY <2>2, <3>2, <4>1
    <3>3. QED
      BY <3>1, <3>2
  <2> HIDE DEF polys, plain, array
  <2>4. /\ array = Null => Len(b.y) = 0 /\ factorPairs = Null
        /\ array # Null => IsArray(array, Polynomial \cup {Empty}) /\ Len(array[1]) = Len(b.y)
    BY <1>1, ResizedPolynomials, Zenon DEF array
  <2>5. /\ array = Null <=> polynomials' = Null
        /\ polynomials' = Null \/ IsArray(polynomials', Polynomial \cup {Empty})
        /\ polynomials' # Null => Len(polynomials'[1]) = Len(b.y)
        /\ \A j \in 1..Len(b.y) : /\ polynomials'[1][j] = polys[j]
                                /\ polynomials'[1][j] \in Polynomial
    <3>1. /\ array = Null <=> Written(array, polys) = Null
          /\ \/ Written(array, polys) = Null
             \/ IsArray(Written(array, polys), Polynomial \cup {Empty})
          /\ Written(array, polys) # Null => Len(Written(array, polys)[1]) = Len(b.y)
          /\ \A j \in 1..Len(b.y) : /\ Written(array, polys)[1][j] = polys[j]
                              /\ Written(array, polys)[1][j] \in Polynomial
      BY <1>1, <2>3, <2>4, WrittenPolynomials
    <3>2. polynomials' = Written(array, polys)
      BY <2>1
    <3>3. QED
      BY <3>1, <3>2
  <2>6. TypeOK'
    BY <1>1, <2>1, <2>5 DEF PolyInv, TypeOK, Stages, Calls, IsArray
  <2>7. Allocated'
    BY <2>1, <2>4, <2>5 DEF Allocated
  <2>8. StageHolds'
    <3>1. \A j \in 1..Len(b.y) : polynomials'[1][j].row = b.y[j]
      BY <2>3, <2>5
    <3>2. monicise => \A j \in 1..Len(b.y) : polynomials'[1][j].monic = (b.y[j] \notin Zeros)
      BY <2>3, <2>5
    <3>3. stage' = "monic" => monicise
      BY <2>1
    <3>4. stage' \notin {"empty", "factorised"}
      BY <2>1
    <3>5. QED
      BY <2>1, <3>1, <3>2, <3>3, <3>4 DEF StageHolds
  <2>9. QED
    BY <2>1, <2>6, <2>7, <2>8, ReadyStep
<1>5. QED
  BY <1>3, <1>4

\* The polynomials in use.
LEMMA PolynomialsInUse ==
  ASSUME PolyInv, polynomials # Null
  PROVE  /\ Len(InUse(polynomials)) = n
         /\ \A j \in 1..n : /\ InUse(polynomials)[j] = polynomials[1][j]
                            /\ InUse(polynomials)[j] \in Polynomial
<1>1. n \in Nat /\ InUse(polynomials) = [j \in 1..n |-> polynomials[1][j]]
  BY DEF PolyInv, TypeOK, InUse
<1>2. \A j \in 1..n : polynomials[1][j] \in Polynomial
  BY DEF PolyInv, Allocated
<1>3. [j \in 1..n |-> polynomials[1][j]] \in [1..n -> Polynomial]
  BY <1>2
<1>4. QED
  BY <1>1, <1>2, <1>3, IsSequence

\* makeMonic() changes no row.
LEMMA MakeMonicStep ==
  ASSUME PolyInv, MakeMonic
  PROVE  PolyInv'
<1> DEFINE polys == Monic(InUse(polynomials))
<1>1. n \in Nat /\ Covers(polynomials, n)
  BY DEF PolyInv, TypeOK, Allocated, Covers
<1>2. /\ pc = "ready" /\ (ordered => stage # "empty") /\ last' = "makeMonic"
      /\ polynomials' = Written(polynomials, polys)
      /\ stage' = (IF stage = "interpolated" THEN "monic" ELSE stage)
      /\ UNCHANGED <<n, factorPairs, roots, pc, ordered, batch>>
  BY <1>1 DEF MakeMonic, Ready
<1>3. CASE polynomials = Null
  <2>1. polynomials' = Null /\ n = 0
    BY <1>2, <1>3 DEF Written, PolyInv, Allocated
  <2>2. TypeOK'
    BY <1>2, <2>1 DEF PolyInv, TypeOK, Stages, Calls, IsArray
  <2>3. Allocated'
    BY <1>2, <1>3, <2>1 DEF PolyInv, Allocated
  <2>4. StageHolds'
    BY <1>2, <1>3, <2>1 DEF PolyInv, StageHolds
  <2>5. QED
    BY <1>2, <2>2, <2>3, <2>4, ReadyStep
<1>4. CASE polynomials # Null
  <2>1. /\ Len(InUse(polynomials)) = n
        /\ \A j \in 1..n : /\ InUse(polynomials)[j] = polynomials[1][j]
                           /\ InUse(polynomials)[j] \in Polynomial
    BY <1>4, PolynomialsInUse
  <2>2. /\ polys \in Seq(Polynomial) /\ Len(polys) = n
        /\ \A j \in 1..n : /\ polys[j].row = polynomials[1][j].row
                           /\ polys[j].monic = (polynomials[1][j].row \notin Zeros)
    BY <1>1, <2>1, MonicPolynomials
  <2>3. IsArray(polynomials, Polynomial \cup {Empty}) /\ Len(polynomials[1]) = n
    BY <1>4 DEF PolyInv, TypeOK, Allocated
  <2> HIDE DEF polys
  <2>4. /\ polynomials' # Null
        /\ IsArray(polynomials', Polynomial \cup {Empty})
        /\ Len(polynomials'[1]) = n
        /\ \A j \in 1..n : /\ polynomials'[1][j] = polys[j]
                           /\ polynomials'[1][j] \in Polynomial
    <3>1. /\ polynomials = Null <=> Written(polynomials, polys) = Null
          /\ \/ Written(polynomials, polys) = Null
             \/ IsArray(Written(polynomials, polys), Polynomial \cup {Empty})
          /\ Written(polynomials, polys) # Null => Len(Written(polynomials, polys)[1]) = n
          /\ \A j \in 1..n : /\ Written(polynomials, polys)[1][j] = polys[j]
                              /\ Written(polynomials, polys)[1][j] \in Polynomial
      BY <1>1, <1>4, <2>2, <2>3, WrittenPolynomials
    <3>2. polynomials' = Written(polynomials, polys)
      BY <1>2
    <3>3. QED
      BY <1>4, <3>1, <3>2
  <2>5. TypeOK'
    BY <1>2, <2>4 DEF PolyInv, TypeOK, Stages, Calls, IsArray
  <2>6. Allocated'
    BY <1>2, <2>4 DEF Allocated
  <2>7. StageHolds'
    <3>1. \A j \in 1..n : /\ polynomials'[1][j].row = polynomials[1][j].row
                          /\ polynomials'[1][j].monic = (polynomials[1][j].row \notin Zeros)
      BY <2>2, <2>4
    <3>2. (ordered /\ pc = "ready") => \A j \in 1..n : polynomials[1][j].row = batch.y[j]
      BY DEF PolyInv, StageHolds
    <3>3. QED
      BY <1>2, <3>1, <3>2 DEF PolyInv, StageHolds
  <2>8. QED
    BY <1>2, <2>5, <2>6, <2>7, ReadyStep
<1>5. QED
  BY <1>3, <1>4

\* No polynomials: there is nothing to factorise, and n is 0.
LEMMA FactoriseNothingStep ==
  ASSUME PolyInv, FactoriseNothing
  PROVE  PolyInv'
<1>1. /\ pc = "ready" /\ polynomials = Null /\ last' = "factorise"
      /\ stage' = (IF stage = "monic" THEN "factorised" ELSE stage)
      /\ UNCHANGED <<n, polynomials, factorPairs, roots, pc, ordered, batch>>
  BY DEF FactoriseNothing, Ready, arrays
<1>2. n = 0 /\ factorPairs = Null
  BY <1>1 DEF PolyInv, Allocated
<1>3. TypeOK'
  BY <1>1 DEF PolyInv, TypeOK, Stages, Calls, IsArray
<1>4. Allocated'
  BY <1>1 DEF PolyInv, Allocated
<1>5. StageHolds'
  BY <1>1, <1>2 DEF PolyInv, StageHolds
<1>6. QED
  BY <1>1, <1>3, <1>4, <1>5, ReadyStep

\* A factorisation of k polynomials, written to an array of k.
LEMMA WrittenPairs ==
  ASSUME NEW k \in Nat, NEW pairs, IsArray(pairs, Rows \cup {Empty}), Len(pairs[1]) = k,
         NEW rows \in Seq(Rows), Len(rows) = k
  PROVE  /\ IsArray(Written(pairs, rows), Rows \cup {Empty})
         /\ Written(pairs, rows) # Null
         /\ Len(Written(pairs, rows)[1]) = k
         /\ \A j \in 1..k : Written(pairs, rows)[1][j] = rows[j]
<1>1. rows \in Seq(Rows \cup {Empty})
  OBVIOUS
<1>2. QED
  BY <1>1, WrittenArray

\* factorise() takes an array of n, and ends the process only for a
\* polynomial that is not monic.
LEMMA FactoriseStep ==
  ASSUME PolyInv, Factorise
  PROVE  PolyInv'
<1> DEFINE polys == InUse(polynomials)
           rows == Factored(polys)
<1>1. /\ n \in Nat /\ polynomials # Null
      /\ Covers(polynomials, n)
      /\ IsArray(Pairs, Rows \cup {Empty}) /\ Pairs # Null /\ Len(Pairs[1]) = n
      /\ Covers(Pairs, n)
  <2>1. n \in Nat /\ polynomials # Null /\ Covers(polynomials, n)
    BY DEF Factorise, PolyInv, TypeOK, Allocated, Covers
  <2>2. IsArray(Pairs, Rows \cup {Empty}) /\ Pairs # Null /\ Len(Pairs[1]) = n
    BY <2>1, NewArray DEF Pairs
  <2>3. QED
    BY <2>1, <2>2 DEF Covers
<1>2. /\ pc = "ready" /\ (ordered => stage \in {"monic", "factorised"})
      /\ last' = "factorise" /\ last' \in Calls /\ ordered' = ordered
  BY DEF Factorise, Ready, Calls
<1>3. /\ Len(polys) = n
      /\ \A j \in 1..n : polys[j] = polynomials[1][j] /\ polys[j] \in Polynomial
  BY <1>1, PolynomialsInUse
<1>4. batch \in [x : Points, y : Seq(Rows)]
  BY DEF PolyInv, TypeOK
<1>5. ordered =>
        /\ n = Len(batch.y)
        /\ \A j \in 1..n : /\ polynomials[1][j].row = batch.y[j]
                           /\ polynomials[1][j].monic = (batch.y[j] \notin Zeros)
  BY <1>2 DEF PolyInv, StageHolds
<1>6. CASE ~Factorisable(polys)
  <2>1. Ends(batch)
    BY <1>1, <1>6 DEF Factorise
  <2>2. \E j \in 1..n : ~polys[j].monic
    BY <1>3, <1>6 DEF Factorisable
  <2>3. ordered => \E j \in 1..Len(batch.y) : batch.y[j] \in Zeros
    BY <1>3, <1>5, <2>2
  <2>4. QED
    BY <1>2, <1>4, <2>1, <2>3, EndsStep
<1>7. CASE Factorisable(polys)
  <2>1. /\ factorPairs' = Written(Pairs, rows) /\ stage' = "factorised"
        /\ UNCHANGED <<n, polynomials, roots, pc, batch>>
    BY <1>1, <1>7 DEF Factorise
  <2>2. /\ rows \in Seq(Rows) /\ Len(rows) = n
        /\ \A j \in 1..n : rows[j] = polys[j].row
    <3> HIDE DEF polys
    <3>1. QED
      BY <1>1, <1>3, FactoredRows
  <2> HIDE DEF polys, rows
  <2>3. /\ IsArray(factorPairs', Rows \cup {Empty}) /\ factorPairs' # Null
        /\ Len(factorPairs'[1]) = n
        /\ \A j \in 1..n : factorPairs'[1][j] = rows[j]
    <3>1. /\ IsArray(Written(Pairs, rows), Rows \cup {Empty})
          /\ Written(Pairs, rows) # Null
          /\ Len(Written(Pairs, rows)[1]) = n
          /\ \A j \in 1..n : Written(Pairs, rows)[1][j] = rows[j]
      BY <1>1, <2>2, WrittenPairs
    <3>2. QED
      BY <2>1, <3>1
  <2>4. TypeOK'
    BY <1>2, <2>1, <2>3 DEF PolyInv, TypeOK, Stages, IsArray
  <2>5. Allocated'
    BY <1>1, <2>1 DEF PolyInv, Allocated
  <2>6. StageHolds'
    <3>1. ordered => \A j \in 1..n : factorPairs'[1][j] = batch.y[j]
      BY <1>3, <1>5, <2>2, <2>3
    <3>2. QED
      BY <1>1, <1>2, <1>5, <2>1, <2>3, <3>1 DEF StageHolds
  <2>7. QED
    BY <1>2, <2>1, <2>4, <2>5, <2>6, ReadyStep
<1>8. QED
  BY <1>6, <1>7

\* Without factors there are no polynomials, and the batch is empty.
LEMMA FindNothingStep ==
  ASSUME PolyInv, FindNothing
  PROVE  PolyInv'
<1>1. /\ pc = "ready" /\ (ordered => stage = "factorised")
      /\ factorPairs = Null /\ roots' = <<>> /\ last' = "findIntersection"
      /\ UNCHANGED <<n, polynomials, factorPairs, pc, ordered, stage, batch>>
  BY DEF FindNothing, Ready
<1>2. TypeOK'
  BY <1>1 DEF PolyInv, TypeOK, Stages, Calls, IsArray
<1>3. Allocated'
  BY <1>1 DEF PolyInv, Allocated
<1>4. ordered => roots' = batch.y
  <2>1. ordered => Len(batch.y) = 0
    BY <1>1 DEF PolyInv, TypeOK, StageHolds
  <2>2. batch.y \in Seq(Rows)
    BY DEF PolyInv, TypeOK
  <2>3. QED
    BY <1>1, <2>1, <2>2
<1>5. StageHolds'
  BY <1>1, <1>4 DEF PolyInv, StageHolds
<1>6. QED
  BY <1>1, <1>2, <1>3, <1>5, ReadyStep

\* The factors in use are those of the batch.
LEMMA FindIntersectionStep ==
  ASSUME PolyInv, FindIntersection
  PROVE  PolyInv'
<1>1. /\ pc = "ready" /\ (ordered => stage = "factorised") /\ factorPairs # Null
      /\ last' = "findIntersection" /\ last' \in Calls /\ ordered' = ordered
  BY DEF FindIntersection, Ready, Calls
<1>2. CASE ~Covers(factorPairs, n)
  <2>1. Undefined
    BY <1>2 DEF FindIntersection
  <2>2. ~ordered
    BY <1>1, <1>2 DEF PolyInv, StageHolds, Covers
  <2>3. QED
    BY <1>1, <2>1, <2>2, UndefinedStep
<1>3. CASE Covers(factorPairs, n)
  <2>1. /\ roots' = InUse(factorPairs)
        /\ UNCHANGED <<n, polynomials, factorPairs, pc, stage, batch>>
    BY <1>3 DEF FindIntersection, Found
  <2>2. roots' = [j \in 1..n |-> factorPairs[1][j]]
    BY <1>1, <2>1 DEF InUse
  <2>3. n \in Nat /\ (n = 0 \/ n <= Len(factorPairs[1]))
        /\ factorPairs[1] \in Seq(Rows \cup {Empty})
    BY <1>1, <1>3 DEF PolyInv, TypeOK, Covers, IsArray
  <2>4. \A j \in 1..n : factorPairs[1][j] \in Rows \cup {Empty}
    BY <2>3
  <2>5. roots' \in [1..n -> Rows \cup {Empty}]
    BY <2>2, <2>4
  <2>6. roots' \in Seq(Rows \cup {Empty})
    BY <2>3, <2>5, IsSequence
  <2>7. TypeOK'
    BY <1>1, <2>1, <2>6 DEF PolyInv, TypeOK, Stages, IsArray
  <2>8. Allocated'
    BY <2>1 DEF PolyInv, Allocated
  <2>9. ordered => roots' = batch.y
    <3>1. ordered => /\ n = Len(batch.y) /\ \A j \in 1..n : factorPairs[1][j] = batch.y[j]
      BY <1>1 DEF PolyInv, StageHolds
    <3>2. batch.y \in Seq(Rows)
      BY DEF PolyInv, TypeOK
    <3>3. batch.y = [j \in 1..Len(batch.y) |-> batch.y[j]]
      BY <3>2
    <3>4. QED
      BY <2>2, <3>1, <3>3
  <2>10. StageHolds'
    BY <1>1, <2>1, <2>9 DEF PolyInv, StageHolds
  <2>11. QED
    BY <1>1, <2>1, <2>7, <2>8, <2>10, ReadyStep
<1>4. QED
  BY <1>2, <1>3

\* The array of factorisations a batch is written to, when it is long enough.
LEMMA ResizedPairs ==
  ASSUME PolyInv, NEW b \in Seq(Rows), NEW pairs, pairs = Resized(factorPairs, Len(b))
  PROVE  /\ pairs # Null => IsArray(pairs, Rows \cup {Empty}) /\ Len(pairs[1]) \in Nat
         /\ n # Len(b) => pairs # Null /\ Len(pairs[1]) = Len(b)
         /\ n = Len(b) => pairs = factorPairs
<1>1. Len(b) \in Nat /\ n \in Nat
  BY DEF PolyInv, TypeOK
<1>2. CASE n # Len(b)
  <2>1. pairs = New(Len(b))
    BY <1>2 DEF Resized
  <2>2. /\ IsArray(New(Len(b)), Rows \cup {Empty})
        /\ New(Len(b)) # Null /\ Len(New(Len(b))[1]) = Len(b)
    BY <1>1, NewArray
  <2>3. QED
    BY <1>1, <1>2, <2>1, <2>2
<1>3. CASE n = Len(b)
  <2>1. pairs = factorPairs
    BY <1>3 DEF Resized
  <2>2. QED
    BY <1>3, <2>1 DEF PolyInv, TypeOK, IsArray
<1>4. QED
  BY <1>2, <1>3

\* findIntersection(x, y, n), after any other call: both arrays cover the batch
\* and are written, or there are polynomials and not their factors.
LEMMA FindIntersectionOfStep ==
  ASSUME PolyInv, NEW b \in Batches, FindIntersectionOf(b)
  PROVE  PolyInv'
<1> DEFINE polys == Monic(Interpolated(b.y))
           rows == Factored(polys)
           array == Resized(polynomials, Len(b.y))
           pairs == Resized(factorPairs, Len(b.y))
           covers == Covers(array, Len(b.y)) /\ Covers(pairs, Len(b.y))
           ends == \E j \in 1..Len(b.y) : \/ Refuses(b, j) /\ j <= Room(pairs) + 1
                                          \/ ~polys[j].monic /\ j <= Room(pairs)
<1>1. /\ b \in [x : Points, y : Seq(Rows)] /\ b.y \in Seq(Rows)
      /\ Len(b.y) \in Nat /\ b.y = [j \in 1..Len(b.y) |-> b.y[j]]
  OBVIOUS
<1>2. /\ pc = "ready" /\ last' = "findIntersectionOf" /\ last' \in Calls
      /\ ordered' = ordered /\ stage \in Stages
  BY DEF FindIntersectionOf, Ready, Calls, PolyInv, TypeOK
<1>3. /\ Covers(array, Len(b.y))
      /\ array = Null => Len(b.y) = 0 /\ factorPairs = Null
      /\ array # Null => IsArray(array, Polynomial \cup {Empty}) /\ Len(array[1]) = Len(b.y)
  BY <1>1, ResizedPolynomials, Zenon
<1>4. /\ pairs # Null => IsArray(pairs, Rows \cup {Empty}) /\ Len(pairs[1]) \in Nat
      /\ n # Len(b.y) => pairs # Null /\ Len(pairs[1]) = Len(b.y)
      /\ n = Len(b.y) => pairs = factorPairs
  BY <1>1, ResizedPairs, Zenon
<1>5. /\ Interpolated(b.y) \in Seq(Polynomial) /\ Len(Interpolated(b.y)) = Len(b.y)
      /\ \A j \in 1..Len(b.y) : /\ Interpolated(b.y)[j] \in Polynomial
                                /\ Interpolated(b.y)[j].row = b.y[j]
  BY <1>1, BatchPolynomials
<1>6. /\ polys \in Seq(Polynomial) /\ Len(polys) = Len(b.y)
      /\ \A j \in 1..Len(b.y) : /\ polys[j].row = b.y[j]
                                /\ polys[j].monic = (b.y[j] \notin Zeros)
  BY <1>1, <1>5, MonicPolynomials
<1>7. (ends /\ Ends(b)) \/ (~ends /\ ~covers /\ Undefined) \/ (~ends /\ covers)
  BY DEF FindIntersectionOf
<1>8. CASE ends /\ Ends(b)
  <2> HIDE DEF polys, pairs
  <2>1. \E j \in 1..Len(b.y) : b.y[j] \in Zeros \/ Refuses(b, j)
    BY <1>6, <1>8
  <2>2. QED
    BY <1>1, <1>2, <1>8, <2>1, EndsStep
<1>9. CASE ~ends /\ ~covers /\ Undefined
  <2>1. ~Covers(pairs, Len(b.y))
    BY <1>3, <1>9
  <2> HIDE DEF pairs
  <2>2. n = Len(b.y) /\ pairs = factorPairs
    BY <1>1, <1>4, <2>1 DEF Covers
  <2>3. ~Covers(factorPairs, n)
    BY <2>1, <2>2
  <2>4. ordered => stage \notin {"empty", "factorised"}
    BY <1>2, <2>3 DEF PolyInv, TypeOK, Allocated, StageHolds, Covers
  <2>5. ordered => stage \in {"interpolated", "monic"}
    BY <1>2, <2>4 DEF Stages
  <2>6. QED
    BY <1>2, <1>9, <2>3, <2>5, UndefinedStep
<1>10. CASE ~ends /\ covers
  <2>1. /\ Covers(pairs, Len(b.y))
        /\ n' = Len(b.y)
        /\ polynomials' = Written(array, polys)
        /\ factorPairs' = Written(pairs, rows)
        /\ roots' = rows
        /\ stage' = "factorised" /\ batch' = b /\ pc' = pc
    BY <1>10 DEF FindIntersectionOf, Found
  <2>2. \A j \in 1..Len(b.y) : polys[j] \in Polynomial
    <3> HIDE DEF polys
    <3>1. QED
      BY <1>6
  <2>3. /\ rows \in Seq(Rows) /\ Len(rows) = Len(b.y)
        /\ \A j \in 1..Len(b.y) : rows[j] = polys[j].row
    <3> HIDE DEF polys
    <3>1. QED
      BY <1>1, <1>6, <2>2, FactoredRows
  <2> HIDE DEF polys, rows, array, pairs
  <2>4. rows = b.y
    <3>1. \A j \in 1..Len(b.y) : rows[j] = b.y[j]
      BY <1>6, <2>3
    <3>2. rows = [j \in 1..Len(b.y) |-> rows[j]]
      BY <2>3
    <3>3. QED
      BY <1>1, <3>1, <3>2
  <2>5. /\ array = Null <=> polynomials' = Null
        /\ polynomials' = Null \/ IsArray(polynomials', Polynomial \cup {Empty})
        /\ polynomials' # Null => Len(polynomials'[1]) = Len(b.y)
        /\ \A j \in 1..Len(b.y) : /\ polynomials'[1][j] = polys[j]
                                  /\ polynomials'[1][j] \in Polynomial
    <3>1. /\ array = Null <=> Written(array, polys) = Null
          /\ \/ Written(array, polys) = Null
             \/ IsArray(Written(array, polys), Polynomial \cup {Empty})
          /\ Written(array, polys) # Null => Len(Written(array, polys)[1]) = Len(b.y)
          /\ \A j \in 1..Len(b.y) : /\ Written(array, polys)[1][j] = polys[j]
                                    /\ Written(array, polys)[1][j] \in Polynomial
      BY <1>1, <1>3, <1>6, WrittenPolynomials
    <3>2. QED
      BY <2>1, <3>1
  <2>6. /\ factorPairs' = Null \/ IsArray(factorPairs', Rows \cup {Empty})
        /\ pairs = Null <=> factorPairs' = Null
        /\ Len(b.y) > 0 => factorPairs' # Null
        /\ factorPairs' # Null =>
             /\ Len(b.y) <= Len(factorPairs'[1])
             /\ \A j \in 1..Len(b.y) : factorPairs'[1][j] = b.y[j]
    <3>1. CASE pairs = Null
      <4>1. factorPairs' = Null
        BY <2>1, <3>1 DEF Written
      <4>2. Len(b.y) = 0
        BY <2>1, <3>1 DEF Covers
      <4>3. QED
        BY <3>1, <4>1, <4>2
    <3>2. CASE pairs # Null
      <4>1. IsArray(pairs, Rows \cup {Empty}) /\ Len(pairs[1]) \in Nat
            /\ Len(b.y) <= Len(pairs[1])
        BY <1>1, <1>4, <2>1, <3>2 DEF Covers
      <4>2. rows \in Seq(Rows \cup {Empty})
        BY <2>3
      <4>3. /\ IsArray(Written(pairs, rows), Rows \cup {Empty})
            /\ Written(pairs, rows) # Null
            /\ Len(Written(pairs, rows)[1]) = Len(pairs[1])
            /\ \A j \in 1..Len(rows) : Written(pairs, rows)[1][j] = rows[j]
        BY <2>3, <4>1, <4>2, WrittenArray
      <4>4. QED
        BY <2>1, <2>3, <2>4, <3>2, <4>1, <4>3
    <3>3. QED
      BY <3>1, <3>2
  <2>7. TypeOK'
    <3>1. b.y \in Seq(Rows \cup {Empty})
      BY <1>1
    <3>2. pc' \in {"ready", "ended", "undefined"} /\ ordered' \in BOOLEAN
      BY <1>2, <2>1 DEF PolyInv, TypeOK
    <3>3. QED
      BY <1>1, <1>2, <2>1, <2>4, <2>5, <2>6, <3>1, <3>2 DEF TypeOK, Stages
  <2>8. Allocated'
    <3>1. array = Null => n = Len(b.y)
      BY <1>1, <1>3 DEF array, Resized, New, Null
    <3>2. array = Null => n' = 0 /\ factorPairs' = Null
      BY <1>3, <1>4, <2>1, <2>6, <3>1
    <3>3. QED
      BY <2>1, <2>5, <3>2 DEF Allocated
  <2>9. StageHolds'
    <3>1. \A j \in 1..Len(b.y) : /\ polynomials'[1][j].row = b.y[j]
                                 /\ polynomials'[1][j].monic = (b.y[j] \notin Zeros)
      BY <1>6, <2>5
    <3>2. QED
      BY <2>1, <2>4, <2>6, <3>1 DEF StageHolds
  <2>10. QED
    BY <1>2, <2>1, <2>7, <2>8, <2>9, ReadyStep
<1>11. QED
  BY <1>7, <1>8, <1>9, <1>10

\* The invariant is inductive.
LEMMA NextInv == PolyInv /\ [Next]_vars => PolyInv'
<1> SUFFICES ASSUME PolyInv, [Next]_vars PROVE PolyInv'
  OBVIOUS
<1>1. ASSUME NEW b \in Batches, NEW monicise \in BOOLEAN, Interpolate(b, monicise)
      PROVE  PolyInv'
  BY <1>1, InterpolateStep
<1>2. CASE MakeMonic
  BY <1>2, MakeMonicStep
<1>3. CASE FactoriseNothing
  BY <1>3, FactoriseNothingStep
<1>4. CASE Factorise
  BY <1>4, FactoriseStep
<1>5. CASE FindNothing
  BY <1>5, FindNothingStep
<1>6. CASE FindIntersection
  BY <1>6, FindIntersectionStep
<1>7. ASSUME NEW b \in Batches, FindIntersectionOf(b) PROVE PolyInv'
  BY <1>7, FindIntersectionOfStep
<1>8. CASE UNCHANGED vars
  BY <1>8 DEF vars, arrays, PolyInv, TypeOK, Allocated, StageHolds, IsArray,
             UndefinedOnlyUnfactorised, EndsForBadRows, Covers, Refuses
<1>9. QED
  BY <1>1, <1>2, <1>3, <1>4, <1>5, <1>6, <1>7, <1>8 DEF Next

\* The invariant holds of every behaviour.
LEMMA Invariant == Spec => []PolyInv
<1>1. Init => PolyInv
  BY InitInv
<1>2. PolyInv /\ [Next]_vars => PolyInv'
  BY NextInv
<1>3. QED
  BY <1>1, <1>2, PTL DEF Spec

-----------------------------------------------------------------------------

(* The theorems.                                                           *)

\* The type invariant, however the object is used.
THEOREM TypeCorrect == Spec => []TypeOK
<1>1. PolyInv => TypeOK
  BY DEF PolyInv
<1>2. QED
  BY Invariant, <1>1, PTL

\* The array of polynomials has exactly n of them, in any order of calls.
THEOREM PolynomialsAlwaysFit == Spec => []PolynomialsFit
<1>1. PolyInv => PolynomialsFit
  BY DEF PolyInv, Allocated, PolynomialsFit
<1>2. QED
  BY Invariant, <1>1, PTL

\* In the order of the header no array is left and no null pointer followed,
\* but by findIntersection(x, y, n) where the factors are missing.
THEOREM OrderedUndefinedCause == Spec => []UndefinedOnlyUnfactorised
<1>1. PolyInv => UndefinedOnlyUnfactorised
  BY DEF PolyInv
<1>2. QED
  BY Invariant, <1>1, PTL

\* In the order of the header the result is that of the batch given last.
THEOREM OrderedRootsOfBatch == Spec => []RootsOfBatch
<1>1. PolyInv => RootsOfBatch
  BY DEF PolyInv, StageHolds, RootsOfBatch
<1>2. QED
  BY Invariant, <1>1, PTL

\* In the order of the header NTL ends the process only for a row of zeros, a
\* point that comes twice or a row of another length than the points.
THEOREM OrderedEndsForBadRows == Spec => []EndsForBadRows
<1>1. PolyInv => EndsForBadRows
  BY DEF PolyInv
<1>2. QED
  BY Invariant, <1>1, PTL
=============================================================================
