------------------------- MODULE HashBucketsProofs --------------------------
(***************************************************************************)
(* What HashBuckets guarantees for every number of buckets, every maximum    *)
(* load and every set of elements: its type invariant and that nothing is    *)
(* moved or lost, however it is used; and, for a client, which gives it a hash       *)
(* algorithm and calls add() alone, that no bucket overflows, that every     *)
(* bucket is full once concealed, that marks are true, and that an element   *)
(* has one bucket.                                                           *)
(***************************************************************************)
EXTENDS HashBuckets, SequenceTheorems, FiniteSetTheorems, TLAPS

-----------------------------------------------------------------------------
(* The two ways a bucket grows *)

\* push_back() adds the element behind the others.
LEMMA PushedBucket ==
  ASSUME TypeOK, NEW i \in Positions, NEW e \in Contents, NEW k \in Positions,
         PushBack(i, e)
  PROVE  /\ buckets'[k] \in Seq(Contents)
         /\ Load(k)' = IF k = i THEN Load(k) + 1 ELSE Load(k)
         /\ \A x \in 1..Load(k) : buckets'[k][x] = buckets[k][x]
         /\ k = i => buckets'[k][Load(k) + 1] = e
<1>1. buckets[k] \in Seq(Contents) /\ buckets' = [buckets EXCEPT ![i] = Append(@, e)]
  BY DEF TypeOK, PushBack
<1>2. CASE k = i
  <2>1. buckets'[k] = Append(buckets[k], e)
    BY <1>1, <1>2 DEF TypeOK
  <2> QED
    BY <1>1, <1>2, <2>1, AppendProperties DEF Load
<1>3. CASE k # i
  <2>1. buckets'[k] = buckets[k]
    BY <1>1, <1>3 DEF TypeOK
  <2> QED
    BY <1>1, <1>3, <2>1 DEF Load
<1> QED
  BY <1>2, <1>3

LEMMA MissingType ==
  ASSUME TypeOK, NEW k \in Positions
  PROVE  /\ Load(k) \in Nat
         /\ Missing(k) \in Nat
         /\ Load(k) + Missing(k) = IF Load(k) < MaxLoad THEN MaxLoad ELSE Load(k)
  BY LenProperties, SizeAssumption DEF TypeOK, Load, Missing

\* conceal() adds random elements behind the others, up to maxLoad.
LEMMA ConcealedBucket ==
  ASSUME TypeOK, NEW k \in Positions, Conceal
  PROVE  /\ buckets'[k] \in Seq(Contents)
         /\ Load(k)' = IF Load(k) < MaxLoad THEN MaxLoad ELSE Load(k)
         /\ \A x \in 1..Load(k) : buckets'[k][x] = buckets[k][x]
         /\ \A x \in (Load(k) + 1)..Load(k)' : buckets'[k][x] = Filler
<1> DEFINE fill == [j \in 1..Missing(k) |-> Filler]
<1>1. buckets[k] \in Seq(Contents) /\ buckets'[k] = buckets[k] \o fill
  BY DEF TypeOK, Conceal
<1>2. fill \in Seq(Contents) /\ Len(fill) = Missing(k)
  BY MissingType DEF Contents
<1> HIDE DEF fill
<1>3. /\ buckets'[k] \in Seq(Contents)
      /\ Len(buckets'[k]) = Len(buckets[k]) + Len(fill)
      /\ \A x \in 1..(Len(buckets[k]) + Len(fill)) :
           (buckets'[k])[x] = IF x <= Len(buckets[k]) THEN buckets[k][x]
                              ELSE fill[x - Len(buckets[k])]
  <2>1. /\ buckets[k] \o fill \in Seq(Contents)
        /\ Len(buckets[k] \o fill) = Len(buckets[k]) + Len(fill)
        /\ \A x \in 1..(Len(buckets[k]) + Len(fill)) :
             (buckets[k] \o fill)[x] = IF x <= Len(buckets[k]) THEN buckets[k][x]
                                      ELSE fill[x - Len(buckets[k])]
    BY <1>1, <1>2, ConcatProperties
  <2> QED
    BY <1>1, <2>1, Zenon
<1>4. Load(k)' = IF Load(k) < MaxLoad THEN MaxLoad ELSE Load(k)
  BY <1>2, <1>3, MissingType DEF Load
<1>5. \A x \in 1..Load(k) : buckets'[k][x] = buckets[k][x]
  BY <1>2, <1>3, MissingType DEF Load
<1>6. ASSUME NEW x \in (Load(k) + 1)..Load(k)' PROVE buckets'[k][x] = Filler
  <2>1. x \in 1..(Len(buckets[k]) + Len(fill)) /\ ~(x <= Len(buckets[k]))
    BY <1>2, <1>3, <1>6, MissingType DEF Load
  <2>2. x - Len(buckets[k]) \in 1..Missing(k)
    BY <1>2, <2>1, MissingType DEF Load
  <2> QED
    BY <1>3, <2>1, <2>2 DEF fill
<1> QED
  BY <1>3, <1>4, <1>5, <1>6

-----------------------------------------------------------------------------
(* Any use *)

\* Every step pushes one element, conceals, sets the algorithm or ends the
\* process.
LEMMA Steps ==
  ASSUME Next
  PROVE  \/ \E i \in Positions, e \in Elements : PushBack(i, e)
         \/ Conceal \/ SetHashAlgorithm \/ FatalOutOfBound
<1>1. ASSUME NEW e \in Elements, AddHashed(e)
      PROVE  FatalOutOfBound \/ \E i \in Positions : PushBack(i, e)
  <2>1. Indices[e] \subseteq Positions
    BY IndicesAssumption
  <2> QED
    BY <1>1, <2>1 DEF AddHashed
<1>2. ASSUME NEW e \in Elements, AddInvented(e)
      PROVE  \E i \in Positions : PushBack(i, e)
  <2>1. 0 \in Positions
    BY SizeAssumption DEF Positions
  <2> QED
    BY <1>2, <2>1 DEF AddInvented
<1>3. ASSUME NEW e \in Elements, NEW i \in 0..K, AddToBucket(e, i)
      PROVE  FatalOutOfBound \/ \E k \in Positions : PushBack(k, e)
  <2>1. i < K => i \in Positions
    BY SizeAssumption DEF Positions
  <2> QED
    BY <1>3, <2>1 DEF AddToBucket
<1> QED
  BY <1>1, <1>2, <1>3 DEF Next, GetBucketOutOfBounds

LEMMA PushBackType ==
  ASSUME TypeOK, NEW i \in Positions, NEW e \in Elements, PushBack(i, e)
  PROVE  TypeOK'
<1>1. e \in Contents
  BY DEF Contents
<1>2. \A k \in Positions : buckets'[k] \in Seq(Contents)
  BY <1>1, PushedBucket
<1>3. buckets' = [k \in Positions |-> buckets'[k]]
  BY DEF TypeOK, PushBack
<1>4. buckets' \in [Positions -> Seq(Contents)]
  BY <1>2, <1>3
<1> QED
  BY <1>4 DEF TypeOK, PushBack

LEMMA ConcealType ==
  ASSUME TypeOK, Conceal
  PROVE  TypeOK'
<1>1. \A k \in Positions : buckets'[k] \in Seq(Contents)
  BY ConcealedBucket
<1>2. buckets' = [k \in Positions |-> buckets'[k]]
  BY DEF Conceal
<1>3. buckets' \in [Positions -> Seq(Contents)]
  BY <1>1, <1>2
<1> QED
  BY <1>3 DEF TypeOK, Conceal

LEMMA InitType ==
  ASSUME Init
  PROVE  TypeOK
<1>1. <<>> \in Seq(Contents)
  BY EmptySeq
<1> QED
  BY <1>1 DEF Init, TypeOK

LEMMA NextType ==
  ASSUME TypeOK, [Next]_vars
  PROVE  TypeOK'
<1>1. CASE UNCHANGED vars
  BY <1>1 DEF TypeOK, vars
<1>2. ASSUME NEW i \in Positions, NEW e \in Elements, PushBack(i, e) PROVE TypeOK'
  BY <1>2, PushBackType
<1>3. CASE Conceal
  BY <1>3, ConcealType
<1>4. CASE SetHashAlgorithm
  BY <1>4 DEF TypeOK, SetHashAlgorithm
<1>5. CASE FatalOutOfBound
  BY <1>5 DEF TypeOK, FatalOutOfBound
<1> QED
  BY <1>1, <1>2, <1>3, <1>4, <1>5, Steps

\* The type invariant, however the table is used.
THEOREM TypeCorrect == Spec => []TypeOK
  BY InitType, NextType, PTL DEF Spec

\* No operation removes or moves an element, however the table is used.
THEOREM GrowsOnly == Spec => BucketsOnlyGrow
<1>1. ASSUME TypeOK, [Next]_vars, NEW k \in Positions
      PROVE  SubSeq(buckets'[k], 1, Load(k)) = buckets[k]
  <2>1. /\ buckets[k] \in Seq(Contents) /\ Load(k) \in Nat
        /\ buckets'[k] \in Seq(Contents) /\ Load(k)' \in Nat
    BY <1>1, NextType, LenProperties DEF TypeOK, Load
  <2>2. Load(k) <= Load(k)' /\ \A x \in 1..Load(k) : buckets'[k][x] = buckets[k][x]
    <3>1. CASE buckets' = buckets
      BY <2>1, <3>1 DEF Load
    <3>2. ASSUME NEW i \in Positions, NEW e \in Elements, PushBack(i, e)
          PROVE  Load(k) <= Load(k)' /\ \A x \in 1..Load(k) : buckets'[k][x] = buckets[k][x]
      BY <1>1, <2>1, <3>2, PushedBucket DEF Contents
    <3>3. CASE Conceal
      BY <1>1, <2>1, <3>3, ConcealedBucket, SizeAssumption
    <3> QED
      BY <1>1, <3>1, <3>2, <3>3, Steps DEF vars, SetHashAlgorithm, FatalOutOfBound
  <2>3. /\ SubSeq(buckets'[k], 1, Load(k)) \in Seq(Contents)
        /\ Len(SubSeq(buckets'[k], 1, Load(k))) = Load(k)
        /\ \A x \in 1..Load(k) : SubSeq(buckets'[k], 1, Load(k))[x] = buckets'[k][x]
    BY <2>1, <2>2 DEF Load
  <2> QED
    BY <2>1, <2>2, <2>3, SeqEqual DEF Load
<1>2. TypeOK /\ [Next]_vars
      => [\A i \in Positions : SubSeq(buckets'[i], 1, Load(i)) = buckets[i]]_vars
  BY <1>1
<1> QED
  BY <1>2, TypeCorrect, PTL DEF Spec, BucketsOnlyGrow

\* The places in the buckets that hold an element of the application.
Own == {p \in Positions \X (1..(MaxLoad + MaxAdds)) :
          p[2] <= Load(p[1]) /\ buckets[p[1]][p[2]] # Filler}

\* The inductive invariant: a bucket has room in Own for all that may be added.
CountInv ==
  /\ TypeOK
  /\ added <= MaxAdds
  /\ \A i \in Positions : Load(i) <= MaxLoad + added
  /\ IsFiniteSet(Own)
  /\ Cardinality(Own) = added

\* An empty table has no element.
LEMMA InitCount == Init => CountInv
<1> SUFFICES ASSUME Init PROVE CountInv
  OBVIOUS
<1>1. TypeOK
  BY InitType
<1>2. \A i \in Positions : Load(i) = 0
  BY DEF Init, Load
<1>3. Own = {}
  BY <1>2 DEF Own
<1>4. IsFiniteSet(Own) /\ Cardinality(Own) = 0
  BY <1>3, FS_EmptySet
<1> QED
  BY <1>1, <1>2, <1>4, BoundAssumption, SizeAssumption DEF CountInv, Init

\* push_back() takes one more place, and leaves the others as they are.
LEMMA PushCount ==
  ASSUME CountInv, added < MaxAdds, NEW i \in Positions, NEW e \in Elements, PushBack(i, e)
  PROVE  CountInv'
<1> DEFINE here == <<i, Load(i) + 1>>
<1>1. /\ TypeOK /\ e \in Contents /\ e # Filler /\ added \in Nat
      /\ \A k \in Positions : Load(k) \in Nat /\ Load(k) <= MaxLoad + added
      /\ MaxLoad \in Nat /\ MaxAdds \in Nat
  BY FillerAssumption, MissingType, BoundAssumption, SizeAssumption DEF CountInv, TypeOK, Contents
<1>2. TypeOK' /\ added' = added + 1
  BY <1>1, PushBackType DEF PushBack
<1>3. \A k \in Positions :
        /\ Load(k)' = IF k = i THEN Load(k) + 1 ELSE Load(k)
        /\ \A x \in 1..Load(k) : buckets'[k][x] = buckets[k][x]
        /\ k = i => buckets'[k][Load(k) + 1] = e
  BY <1>1, PushedBucket
<1>4. here \in Positions \X (1..(MaxLoad + MaxAdds)) /\ here \notin Own
  BY <1>1 DEF Own
<1>5. \A k \in Positions, x \in 1..(MaxLoad + MaxAdds) :
        (x <= Load(k)' /\ buckets'[k][x] # Filler) <=>
          ((x <= Load(k) /\ buckets[k][x] # Filler) \/ (k = i /\ x = Load(i) + 1))
  <2> SUFFICES ASSUME NEW k \in Positions, NEW x \in 1..(MaxLoad + MaxAdds)
               PROVE  (x <= Load(k)' /\ buckets'[k][x] # Filler) <=>
                        ((x <= Load(k) /\ buckets[k][x] # Filler) \/ (k = i /\ x = Load(i) + 1))
    OBVIOUS
  <2>1. CASE x <= Load(k)
    <3>1. x \in 1..Load(k)
      BY <1>1, <2>1
    <3> QED BY <1>1, <1>3, <2>1, <3>1
  <2>2. CASE ~(x <= Load(k))
    BY <1>1, <1>3, <2>2
  <2> QED BY <2>1, <2>2
<1>6. Own' = Own \cup {here}
  <2>1. Own' \subseteq Own \cup {here}
    BY <1>5 DEF Own
  <2>2. Own \subseteq Own'
    BY <1>5 DEF Own
  <2>3. here \in Own'
    BY <1>4, <1>5 DEF Own
  <2> QED BY <2>1, <2>2, <2>3
<1> HIDE DEF here
<1>7. IsFiniteSet(Own') /\ Cardinality(Own') = added + 1
  BY <1>4, <1>6, FS_AddElement DEF CountInv
<1>8. \A k \in Positions : Load(k)' <= MaxLoad + added'
  BY <1>1, <1>2, <1>3
<1>9. added' <= MaxAdds
  BY <1>1, <1>2
<1> QED
  BY <1>2, <1>7, <1>8, <1>9 DEF CountInv

\* conceal() adds random elements alone.
LEMMA ConcealCount ==
  ASSUME CountInv, Conceal
  PROVE  CountInv'
<1>1. /\ TypeOK /\ added \in Nat /\ MaxLoad \in Nat /\ MaxAdds \in Nat
      /\ \A k \in Positions : Load(k) \in Nat /\ Load(k) <= MaxLoad + added
  BY MissingType, BoundAssumption, SizeAssumption DEF CountInv, TypeOK
<1>2. TypeOK' /\ added' = added
  BY <1>1, ConcealType DEF Conceal
<1>3. \A k \in Positions :
        /\ Load(k)' = IF Load(k) < MaxLoad THEN MaxLoad ELSE Load(k)
        /\ \A x \in 1..Load(k) : buckets'[k][x] = buckets[k][x]
        /\ \A x \in (Load(k) + 1)..Load(k)' : buckets'[k][x] = Filler
  BY <1>1, ConcealedBucket
<1>4. \A k \in Positions, x \in 1..(MaxLoad + MaxAdds) :
        (x <= Load(k)' /\ buckets'[k][x] # Filler) <=>
          (x <= Load(k) /\ buckets[k][x] # Filler)
  <2> SUFFICES ASSUME NEW k \in Positions, NEW x \in 1..(MaxLoad + MaxAdds)
               PROVE  (x <= Load(k)' /\ buckets'[k][x] # Filler) <=>
                        (x <= Load(k) /\ buckets[k][x] # Filler)
    OBVIOUS
  <2>1. CASE x <= Load(k)
    <3>1. x \in 1..Load(k) /\ x <= Load(k)'
      BY <1>1, <1>3, <2>1
    <3> QED BY <1>3, <2>1, <3>1
  <2>2. CASE ~(x <= Load(k))
    <3>1. x <= Load(k)' => x \in (Load(k) + 1)..Load(k)'
      BY <1>1, <1>3, <2>2
    <3> QED BY <1>3, <2>2, <3>1
  <2> QED BY <2>1, <2>2
<1>5. Own' = Own
  BY <1>4 DEF Own
<1>6. \A k \in Positions : Load(k)' <= MaxLoad + added'
  BY <1>1, <1>2, <1>3
<1> QED
  BY <1>2, <1>5, <1>6 DEF CountInv

\* Only below the bound is an element added.
LEMMA AddsBelowBound ==
  ASSUME Next, NEW i \in Positions, NEW e \in Elements, PushBack(i, e), added \in Nat
  PROVE  added < MaxAdds
<1>1. added' = added + 1
  BY DEF PushBack
<1>2. added' # added
  BY <1>1
<1> QED
  BY <1>2 DEF Next, AddHashed, AddInvented, AddToBucket, Conceal, SetHashAlgorithm,
     GetBucketOutOfBounds, FatalOutOfBound

\* The elements in the buckets, random ones apart, are as many as were added,
\* however the table is used: add(), addToBucket() and conceal() in any order.
THEOREM NeverLost == Spec => []NothingLost
<1>1. ASSUME CountInv, [Next]_vars PROVE CountInv'
  <2>1. CASE UNCHANGED <<buckets, added>> /\ TypeOK'
    <3>1. Own' = Own /\ \A i \in Positions : Load(i)' = Load(i)
      BY <2>1 DEF Own, Load
    <3> QED BY <1>1, <2>1, <3>1 DEF CountInv
  <2>2. CASE Next
    <3>1. ASSUME NEW i \in Positions, NEW e \in Elements, PushBack(i, e) PROVE CountInv'
      BY <1>1, <2>2, <3>1, AddsBelowBound, PushCount DEF CountInv, TypeOK
    <3>2. CASE Conceal
      BY <1>1, <3>2, ConcealCount
    <3>3. CASE SetHashAlgorithm \/ FatalOutOfBound
      BY <1>1, <2>1, <2>2, <3>3, NextType DEF CountInv, SetHashAlgorithm, FatalOutOfBound
    <3> QED BY <2>2, <3>1, <3>2, <3>3, Steps
  <2>3. CASE UNCHANGED vars
    BY <1>1, <2>1, <2>3, NextType DEF CountInv, vars
  <2> QED BY <1>1, <2>2, <2>3
<1>2. CountInv => NothingLost
  BY DEF CountInv, NothingLost, Own
<1> QED
  BY <1>1, <1>2, InitCount, PTL DEF Spec

-----------------------------------------------------------------------------
(* A client's use: a hash algorithm is given, and only add() is called *)

\* Every element is in a bucket its hash selects.
InItsBucket ==
  \A k \in Positions : \A x \in 1..Load(k) :
    buckets[k][x] \in Elements => k \in Indices[buckets[k][x]]

\* The inductive invariant.  A mark outlives the emptiness it records: it stays
\* true because a bucket that is marked is full, and add() refuses a full one.
ClientInv ==
  /\ TypeOK
  /\ client => /\ algorithm
               /\ marked # {} => concealed
               /\ InItsBucket
  /\ LoadBounded
  /\ ConcealedIsFull
  /\ MarkedHoldsNoElement

\* An element is only pushed where its hash says and where there is room.
LEMMA ClientSteps ==
  ASSUME client, algorithm, Next
  PROVE  \/ \E e \in Elements : \E i \in Indices[e] : Load(i) # MaxLoad /\ PushBack(i, e)
         \/ Conceal \/ SetHashAlgorithm \/ FatalOutOfBound
  BY DEF Next, AddHashed, AddInvented, AddToBucket, GetBucketOutOfBounds

LEMMA ClientPush ==
  ASSUME client, ClientInv, NEW e \in Elements, NEW i \in Indices[e],
         Load(i) # MaxLoad, PushBack(i, e)
  PROVE  ClientInv'
<1>1. i \in Positions /\ e \in Contents /\ TypeOK
  BY IndicesAssumption DEF ClientInv, Contents
<1>2. \A k \in Positions : Load(k) \in Nat
  BY <1>1, MissingType
<1>3. ~concealed /\ marked = {}
  BY <1>1 DEF ClientInv, ConcealedIsFull
<1>4. \A k \in Positions :
        /\ Load(k)' = IF k = i THEN Load(k) + 1 ELSE Load(k)
        /\ \A x \in 1..Load(k) : buckets'[k][x] = buckets[k][x]
        /\ k = i => buckets'[k][Load(k) + 1] = e
  BY <1>1, PushedBucket
<1>5. TypeOK'
  BY <1>1, PushBackType
<1>6. algorithm' /\ marked' = {} /\ ~concealed' /\ client'
  BY <1>3 DEF PushBack, ClientInv
<1>7. LoadBounded'
  <2>1. ASSUME NEW k \in Positions PROVE Load(k)' <= MaxLoad
    BY <1>1, <1>2, <1>4, SizeAssumption DEF ClientInv, LoadBounded
  <2> QED
    BY <2>1 DEF LoadBounded
<1>8. InItsBucket'
  <2>1. ASSUME NEW k \in Positions, NEW x \in 1..Load(k)', buckets'[k][x] \in Elements
        PROVE  k \in Indices[buckets'[k][x]]
    <3>1. CASE x \in 1..Load(k)
      BY <1>4, <2>1, <3>1 DEF ClientInv, InItsBucket
    <3>2. CASE x \notin 1..Load(k)
      <4>1. k = i /\ x = Load(k) + 1
        BY <1>2, <1>4, <2>1, <3>2
      <4> QED
        BY <1>4, <4>1
    <3> QED
      BY <3>1, <3>2
  <2> QED
    BY <2>1 DEF InItsBucket
<1> QED
  BY <1>5, <1>6, <1>7, <1>8
  DEF ClientInv, ConcealedIsFull, MarkedHoldsNoElement

LEMMA ClientConceal ==
  ASSUME client, ClientInv, Conceal
  PROVE  ClientInv'
<1>1. TypeOK /\ TypeOK'
  BY ConcealType DEF ClientInv
<1>2. \A k \in Positions : Load(k) \in Nat /\ Load(k) <= MaxLoad
  BY <1>1, MissingType DEF ClientInv, LoadBounded
<1>3. \A k \in Positions :
        /\ Load(k)' = IF Load(k) < MaxLoad THEN MaxLoad ELSE Load(k)
        /\ \A x \in 1..Load(k) : buckets'[k][x] = buckets[k][x]
        /\ \A x \in (Load(k) + 1)..Load(k)' : buckets'[k][x] = Filler
  BY <1>1, ConcealedBucket
<1>4. \A k \in Positions : Load(k)' = MaxLoad
  BY <1>2, <1>3, SizeAssumption
<1>5. algorithm' /\ concealed' /\ client'
  BY DEF Conceal, ClientInv
<1>6. LoadBounded' /\ ConcealedIsFull'
  BY <1>4, SizeAssumption DEF LoadBounded, ConcealedIsFull
<1>7. ASSUME NEW k \in Positions, NEW x \in 1..Load(k)'
      PROVE  x \in 1..Load(k) \/ buckets'[k][x] = Filler
  BY <1>2, <1>3, <1>4, <1>7, SizeAssumption
<1>8. MarkedHoldsNoElement'
  <2>1. ASSUME NEW k \in marked', NEW x \in 1..Load(k)'
        PROVE  buckets'[k][x] = Filler
    <3>1. k \in Positions
      BY <1>1 DEF TypeOK
    <3>2. CASE x \in 1..Load(k)
      <4>1. buckets[k] # <<>>
        BY <3>2 DEF Load
      <4>2. k \in marked
        BY <2>1, <4>1 DEF Conceal
      <4> QED
        BY <1>3, <3>1, <3>2, <4>2 DEF ClientInv, MarkedHoldsNoElement
    <3> QED
      BY <1>7, <2>1, <3>1, <3>2
  <2> QED
    BY <2>1 DEF MarkedHoldsNoElement
<1>9. InItsBucket'
  <2>1. ASSUME NEW k \in Positions, NEW x \in 1..Load(k)', buckets'[k][x] \in Elements
        PROVE  k \in Indices[buckets'[k][x]]
    <3>1. x \in 1..Load(k)
      BY <1>7, <2>1, FillerAssumption
    <3> QED
      BY <1>3, <2>1, <3>1 DEF ClientInv, InItsBucket
  <2> QED
    BY <2>1 DEF InItsBucket
<1> QED
  BY <1>1, <1>5, <1>6, <1>8, <1>9 DEF ClientInv

LEMMA ClientInit ==
  ASSUME Init
  PROVE  ClientInv
<1>1. \A k \in Positions : Load(k) = 0
  BY DEF Init, Load
<1>2. TypeOK /\ (client => algorithm)
  BY InitType, Zenon DEF Init
<1>3. marked = {} /\ ~concealed
  BY DEF Init
<1>4. LoadBounded /\ InItsBucket
  BY <1>1, SizeAssumption DEF LoadBounded, InItsBucket
<1> QED
  BY <1>2, <1>3, <1>4 DEF ClientInv, ConcealedIsFull, MarkedHoldsNoElement

LEMMA ClientNext ==
  ASSUME ClientInv, [Next]_vars
  PROVE  ClientInv'
<1>1. TypeOK' /\ client' = client
  BY NextType
  DEF ClientInv, vars, Next, SetHashAlgorithm, AddHashed, AddInvented, AddToBucket,
      PushBack, FatalOutOfBound, Conceal, GetBucketOutOfBounds
<1>2. CASE ~client
  BY <1>1, <1>2
  DEF ClientInv, LoadBounded, ConcealedIsFull, MarkedHoldsNoElement
<1>3. CASE client
  <2>1. CASE UNCHANGED <<buckets, marked, concealed>> /\ algorithm'
    BY <1>1, <2>1
    DEF ClientInv, LoadBounded, ConcealedIsFull, MarkedHoldsNoElement, InItsBucket, Load
  <2>2. CASE UNCHANGED vars
    BY <1>3, <2>1, <2>2 DEF vars, ClientInv
  <2>3. ASSUME NEW e \in Elements, NEW i \in Indices[e], Load(i) # MaxLoad, PushBack(i, e)
        PROVE  ClientInv'
    BY <1>3, <2>3, ClientPush
  <2>4. CASE Conceal
    BY <1>3, <2>4, ClientConceal
  <2>5. CASE SetHashAlgorithm
    BY <2>1, <2>5 DEF SetHashAlgorithm
  <2>6. CASE FatalOutOfBound
    BY <1>3, <2>1, <2>6 DEF FatalOutOfBound, ClientInv
  <2> QED
    BY <1>3, <2>2, <2>3, <2>4, <2>5, <2>6, ClientSteps DEF ClientInv
<1> QED
  BY <1>2, <1>3

LEMMA ClientCorrect == Spec => []ClientInv
<1>1. Init => ClientInv
  BY ClientInit
<1>2. ClientInv /\ [Next]_vars => ClientInv'
  BY ClientNext
<1> QED
  BY <1>1, <1>2, PTL DEF Spec

\* A client's table never has a bucket of more than maxLoad elements.
THEOREM ClientLoadBounded == Spec => []LoadBounded
<1>1. ClientInv => LoadBounded
  BY DEF ClientInv
<1> QED
  BY <1>1, ClientCorrect, PTL

\* Once a client's table is concealed, all its buckets are full, and stay so.
THEOREM ClientConcealed == Spec => []ConcealedIsFull
<1>1. ClientInv => ConcealedIsFull
  BY DEF ClientInv
<1> QED
  BY <1>1, ClientCorrect, PTL

\* A marked bucket of a client's table never holds an element of the client.
THEOREM ClientMarks == Spec => []MarkedHoldsNoElement
<1>1. ClientInv => MarkedHoldsNoElement
  BY DEF ClientInv
<1> QED
  BY <1>1, ClientCorrect, PTL

\* An element of a client's table whose hash has one remainder is in one bucket
\* only, however often it is added.
THEOREM ClientOneBucket == Spec => []OneBucketPerElement
<1>1. ClientInv => OneBucketPerElement
  <2> SUFFICES ASSUME ClientInv, client,
                      NEW i \in Positions, NEW j \in Positions,
                      NEW x \in 1..Load(i), NEW y \in 1..Load(j),
                      buckets[i][x] = buckets[j][y], buckets[i][x] \in Elements,
                      NEW p \in Positions, Indices[buckets[i][x]] = {p}
               PROVE  i = j
    BY DEF OneBucketPerElement
  <2>1. i \in Indices[buckets[i][x]] /\ j \in Indices[buckets[i][x]]
    BY DEF ClientInv, InItsBucket
  <2> QED
    BY <2>1
<1> QED
  BY <1>1, ClientCorrect, PTL
=============================================================================
