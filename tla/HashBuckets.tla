----------------------------- MODULE HashBuckets ----------------------------
(***************************************************************************)
(* The hash table HashBuckets<T> (with its base HashTable<T, U> and the      *)
(* buckets MarkedVector<T>) a client puts its elements in before they are    *)
(* blinded: k buckets that hold at most maxLoad elements each, filled up     *)
(* with random elements by conceal().                                        *)
(***************************************************************************)
EXTENDS Naturals, Sequences, FiniteSets

CONSTANTS
  Elements,       \* the elements the application may add
  Filler,         \* a random element of conceal()
  K,              \* k, the number of buckets
  MaxLoad,        \* maxLoad
  Indices,        \* Indices[e]: the remainders the hash of e may have
  MaxAdds         \* bound: elements added

Positions == 0..(K - 1)

ASSUME SizeAssumption == K \in Nat \ {0} /\ MaxLoad \in Nat
ASSUME BoundAssumption == MaxAdds \in Nat
ASSUME FillerAssumption == Filler \notin Elements

\* A hash of the whole element gives one remainder.  MurmurHash3::hash reads 4
\* bytes for each digit of the element, the last of them beyond the string, so
\* that its remainder depends on what the memory holds.
ASSUME IndicesAssumption == Indices \in [Elements -> (SUBSET Positions) \ {{}}]

VARIABLES
  buckets,    \* buckets[i]: the elements of bucket i
  marked,     \* the marked buckets
  algorithm,  \* whether a hash algorithm is set
  added,      \* elements added (the table itself does not count them)
  concealed,  \* whether conceal() has run
  running,    \* FALSE when a fatal exception ended the process
  client      \* whether the table is used as a client does: a hash algorithm is
              \* given to the constructor, and addToBucket() is not called

vars == <<buckets, marked, algorithm, added, concealed, running, client>>

Contents == Elements \cup {Filler}
Load(i) == Len(buckets[i])

-----------------------------------------------------------------------------

\* The constructor of OutOfBoundException ends the process when it is fatal.
FatalOutOfBound ==
  /\ running' = FALSE
  /\ UNCHANGED <<buckets, marked, algorithm, added, concealed, client>>

\* Variant of PushBack: the element is stored twice.
PushBackTwice(i, e) ==
  /\ buckets' = [buckets EXCEPT ![i] = Append(Append(@, e), e)]
  /\ added' = added + 1
  /\ UNCHANGED <<marked, algorithm, concealed, running, client>>

\* Variant of PushBack: the element goes to the front.
PushFront(i, e) ==
  /\ buckets' = [buckets EXCEPT ![i] = <<e>> \o @]
  /\ added' = added + 1
  /\ UNCHANGED <<marked, algorithm, concealed, running, client>>

PushBack(i, e) ==
  /\ buckets' = [buckets EXCEPT ![i] = Append(@, e)]
  /\ added' = added + 1
  /\ UNCHANGED <<marked, algorithm, concealed, running, client>>

SetHashAlgorithm ==
  /\ running
  /\ algorithm' = TRUE
  /\ UNCHANGED <<buckets, marked, added, concealed, running, client>>

\* Variant of AddHashed: the load is compared one element too late.
AddHashedLate(e) ==
  /\ running
  /\ added < MaxAdds
  /\ algorithm
  /\ \E i \in Indices[e] :
       IF Load(i) > MaxLoad THEN FatalOutOfBound ELSE PushBack(i, e)

\* Variant of AddHashed: a full bucket passes the element on to the next one.
AddProbing(e) ==
  /\ running
  /\ added < MaxAdds
  /\ algorithm
  /\ \E i \in Indices[e] :
       IF Load(i) = MaxLoad THEN PushBack((i + 1) % K, e) ELSE PushBack(i, e)

\* add() with a hash algorithm: a full bucket is fatal.
AddHashed(e) ==
  /\ running
  /\ added < MaxAdds
  /\ algorithm
  /\ \E i \in Indices[e] :
       IF Load(i) = MaxLoad THEN FatalOutOfBound ELSE PushBack(i, e)

\* add() without: the index is invented, and the load is not looked at.
AddInvented(e) ==
  /\ running
  /\ added < MaxAdds
  /\ ~algorithm
  /\ PushBack(0, e)

\* The index is checked, the load is not.
AddToBucket(e, i) ==
  /\ running
  /\ added < MaxAdds
  /\ ~client
  /\ IF i < K THEN PushBack(i, e) ELSE FatalOutOfBound

\* Variant of Missing: one random element too few.
MissingButOne(i) == IF Load(i) + 1 < MaxLoad THEN MaxLoad - Load(i) - 1 ELSE 0

Missing(i) == IF Load(i) < MaxLoad THEN MaxLoad - Load(i) ELSE 0

\* Variant of Conceal: the buckets are counted from 1 when they are marked.
ConcealMarksNext ==
  /\ running
  /\ marked' = marked \cup {i + 1 : i \in {j \in Positions : buckets[j] = <<>>}}
  /\ buckets' = [i \in Positions |-> buckets[i] \o [j \in 1..Missing(i) |-> Filler]]
  /\ concealed' = TRUE
  /\ UNCHANGED <<algorithm, added, running, client>>

\* Variant of Conceal: it marks the buckets that are not full.
ConcealMarksPartial ==
  /\ running
  /\ marked' = marked \cup {i \in Positions : Load(i) < MaxLoad}
  /\ buckets' = [i \in Positions |-> buckets[i] \o [j \in 1..Missing(i) |-> Filler]]
  /\ concealed' = TRUE
  /\ UNCHANGED <<algorithm, added, running, client>>

Conceal ==
  /\ running
  /\ marked' = marked \cup {i \in Positions : buckets[i] = <<>>}
  /\ buckets' = [i \in Positions |-> buckets[i] \o [j \in 1..Missing(i) |-> Filler]]
  /\ concealed' = TRUE
  /\ UNCHANGED <<algorithm, added, running, client>>

\* getBucket() and operator[] copy a bucket or end the process.
GetBucketOutOfBounds == running /\ FatalOutOfBound

Init ==
  /\ buckets = [i \in Positions |-> <<>>]
  /\ marked = {}
  /\ client \in BOOLEAN
  /\ algorithm \in BOOLEAN /\ (client => algorithm)
  /\ added = 0
  /\ concealed = FALSE
  /\ running = TRUE

Next ==
  \/ SetHashAlgorithm
  \/ \E e \in Elements : AddHashed(e) \/ AddInvented(e)
  \/ \E e \in Elements, i \in 0..K : AddToBucket(e, i)
  \/ Conceal
  \/ GetBucketOutOfBounds

Spec == Init /\ [][Next]_vars

-----------------------------------------------------------------------------
(* Properties *)

TypeOK ==
  /\ buckets \in [Positions -> Seq(Contents)]
  /\ marked \subseteq Positions
  /\ algorithm \in BOOLEAN
  /\ added \in Nat
  /\ concealed \in BOOLEAN
  /\ running \in BOOLEAN /\ client \in BOOLEAN

\* No bucket of a client holds more than maxLoad elements, so that the polynomial
\* of a bucket has a degree the 2 maxLoad + 1 evaluations determine.
LoadBounded == client => \A i \in Positions : Load(i) <= MaxLoad

\* Once concealed, every bucket of a client has exactly maxLoad elements and
\* stays so: the number of elements of a bucket tells nothing, and a client that
\* blinds again cannot add to it.
ConcealedIsFull == client /\ concealed => \A i \in Positions : Load(i) = MaxLoad

\* A marked bucket holds no element of the client, only random ones.
MarkedHoldsNoElement ==
  client => \A i \in marked : \A j \in 1..Load(i) : buckets[i][j] = Filler

\* An element a client adds again goes to the bucket it is already in, where its
\* hash has one remainder and not, as MurmurHash3 gives, any.
OneBucketPerElement ==
  client => \A i, j \in Positions : \A x \in 1..Load(i), y \in 1..Load(j) :
    LET e == buckets[i][x]
    IN  e = buckets[j][y] /\ e \in Elements /\ (\E p \in Positions : Indices[e] = {p})
          => i = j

\* No operation removes or moves an element: a bucket only grows at its end.
BucketsOnlyGrow ==
  [][\A i \in Positions : SubSeq(buckets'[i], 1, Load(i)) = buckets[i]]_vars

\* No element is lost or added twice: the elements in the buckets, random ones
\* apart, are as many as were added.
NothingLost ==
  LET own == {p \in Positions \X (1..(MaxLoad + MaxAdds)) :
                p[2] <= Load(p[1]) /\ buckets[p[1]][p[2]] # Filler}
  IN Cardinality(own) = added
=============================================================================
