----------------------------- MODULE Simulation -----------------------------
(***************************************************************************)
(* The program eopsisimul around Blinding: it draws the data of both clients *)
(* (randomData, join), lets a client learn the intersection, computes the     *)
(* intersection in the clear (intersect) and compares both (checkIntersection- *)
(* Correctness).  The verdict it prints is the test of the repository.       *)
(***************************************************************************)
EXTENDS Blinding, Functions, Sums

CONSTANTS
  Alice, Bob,    \* the two clients, Bob is the requester
  N              \* n, the elements of each client

\* An element is not longer than a number of the field, or the program ends.
ASSUME SimulationAssumption ==
  /\ Clients = {Alice, Bob} /\ Alice # Bob
  /\ N \in Nat \ {0}
  /\ RawDataBits <= FieldBits
  /\ [1..N -> Elements] \subseteq Inputs

VARIABLES
  dataAlice, dataBob,  \* what the program owns
  verdict              \* "none", then "correct" or "wrong"

simulation == <<dataAlice, dataBob, verdict>>
simVars == <<vars, simulation>>

\* A std::set is iterated in ascending order.  The loop that fills it does not
\* end when n is above the number of elements of that many bits.
RandomData(n) ==
  {s \in [1..n -> Elements] : \A i, j \in 1..n : i < j => s[i] < s[j]}

Join(set1, set2) == set1 \o set2

\* qsort: the same elements, put in an order in which none is below one before.
Sorted(s) ==
  LET order == CHOOSE p \in Bijection(DOMAIN s, DOMAIN s) :
                 \A i, j \in DOMAIN s : i < j => s[p[i]] <= s[p[j]]
  IN  [i \in DOMAIN s |-> s[order[i]]]

\* Variant of Repeated: equal neighbours are all counted.
RepeatedAll(listUnion) ==
  LET Taken[k \in 0..Len(listUnion)] ==
        IF k = 0 THEN <<>>
        ELSE IF k > 1 /\ listUnion[k] = listUnion[k - 1]
        THEN Append(Taken[k - 1], listUnion[k])
        ELSE Taken[k - 1]
  IN  Taken[Len(listUnion)]

\* The elements that equal the one before and not the last taken: an element
\* may come up to four times.
Repeated(listUnion) ==
  LET Taken[k \in 0..Len(listUnion)] ==
        IF k = 0 THEN <<>>
        ELSE IF /\ k > 1 /\ listUnion[k] = listUnion[k - 1]
                /\ \/ Taken[k - 1] = <<>>
                   \/ listUnion[k] # Taken[k - 1][Len(Taken[k - 1])]
        THEN Append(Taken[k - 1], listUnion[k])
        ELSE Taken[k - 1]
  IN  Taken[Len(listUnion)]

PlainIntersection(set1, set2) == Repeated(Sorted(Join(set1, set2)))

\* The length of the vector of roots: a root of two rows is in it twice.
FoundLength == SumTo([r \in 1..Length |-> Cardinality(setcap[r - 1])], Length)

FoundElements == UNION {setcap[r] : r \in Rows}

\* checkIntersectionCorrectness()
Matches(expected) ==
  /\ Len(expected) = FoundLength
  /\ Range(expected) = FoundElements

-----------------------------------------------------------------------------

\* Common data first, then data of each client.  Nothing keeps the second draw
\* from repeating an element of the first, so that a client may hold an element
\* twice; it is then an element of the other client too.
Generate ==
  /\ dataAlice = <<>>
  /\ \E r \in 0..N : \E common \in RandomData(r),
                        a, b \in RandomData(N - r) :
       /\ dataAlice' = Join(common, a)
       /\ dataBob' = Join(common, b)
  /\ UNCHANGED <<vars, verdict>>

OutsourceAlice ==
  /\ dataAlice # <<>>
  /\ SetRawData(Alice, dataAlice)
  /\ UNCHANGED simulation

OutsourceBob ==
  /\ blinded[Alice] # NoMatrix
  /\ SetRawData(Bob, dataBob)
  /\ UNCHANGED simulation

RequestBob ==
  /\ \E key \in Keys : Request(Alice, Bob, key)
  /\ UNCHANGED simulation

Computes ==
  /\ \/ GenOmegas \/ ComputeCell \/ NextRow
     \/ DelegationOutput \/ SendQ \/ Intersect
  /\ UNCHANGED simulation

Check ==
  /\ pc = "done" /\ verdict = "none"
  /\ verdict' = IF Matches(PlainIntersection(dataAlice, dataBob))
                THEN "correct" ELSE "wrong"
  /\ UNCHANGED <<vars, dataAlice, dataBob>>

SimInit ==
  /\ Init
  /\ dataAlice = <<>> /\ dataBob = <<>>
  /\ verdict = "none"

SimNext ==
  Generate \/ OutsourceAlice \/ OutsourceBob \/ RequestBob \/ Computes \/ Check

SimSpec == SimInit /\ [][SimNext]_simVars
-----------------------------------------------------------------------------

\* The program prints "correct" exactly when the vector Bob holds lists every
\* common element once and nothing else: a wrong answer never passes the test
\* of the repository, and a right one never fails it.
VerdictRight ==
  verdict # "none" =>
    LET common == Range(dataAlice) \cap Range(dataBob)
    IN  (verdict = "correct") <=>
          (FoundElements = common /\ FoundLength = Cardinality(common))
-----------------------------------------------------------------------------

(* The inductive invariant behind it (BlindingProofs).                      *)

\* What Generate draws.
Drawn ==
  \/ dataAlice = <<>> /\ dataBob = <<>>
  \/ \E r \in 0..N : \E common \in RandomData(r), a, b \in RandomData(N - r) :
       dataAlice = Join(common, a) /\ dataBob = Join(common, b)

\* There is data before there are matrices, matrices before there is a session,
\* and the verdict is about what Bob still holds.
InOrder ==
  /\ blinded[Alice] # NoMatrix => dataAlice # <<>>
  /\ pc # "idle" => blinded[Alice] # NoMatrix
  /\ \A c \in Clients : blinded[c] # NoMatrix =>
       /\ blinded[Alice] # NoMatrix
       /\ rawData[c] = (IF c = Alice THEN dataAlice ELSE dataBob)
  /\ pc # "idle" => session.helper = Alice /\ session.requester = Bob
  /\ verdict # "none" =>
       /\ pc = "done"
       /\ (verdict = "correct") <=> Matches(PlainIntersection(dataAlice, dataBob))

SimulationInv == Drawn /\ InOrder
=============================================================================
