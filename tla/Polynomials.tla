----------------------------- MODULE Polynomials -----------------------------
(***************************************************************************)
(* The two arrays of ZZpPolynomials.  An object interpolates a batch of       *)
(* polynomials, makes them monic, factorises them and filters their roots, in *)
(* single steps (interpolate, makeMonic, factorise, findIntersection) or in    *)
(* one call (findIntersection with arguments).  Either way an array is kept as *)
(* long as n stays the same, and n is the only length that is stored.  The    *)
(* header asks for each step to be called after the one before it; of          *)
(* interpolate() and of findIntersection(x, y, n) it asks for no order.        *)
(*                                                                         *)
(* What a polynomial is, and which of its roots are kept, is in Blinding: here *)
(* a polynomial is the row of values it was interpolated from.                *)
(***************************************************************************)
EXTENDS Naturals, Sequences

CONSTANTS
  Batches,   \* the arguments of interpolate(): points and rows of values
  Points,    \* the vectors x
  Rows,      \* the vectors y[j], the values of one polynomial
  Zeros,     \* rows of zeros: the polynomial 0, which has no monic multiple
  Refused,   \* <<x, y[j]>>: a point twice in x, or two different lengths
  Empty      \* what a new array holds

Polynomial == [row : Rows, monic : BOOLEAN]

ASSUME BatchAssumption ==
  /\ Batches \subseteq [x : Points, y : Seq(Rows)]
  /\ Empty \notin Polynomial

VARIABLES
  n,             \* the number of polynomials in use
  polynomials,   \* Null, or an array of polynomials
  factorPairs,   \* Null, or an array of factorisations
  roots,         \* the rows whose roots are in the result, in order
  pc,            \* "ready", "ended" by NTL, or "undefined"
  ordered,       \* the application keeps to the order of the header
  stage, batch,  \* (history) how far the batch given last has come
  last           \* (history) the last call

arrays == <<n, polynomials, factorPairs, roots>>
vars == <<arrays, pc, ordered, stage, batch, last>>

\* A pointer to an array is <<array>>.
Null == <<>>
New(size) == <<[j \in 1..size |-> Empty]>>
Covers(pointer, size) == size = 0 \/ (pointer # Null /\ size <= Len(pointer[1]))

\* The array with its first entries written; nothing is written through Null.
Written(pointer, entries) ==
  IF pointer = Null THEN Null
  ELSE <<[j \in 1..Len(pointer[1]) |-> IF j <= Len(entries) THEN entries[j]
                                                           ELSE pointer[1][j]]>>

Room(pointer) == IF pointer = Null THEN 0 ELSE Len(pointer[1])

Interpolated(y) == [j \in 1..Len(y) |-> [row |-> y[j], monic |-> FALSE]]

\* NTL::interpolate() ends the process for such a row.
Refuses(b, j) == <<b.x, b.y[j]>> \in Refused

\* Variant of Monic: as NTL has it, of one polynomial.
MonicFirst(polys) ==
  [j \in 1..Len(polys) |-> IF j = 1 THEN [polys[j] EXCEPT !.monic = polys[j].row \notin Zeros]
                                   ELSE polys[j]]

Monic(polys) ==
  [j \in 1..Len(polys) |-> [polys[j] EXCEPT !.monic = polys[j].row \notin Zeros]]

\* NTL factorises monic polynomials, any other ends the process.
Factorisable(polys) == \A j \in 1..Len(polys) : polys[j].monic

Factored(polys) == [j \in 1..Len(polys) |-> polys[j].row]

InUse(pointer) == IF pointer = Null THEN <<>> ELSE [j \in 1..n |-> pointer[1][j]]
-----------------------------------------------------------------------------

Stages == {"empty", "interpolated", "monic", "factorised"}
Calls == {"none", "interpolate", "makeMonic", "factorise", "findIntersection",
          "findIntersectionOf"}

\* The call is made in a stage the header allows it in.
Ready(call, allowed) ==
  /\ pc = "ready" /\ (ordered => stage \in allowed)
  /\ last' = call
  /\ UNCHANGED ordered

\* The call does not come back.
Undefined == pc' = "undefined" /\ UNCHANGED <<arrays, stage, batch>>
Ends(b) == pc' = "ended" /\ batch' = b /\ UNCHANGED <<arrays, stage>>

\* Variant of Resized: a longer array is kept.
ResizedShorter(pointer, size) ==
  IF n < size THEN New(size) ELSE pointer

\* A new array for a new number of polynomials.
Resized(pointer, size) == IF n # size THEN New(size) ELSE pointer

\* interpolate()
Interpolate(b, monicise) ==
  LET polys == IF monicise THEN Monic(Interpolated(b.y)) ELSE Interpolated(b.y)
      array == Resized(polynomials, Len(b.y))
      ends == \E j \in 1..Len(b.y) : Refuses(b, j)
  IN  /\ Ready("interpolate", Stages)
      /\ \/ ends /\ Ends(b)
         \/ /\ ~ends
            /\ IF Covers(array, Len(b.y))
               THEN /\ n' = Len(b.y)
                    /\ polynomials' = Written(array, polys)
                    /\ stage' = IF monicise THEN "monic" ELSE "interpolated"
                    /\ batch' = b
                    /\ UNCHANGED <<factorPairs, roots, pc>>
               ELSE Undefined

MakeMonic ==
  /\ Ready("makeMonic", Stages \ {"empty"})
  /\ IF Covers(polynomials, n)
     THEN /\ polynomials' = Written(polynomials, Monic(InUse(polynomials)))
          /\ stage' = IF stage = "interpolated" THEN "monic" ELSE stage
          /\ UNCHANGED <<n, factorPairs, roots, pc, batch>>
     ELSE Undefined

\* factorise() with no polynomials: a message.
FactoriseNothing ==
  /\ Ready("factorise", {"monic", "factorised"})
  /\ polynomials = Null
  /\ stage' = IF stage = "monic" THEN "factorised" ELSE stage
  /\ UNCHANGED <<arrays, pc, batch>>

\* Variant of Pairs: kept when there is one.
PairsKept == IF factorPairs = Null THEN New(n) ELSE factorPairs

\* factorise() takes a new array, whatever n was.
Pairs == New(n)

Factorise ==
  /\ Ready("factorise", {"monic", "factorised"})
  /\ polynomials # Null
  /\ IF Covers(polynomials, n) /\ Covers(Pairs, n)
     THEN \/ ~Factorisable(InUse(polynomials)) /\ Ends(batch)
          \/ /\ Factorisable(InUse(polynomials))
             /\ factorPairs' = Written(Pairs, Factored(InUse(polynomials)))
             /\ stage' = "factorised"
             /\ UNCHANGED <<n, polynomials, roots, pc, batch>>
     ELSE Undefined

\* findIntersection() with no factors: a message, and no roots.
FindNothing ==
  /\ Ready("findIntersection", {"factorised"})
  /\ factorPairs = Null
  /\ roots' = <<>>
  /\ UNCHANGED <<n, polynomials, factorPairs, pc, stage, batch>>

\* Variant of Found: added to those of the last call.
FoundAdded(pairs) == roots \o pairs

\* The result is emptied first.
Found(pairs) == pairs

FindIntersection ==
  /\ Ready("findIntersection", {"factorised"})
  /\ factorPairs # Null
  /\ \/ /\ Covers(factorPairs, n)
        /\ roots' = Found(InUse(factorPairs))
        /\ UNCHANGED <<n, polynomials, factorPairs, pc, stage, batch>>
     \/ ~Covers(factorPairs, n) /\ Undefined

\* findIntersection(x, y, n): both arrays are replaced when n is another one.
\* Row by row it interpolates, makes monic and factorises: NTL may end the
\* process before a row that has no place is reached, or at its interpolation.
FindIntersectionOf(b) ==
  LET polys == Monic(Interpolated(b.y))
      array == Resized(polynomials, Len(b.y))
      pairs == Resized(factorPairs, Len(b.y))
      covers == Covers(array, Len(b.y)) /\ Covers(pairs, Len(b.y))
      ends == \E j \in 1..Len(b.y) : \/ Refuses(b, j) /\ j <= Room(pairs) + 1
                                     \/ ~polys[j].monic /\ j <= Room(pairs)
  IN  /\ Ready("findIntersectionOf", Stages)
      /\ \/ ends /\ Ends(b)
         \/ /\ ~ends /\ covers
            /\ n' = Len(b.y)
            /\ polynomials' = Written(array, polys)
            /\ factorPairs' = Written(pairs, Factored(polys))
            /\ roots' = Found(Factored(polys))
            /\ stage' = "factorised" /\ batch' = b
            /\ UNCHANGED pc
         \/ ~ends /\ ~covers /\ Undefined

Init ==
  /\ n = 0
  /\ polynomials = Null /\ factorPairs = Null
  /\ roots = <<>>
  /\ pc = "ready"
  /\ ordered \in BOOLEAN
  /\ stage = "empty" /\ batch \in [x : Points, y : {<<>>}]
  /\ last = "none"

Next ==
  \/ \E b \in Batches, monicise \in BOOLEAN : Interpolate(b, monicise)
  \/ MakeMonic
  \/ FactoriseNothing \/ Factorise
  \/ FindNothing \/ FindIntersection
  \/ \E b \in Batches : FindIntersectionOf(b)

Spec == Init /\ [][Next]_vars
-----------------------------------------------------------------------------

IsArray(pointer, S) == Len(pointer) = 1 /\ pointer[1] \in Seq(S)

TypeOK ==
  /\ n \in Nat
  /\ polynomials = Null \/ IsArray(polynomials, Polynomial \cup {Empty})
  /\ factorPairs = Null \/ IsArray(factorPairs, Rows \cup {Empty})
  /\ roots \in Seq(Rows \cup {Empty})
  /\ pc \in {"ready", "ended", "undefined"}
  /\ ordered \in BOOLEAN /\ stage \in Stages /\ last \in Calls
  /\ batch \in [x : Points, y : Seq(Rows)]

\* The array of polynomials has exactly n of them, whatever is called in
\* whatever order: makeMonic() and factorise() never leave it, and no
\* polynomial of an earlier, longer batch is left behind the present ones.
PolynomialsFit ==
  n > 0 => /\ polynomials # Null
           /\ Len(polynomials[1]) = n
           /\ \A j \in 1..n : polynomials[1][j] # Empty

\* An application that keeps to the order of the header makes the object read or
\* write outside its arrays, or through a null pointer, in one way only: by
\* findIntersection(x, y, n) on an object that has interpolated the same number
\* of polynomials and not factorised them.  No other step leaves the arrays,
\* on as many batches as there are and of any lengths.
UndefinedOnlyUnfactorised ==
  (ordered /\ pc = "undefined") =>
    /\ last = "findIntersectionOf"
    /\ stage \in {"interpolated", "monic"} /\ ~Covers(factorPairs, n)

\* What the header says of findIntersection(x, y, n), which it warns of no order
\* for, and of the steps in their order: all of them are defined.
NoUndefined == ordered => pc # "undefined"

\* An application that keeps to the order is given the roots of all polynomials
\* of the batch it gave last, in order, and of no other.
RootsOfBatch ==
  (ordered /\ pc = "ready" /\ last \in {"findIntersection", "findIntersectionOf"}) =>
    roots = batch.y

\* The process ends only for a row of zeros, a point that comes twice or a row of
\* another length: NTL is asked for the factors of no other polynomial that
\* is not monic, and the batch at fault is the one given last.
EndsForBadRows ==
  (ordered /\ pc = "ended") =>
    \E j \in 1..Len(batch.y) : batch.y[j] \in Zeros \/ Refuses(batch, j)
-----------------------------------------------------------------------------

(* The inductive invariant behind these properties (PolynomialsProofs).      *)

\* Both arrays stay allocated, the polynomials for the present n.
Allocated ==
  /\ polynomials = Null => n = 0 /\ factorPairs = Null
  /\ polynomials # Null => /\ Len(polynomials[1]) = n
                           /\ \A j \in 1..n : polynomials[1][j] \in Polynomial

\* What the arrays of an orderly application hold after each step.  The array
\* of factors may be one of an older, longer batch.
StageHolds ==
  (ordered /\ pc = "ready") =>
    /\ n = Len(batch.y)
    /\ stage = "empty" => polynomials = Null
    /\ \A j \in 1..n : polynomials[1][j].row = batch.y[j]
    /\ stage \in {"monic", "factorised"} =>
         \A j \in 1..n : polynomials[1][j].monic = (batch.y[j] \notin Zeros)
    /\ stage = "factorised" =>
         /\ n > 0 => factorPairs # Null
         /\ factorPairs # Null => /\ n <= Len(factorPairs[1])
                                  /\ \A j \in 1..n : factorPairs[1][j] = batch.y[j]
    /\ last \in {"findIntersection", "findIntersectionOf"} => roots = batch.y

PolyInv ==
  /\ TypeOK /\ Allocated /\ StageHolds
  /\ UndefinedOnlyUnfactorised /\ EndsForBadRows
=============================================================================
