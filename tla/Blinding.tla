------------------------------ MODULE Blinding ------------------------------
(***************************************************************************)
(* The numbers of a session: how a client turns its elements into a blinded  *)
(* matrix (EOPSIClient::blind), how the cloud and the helper combine two     *)
(* matrices into t and q (EOPSIParty::computeTOrQ, EOPSIClient::             *)
(* delegationOutput), and how the requester finds the intersection in t - q  *)
(* (EOPSIClient::intersect).  EOPSI models who calls whom and takes this      *)
(* arithmetic for granted (Unblinds, Found).                                 *)
(*                                                                         *)
(* computeTOrQ is modelled loop by loop: what matters is which index of the  *)
(* pseudorandom function each number is drawn with.                          *)
(***************************************************************************)
EXTENDS Naturals, Sequences, FiniteSets

CONSTANTS
  Clients, Cloud,
  Modulus,       \* fieldsize, a prime
  FieldBits,     \* fieldbitsize, NumBits(fieldsize)
  Length,        \* length, the number of buckets
  Height,        \* height, the load of a bucket
  Degree,        \* degree, the number of unknowns
  RawDataBits,   \* rawDataBits, the bits of an element
  SizeBits,      \* the width of a size_t
  Secret,        \* Secret[c]: the secret of a client
  Keys,          \* the temporary keys a helper may draw
  Fillers,       \* the random elements conceal() may draw
  Inputs,        \* the sequences of elements setRawData() may be given
  Buckets(_),    \* the remainders the hash of a padded element may have
  Prf(_, _),     \* ZZPRF::generate, of a seed and an index
  Plus(_, _), Minus(_, _), Times(_, _),  \* NTL: the arithmetic of ZZ_p
  EvalRoots(_, _),   \* NTL: eval of BuildFromRoots
  Eval(_, _),        \* NTL: eval of a polynomial given by its coefficients
  RootsOf(_, _)      \* NTL: the roots of the polynomial interpolate() finds

F == 0..(Modulus - 1)
Rows == 0..(Length - 1)
Cols == 0..(Degree - 1)
Parties == Clients \cup {Cloud}

\* The seed generateUnknowns() gives to the pseudorandom function.
UnknownSeed == 4

Seeds == Keys \cup {UnknownSeed} \cup {Secret[c] % Modulus : c \in Clients}

ASSUME SizeAssumption ==
  /\ Modulus \in Nat \ {0} /\ Length \in Nat \ {0}
  /\ Height \in Nat /\ Degree \in Nat \ {0}
ASSUME PartyAssumption == Cloud \notin Clients /\ Secret \in [Clients -> Nat]
ASSUME KeyAssumption == Keys \subseteq Nat

\* The field has that many bits, and a size_t counts them with room to spare.
ASSUME FieldAssumption ==
  /\ FieldBits \in Nat \ {0} /\ RawDataBits \in Nat /\ SizeBits \in Nat \ {0}
  /\ 2^(FieldBits - 1) <= Modulus /\ Modulus < 2^FieldBits
  /\ FieldBits < 2^(SizeBits - 1)

\* What the provers are not told of powers.
ASSUME PowerAssumption ==
  \A n \in 0..(FieldBits + SizeBits) : 2^n \in Nat \ {0} /\ 2^(n + 1) = 2 * 2^n

\* The programs take degree = 2*maxLoad + 1: the product of two polynomials of
\* degree maxLoad is determined by that many values.  The indices of
\* computeTOrQ need less.
ASSUME DegreeAssumption == Height <= Degree

\* What is taken of NTL and of the pseudorandom function.
ASSUME RingAssumption ==
  \A x, y, z \in F :
    /\ Plus(x, y) \in F /\ Times(x, y) \in F /\ Minus(x, y) \in F
    /\ Plus(x, y) = Plus(y, x)
    /\ Plus(Plus(x, y), z) = Plus(x, Plus(y, z))
    /\ Times(Plus(x, y), z) = Plus(Times(x, z), Times(y, z))
    /\ Minus(Plus(x, y), y) = x
    /\ Plus(0, x) = x /\ Times(0, x) = 0
ASSUME EvalAssumption ==
  \A u \in F :
    /\ \A roots \in [1..Height -> F] :
         /\ EvalRoots(roots, u) \in F
         /\ (\E k \in 1..Height : roots[k] = u) => EvalRoots(roots, u) = 0
    /\ \A omega \in [0..Height -> F] : Eval(omega, u) \in F
ASSUME PrfAssumption ==
  \A s \in Seeds, k \in 0..(3 * (Length * Degree)) : Prf(s, k) \in Nat

VARIABLES
  rawData,    \* rawData[c]: the elements of client c, a sequence
  placed,     \* placed[c]: the bucket each of its elements is in
  table,      \* table[c]: its hash table, concealed
  blinded,    \* blinded[c]: blindedData
  unknowns,   \* unknowns[p]: the evaluation points of party p
  session,    \* the helper, the requester and the temporary key
  pc,         \* where the session is
  worker,     \* the party that runs computeTOrQ
  matrixA, matrixB, tq, row, col, aIdx, omegaA, omegaB,  \* its variables
  drawn,      \* (history) <<index, number it was drawn for>>, this computation
  t, q,       \* what the requester was sent
  setcap      \* setcap[r]: the elements found in row r

data == <<rawData, placed, table, blinded>>
loop == <<worker, matrixA, matrixB, tq, row, col, aIdx, omegaA, omegaB, drawn>>
vars == <<rawData, placed, table, blinded, unknowns, session, pc, worker,
          matrixA, matrixB, tq, row, col, aIdx, omegaA, omegaB, drawn, t, q, setcap>>

NoMatrix == <<>>
Matrix == [Rows -> [Cols -> F]]
-----------------------------------------------------------------------------

(* Padding: shifts and differences of unsigned numbers of SizeBits bits.     *)

\* Variant of PadSize: one bit too many.
PadSizeWhole == FieldBits - RawDataBits

PadSize == (FieldBits + 2^SizeBits - RawDataBits - 1) % 2^SizeBits

\* NTL takes the size_t for a signed number and shifts right when it is negative.
ZeroPad(z) ==
  IF PadSize < 2^(SizeBits - 1) THEN z * 2^PadSize
                                ELSE z \div 2^(2^SizeBits - PadSize)

\* NTL's NumTwos, 0 for zero.
CountLeadingZeros(z) ==
  IF z = 0 THEN 0
  ELSE CHOOSE k \in 0..FieldBits : z % 2^k = 0 /\ z % 2^(k + 1) # 0

Padded(e) == ZeroPad(e) % Modulus

Found(roots) ==
  {z \div 2^PadSize : z \in {y \in roots : CountLeadingZeros(y) >= PadSize}}

-----------------------------------------------------------------------------

\* Variant of Draw: the bits are not converted to the field.
DrawBits(seed, index) == Prf(seed, index)

\* zzprf.generate(seed, index, fieldbitsize), converted to the field
Draw(seed, index) == Prf(seed, index) % Modulus

Unknowns(n) == [k \in 0..(n - 1) |-> Draw(UnknownSeed, k)]

\* Only the first call generates, whatever later calls ask for.
GetUnknowns(p, n) ==
  IF DOMAIN unknowns[p] = {} /\ n > 0 THEN Unknowns(n) ELSE unknowns[p]

\* the number index++ draws for cell (r, c), in blind() and delegationOutput()
Mask(seed, r, c) == Draw(seed % Modulus, r * Degree + c)

Masks(seed) == [r \in Rows |-> [c \in Cols |-> Mask(seed, r, c)]]

Elements == 0..(2^RawDataBits - 1)
TableRoots == {Padded(e) : e \in Elements} \cup Fillers

ASSUME InputAssumption ==
  /\ Inputs \subseteq Seq(Elements)
  /\ \A e \in Elements : Buckets(Padded(e)) # {} /\ Buckets(Padded(e)) \subseteq Rows

\* The buckets hashBuckets->add() may put the elements in, one after another:
\* MurmurHash3::hash reads 4 * truncLen bytes of a string of truncLen bytes, so
\* that what lies behind the string decides too, for each client and each call.
Placements(s) ==
  {place \in [DOMAIN s -> Rows] : \A k \in DOMAIN s : place[k] \in Buckets(Padded(s[k]))}

\* the positions of the elements in bucket r
InBucket(place, r) == {k \in DOMAIN place : place[k] = r}

\* A bucket holds its elements in order, then random ones.  One element too
\* many ends the process (HashBuckets): such data has no table.
Filled(s, place, tab) ==
  \A r \in Rows :
    LET here == InBucket(place, r)
    IN  /\ Cardinality(here) <= Height
        /\ \A k \in here : tab[r][Cardinality(here \cap 1..k)] = Padded(s[k])
        /\ \A k \in (Cardinality(here) + 1)..Height : tab[r][k] \in Fillers

Evaluations(tab, us, secret) ==
  [r \in Rows |-> [c \in Cols |->
     Plus(EvalRoots(tab[r], us[c]), Mask(secret, r, c))]]

\* setRawData() and blind().  Data set a second time finds every bucket full and
\* ends the process (HashBuckets).
SetRawData(c, s) ==
  /\ pc = "idle" /\ blinded[c] = NoMatrix
  /\ s # <<>>
  /\ \E place \in Placements(s), tab \in [Rows -> [1..Height -> TableRoots \cap F]] :
       /\ Filled(s, place, tab)
       /\ placed' = [placed EXCEPT ![c] = place]
       /\ table' = [table EXCEPT ![c] = tab]
       /\ blinded' = [blinded EXCEPT ![c] =
                        Evaluations(tab, GetUnknowns(c, Degree), Secret[c])]
  /\ unknowns' = [unknowns EXCEPT ![c] = GetUnknowns(c, Degree)]
  /\ rawData' = [rawData EXCEPT ![c] = s]
  /\ UNCHANGED <<session, pc, loop, t, q, setcap>>

-----------------------------------------------------------------------------

(* computeTOrQ                                                             *)

\* Variant of OmegaAIdx: the omegas begin after length * height numbers.
OmegaAIdxShort == Length * Height

OmegaAIdx == Length * Degree
OmegaBIdx == OmegaAIdx + Length * Degree

\* genOmega(): monic, its other coefficients are drawn.
Omega(key, index) ==
  [k \in 0..Height |-> IF k = Height THEN 1 % Modulus ELSE Draw(key, index + k)]

\* The polynomial behind the numbers of row r: those with the roots a and b,
\* each multiplied by its omega, at u.
PlainValue(a, b, key, r, u) ==
  Plus(Times(EvalRoots(a, u), Eval(Omega(key, OmegaAIdx + Height * r), u)),
       Times(EvalRoots(b, u), Eval(Omega(key, OmegaBIdx + Height * r), u)))

PointsDiffer == \A c, d \in Cols :
  c # d => Unknowns(Degree)[c] # Unknowns(Degree)[d]

\* Its degree is at most 2 * Height: where there are more points, all different,
\* NTL's interpolate() finds it again, and its roots are found.
ASSUME InterpolationAssumption ==
  2 * Height < Degree /\ PointsDiffer =>
    \A a, b \in [1..Height -> TableRoots \cap F], key \in Keys, r \in Rows :
      LET roots == RootsOf(Unknowns(Degree),
                     [c \in Cols |-> PlainValue(a, b, key, r, Unknowns(Degree)[c])])
      IN  \A z \in F : PlainValue(a, b, key, r, z) = 0 => z \in roots

\* up to the two loops
BeginComputation(p, a, b) ==
  /\ worker' = p /\ matrixA' = a /\ matrixB' = b
  /\ tq' = [r \in Rows |-> [c \in Cols |-> 0]]
  /\ unknowns' = [unknowns EXCEPT ![p] = GetUnknowns(p, Degree)]
  /\ row' = 0 /\ col' = 0 /\ aIdx' = 0
  /\ drawn' = {}
  /\ pc' = "row"
  /\ UNCHANGED <<omegaA, omegaB>>

\* the head of the outer loop
GenOmegas ==
  /\ pc = "row" /\ row < Length
  /\ omegaA' = Omega(session.key, OmegaAIdx + Height * row)
  /\ omegaB' = Omega(session.key, OmegaBIdx + Height * row)
  /\ drawn' = drawn
       \cup {<<OmegaAIdx + Height * row + k, <<"A", row, k>>>> : k \in 0..(Height - 1)}
       \cup {<<OmegaBIdx + Height * row + k, <<"B", row, k>>>> : k \in 0..(Height - 1)}
  /\ col' = 0 /\ pc' = "cell"
  /\ UNCHANGED <<data, unknowns, session, worker, matrixA, matrixB, tq, row,
                 aIdx, t, q, setcap>>

Cell(u) ==
  Plus(Plus(Draw(session.key, aIdx), Times(matrixA[row][col], Eval(omegaA, u))),
       Times(matrixB[row][col], Eval(omegaB, u)))

\* the body of the inner loop
ComputeCell ==
  /\ pc = "cell" /\ col < Degree
  /\ tq' = [tq EXCEPT ![row][col] = Cell(unknowns[worker][col])]
  /\ drawn' = drawn \cup {<<aIdx, <<"a", row, col>>>>}
  /\ aIdx' = aIdx + 1
  /\ col' = col + 1
  /\ UNCHANGED <<data, unknowns, session, pc, worker, matrixA, matrixB, row,
                 omegaA, omegaB, t, q, setcap>>

\* the end of the inner loop
NextRow ==
  /\ pc = "cell" /\ col = Degree
  /\ row' = row + 1 /\ pc' = "row"
  /\ UNCHANGED <<data, unknowns, session, worker, matrixA, matrixB, tq, col,
                 aIdx, omegaA, omegaB, drawn, t, q, setcap>>

-----------------------------------------------------------------------------

(* A session: the cloud computes t, then the helper q, then the requester    *)
(* intersects.                                                             *)

\* requester asks helper, which draws a key and asks the cloud:
\* EOPSIServer::intersectionOutput()
Request(helper, requester, key) ==
  /\ pc = "idle" /\ helper # requester
  /\ blinded[helper] # NoMatrix /\ blinded[requester] # NoMatrix
  /\ session' = [helper |-> helper, requester |-> requester, key |-> key]
  /\ BeginComputation(Cloud, blinded[helper], blinded[requester])
  /\ UNCHANGED <<data, t, q, setcap>>

\* Variant of DelegationOutput: the masks of the requester come first.
DelegationOutputSwapped ==
  /\ pc = "row" /\ row = Length /\ worker = Cloud
  /\ t' = tq
  /\ BeginComputation(session.helper, Masks(Secret[session.requester]),
                                      Masks(Secret[session.helper]))
  /\ UNCHANGED <<data, session, q, setcap>>

\* t is done; delegationOutput() combines the masks of both clients.
DelegationOutput ==
  /\ pc = "row" /\ row = Length /\ worker = Cloud
  /\ t' = tq
  /\ BeginComputation(session.helper, Masks(Secret[session.helper]),
                                      Masks(Secret[session.requester]))
  /\ UNCHANGED <<data, session, q, setcap>>

SendQ ==
  /\ pc = "row" /\ row = Length /\ worker # Cloud
  /\ q' = tq
  /\ pc' = "intersect"
  /\ UNCHANGED <<data, unknowns, session, loop, t, setcap>>

Difference(r) == [c \in Cols |-> Minus(t[r][c], q[r][c])]

\* intersect(): one polynomial for each row
Intersect ==
  /\ pc = "intersect"
  /\ unknowns' = [unknowns EXCEPT ![session.requester] =
                    GetUnknowns(session.requester, 0)]
  /\ setcap' = [r \in Rows |->
       Found(RootsOf(GetUnknowns(session.requester, 0), Difference(r)))]
  /\ pc' = "done"
  /\ UNCHANGED <<data, session, loop, t, q>>

Init ==
  /\ rawData = [c \in Clients |-> <<>>] /\ placed = [c \in Clients |-> <<>>]
  /\ table = [c \in Clients |-> NoMatrix]
  /\ blinded = [c \in Clients |-> NoMatrix]
  /\ unknowns = [p \in Parties |-> <<>>]
  /\ session = <<>>
  /\ pc = "idle"
  /\ worker = Cloud
  /\ matrixA = NoMatrix /\ matrixB = NoMatrix /\ tq = NoMatrix
  /\ row = 0 /\ col = 0 /\ aIdx = 0
  /\ omegaA = <<>> /\ omegaB = <<>>
  /\ drawn = {}
  /\ t = NoMatrix /\ q = NoMatrix
  /\ setcap = <<>>

SessionNext ==
  \/ \E a, b \in Clients, k \in Keys : Request(a, b, k)
  \/ GenOmegas \/ ComputeCell \/ NextRow
  \/ DelegationOutput \/ SendQ \/ Intersect

Next == SessionNext \/ \E c \in Clients, s \in Inputs : SetRawData(c, s)

Spec == Init /\ [][Next]_vars
-----------------------------------------------------------------------------

InSession == pc # "idle"

\* The numbers of a computation stay in the field, its position in the matrix.
TypeOK ==
  /\ pc \in {"idle", "row", "cell", "intersect", "done"}
  /\ table \in [Clients -> [Rows -> [1..Height -> F]] \cup {NoMatrix}]
  /\ blinded \in [Clients -> Matrix \cup {NoMatrix}]
  /\ unknowns \in [Parties -> [Cols -> F] \cup {<<>>}]
  /\ worker \in Parties
  /\ row \in 0..Length /\ col \in 0..Degree /\ aIdx \in Nat
  /\ t \in Matrix \cup {NoMatrix} /\ q \in Matrix \cup {NoMatrix}
  /\ InSession =>
       /\ session \in [helper : Clients, requester : Clients, key : Keys]
       /\ matrixA \in Matrix /\ matrixB \in Matrix /\ tq \in Matrix
  /\ pc = "cell" => /\ row < Length
                    /\ omegaA \in [0..Height -> F] /\ omegaB \in [0..Height -> F]

\* The three ranges of indices computeTOrQ counts through do not overlap: no
\* two numbers of one computation (a mask of a cell, a coefficient of either
\* omega) are drawn from the temporary key with the same index, which would
\* make one blinding number a copy of another.
IndexOnce == \A d, e \in drawn : d[1] = e[1] => d = e

\* The product of a cell, of the two polynomials and the two omegas.
PlainCell(r, c) ==
  PlainValue(table[session.helper][r], table[session.requester][r],
             session.key, r, Unknowns(Degree)[c])

\* What the cloud and the helper computed apart, from matrices the other has
\* not seen, differs by the plain combination of the two polynomials: all
\* masks cancel, since both count the cells, and order the two clients, alike.
MasksCancel ==
  pc \in {"intersect", "done"} =>
    \A r \in Rows, c \in Cols : Minus(t[r][c], q[r][c]) = PlainCell(r, c)

CommonElements(a, b) ==
  {rawData[a][k] : k \in DOMAIN rawData[a]} \cap {rawData[b][k] : k \in DOMAIN rawData[b]}

HeldIn(c, r) == {rawData[c][k] : k \in InBucket(placed[c], r)}

\* Every element, except 0, both clients hold in the same bucket is found in it
\* by the requester: padded, hidden among other elements, made a root of a
\* polynomial, blinded twice, unblinded, interpolated and unpadded.
CommonFound ==
  pc = "done" =>
    \A r \in Rows :
      (HeldIn(session.helper, r) \cap HeldIn(session.requester, r)) \ {0} \subseteq setcap[r]

\* Every element, except 0, the two clients have in common is found, which is
\* what the program expects of a session.  The code does not give it: two
\* clients may put an element in different buckets.
EveryCommonFound ==
  pc = "done" =>
    \A e \in CommonElements(session.helper, session.requester) \ {0} :
      \E r \in Rows : e \in setcap[r]
-----------------------------------------------------------------------------

(* The inductive invariant behind these properties (BlindingProofs).        *)

\* Every party that has evaluation points has the same ones.
PointsAgree == \A p \in Parties : unknowns[p] \in {<<>>, Unknowns(Degree)}

\* A blinded matrix is made from the table, at these points.
BlindedFromTable ==
  \A c \in Clients : blinded[c] # NoMatrix =>
    /\ table[c] # NoMatrix
    /\ blinded[c] = Evaluations(table[c], Unknowns(Degree), Secret[c])

\* What each index of a computation is for.
DrawnFor ==
  {<<r * Degree + c, <<"a", r, c>>>> : r \in Rows, c \in Cols}
  \cup {<<OmegaAIdx + Height * r + k, <<"A", r, k>>>> : r \in Rows, k \in 0..(Height - 1)}
  \cup {<<OmegaBIdx + Height * r + k, <<"B", r, k>>>> : r \in Rows, k \in 0..(Height - 1)}

Computing == pc \in {"row", "cell"}

\* aIdx counts the cells.
Counted ==
  /\ Computing => aIdx = row * Degree + (IF pc = "cell" THEN col ELSE 0)
  /\ drawn \subseteq DrawnFor

CellOf(a, b, r, c) ==
  LET u == Unknowns(Degree)[c]
      key == session.key
  IN Plus(Plus(Draw(key, r * Degree + c),
               Times(a[r][c], Eval(Omega(key, OmegaAIdx + Height * r), u))),
          Times(b[r][c], Eval(Omega(key, OmegaBIdx + Height * r), u)))

Combines(m, a, b) == \A r \in Rows, c \in Cols : m[r][c] = CellOf(a, b, r, c)

\* The cells computed so far.
CellsDone ==
  \A r \in Rows, c \in Cols :
    (r < row \/ (r = row /\ pc = "cell" /\ c < col)) =>
      tq[r][c] = CellOf(matrixA, matrixB, r, c)

CombinesData(m) == Combines(m, blinded[session.helper], blinded[session.requester])
CombinesMasks(m) == Combines(m, Masks(Secret[session.helper]),
                                Masks(Secret[session.requester]))

\* What each phase of a session has computed.
SessionInv ==
  InSession =>
    /\ blinded[session.helper] # NoMatrix /\ blinded[session.requester] # NoMatrix
    /\ Computing =>
         /\ unknowns[worker] = Unknowns(Degree)
         /\ CellsDone
         /\ pc = "cell" => /\ omegaA = Omega(session.key, OmegaAIdx + Height * row)
                           /\ omegaB = Omega(session.key, OmegaBIdx + Height * row)
         /\ worker = Cloud => /\ matrixA = blinded[session.helper]
                              /\ matrixB = blinded[session.requester]
         /\ worker # Cloud => /\ matrixA = Masks(Secret[session.helper])
                              /\ matrixB = Masks(Secret[session.requester])
                              /\ t \in Matrix /\ CombinesData(t)
    /\ ~Computing => /\ t \in Matrix /\ CombinesData(t)
                     /\ q \in Matrix /\ CombinesMasks(q)

BlindInv == TypeOK /\ PointsAgree /\ BlindedFromTable /\ Counted /\ SessionInv

\* The hash table of an outsourced client holds its data.
DataInTable ==
  /\ rawData \in [Clients -> Seq(Elements)] /\ DOMAIN placed = Clients
  /\ \A c \in Clients : blinded[c] # NoMatrix =>
       /\ unknowns[c] = Unknowns(Degree)
       /\ table[c] \in [Rows -> [1..Height -> TableRoots \cap F]]
       /\ placed[c] \in Placements(rawData[c])
       /\ Filled(rawData[c], placed[c], table[c])

FoundInDifference ==
  pc = "done" =>
    setcap = [r \in Rows |-> Found(RootsOf(Unknowns(Degree), Difference(r)))]

FindInv == DataInTable /\ FoundInDifference
=============================================================================
