--------------------------- MODULE MCSimulation -----------------------------
(***************************************************************************)
(* A small instance of Simulation: the field of a small prime, with the       *)
(* functions of NTL the code calls written out, and a function of seed and    *)
(* index in the place of the hash.                                         *)
(***************************************************************************)
EXTENDS Simulation, SequencesExt

MCSecret == [c \in Clients |-> IF c = Alice THEN 20 ELSE 38]

MCPlus(x, y) == (x + y) % Modulus
MCMinus(x, y) == (x + Modulus - y) % Modulus
MCTimes(x, y) == (x * y) % Modulus

MCPrf(s, k) ==
  ((4 * s + 30 * k) * (6 * k + s) + k * ((8 * s + k) % 7) + ((s * k) % 11)) % 2^FieldBits

\* The remainders of a hash of the decimal string, which the padding does not
\* keep: of one, except for an element whose string the bytes behind it change.
MCBuckets(z) ==
  IF z \div 2^PadSize = 3 THEN Rows ELSE {(z \div 2^PadSize) % Length}

\* a product, a sum of powers
MCEvalRoots(roots, u) ==
  FoldLeft(LAMBDA p, r : MCTimes(p, MCMinus(u, r)), 1, roots)
MCEval(omega, u) ==
  FoldLeft(LAMBDA v, k : MCPlus(MCTimes(v, u), omega[Height - k + 1]), 0,
           [k \in 1..(Height + 1) |-> k])

Inverted == [x \in F \ {0} |-> CHOOSE y \in F : MCTimes(x, y) = 1]

\* The interpolating polynomial at z, after Lagrange.
Weight(us, c, z) ==
  LET others == SetToSeq(DOMAIN us \ {c})
      Product(x) == FoldLeft(LAMBDA p, d : MCTimes(p, MCMinus(x, us[d])), 1, others)
  IN  MCTimes(Product(z), Inverted[Product(us[c])])
ValueAt(us, ys, z) ==
  FoldLeft(LAMBDA v, k : MCPlus(v, MCTimes(ys[k - 1], Weight(us, k - 1, z))), 0,
           [k \in 1..Degree |-> k])
MCRootsOf(us, ys) == {z \in F : ValueAt(us, ys, z) = 0}

MCInputs == [1..N -> Elements]

\* interpolate() needs different arguments.
ASSUME UnknownsDiffer == PointsDiffer
=============================================================================
