--------------------------- MODULE MCHashBuckets ----------------------------
(* A small instance of HashBuckets: three buckets of two elements. *)
EXTENDS HashBuckets

CONSTANTS w, x, y, z

\* x and y collide; of z, what the memory holds behind its digits decides, as
\* MurmurHash3 has it.
MCIndices ==
  [e \in Elements |-> IF e = w THEN {2} ELSE IF e = z THEN Positions ELSE {0}]
=============================================================================
