-------------------------------- MODULE Sums --------------------------------
(* The sum of numbers, as the loops of the code make it: from the first on. *)
EXTENDS Naturals

\* a[1] + ... + a[m]
SumTo(a, m) ==
  LET sum[n \in 0..m] == IF n = 0 THEN 0 ELSE sum[n - 1] + a[n]
  IN  sum[m]
=============================================================================
