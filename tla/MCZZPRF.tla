------------------------------ MODULE MCZZPRF -------------------------------
(***************************************************************************)
(* A small instance of ZZPRF: bytes of two bits, digests of three bytes.      *)
(***************************************************************************)
EXTENDS ZZPRF, SequencesExt

\* A digest that depends on every byte, on its place and on the length.
MCHash(s) ==
  LET sum(a) == FoldLeft(LAMBDA v, b : (a * v + b + 1) % 61, Len(s), s)
  IN  <<sum(7) % 4, (sum(5) \div 3) % 4, (sum(11) \div 5) % 4>>
=============================================================================
