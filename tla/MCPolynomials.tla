---------------------------- MODULE MCPolynomials ----------------------------
(***************************************************************************)
(* Batches of up to three rows.  Of the points pts all are different, of the   *)
(* points twice none is fit; a row may be of zeros, or too short.             *)
(***************************************************************************)
EXTENDS Polynomials

CONSTANTS pts, twice, a, b, zero, short

MCRows == {a, b, zero, short}

MCRefused == {<<pts, short>>} \cup {twice} \X MCRows

MCBatches ==
  [x : {pts}, y : {<<>>, <<a>>, <<b>>, <<a, b>>, <<b, b>>, <<a, zero>>, <<a, short>>,
                   <<b, a, a>>, <<zero, short, a>>}]
  \cup [x : {twice}, y : {<<>>, <<b>>}]
=============================================================================
