------------------------------ MODULE MCTyped ------------------------------
(***************************************************************************)
(* Typed on a small instance: a size takes its own byte up to one, one     *)
(* more of three kinds for two, and two from three on, so that the largest *)
(* frame and one too large have the longest form; a mask is of two bytes.  *)
(***************************************************************************)
EXTENDS Typed, TLC

CONSTANTS k1, k2

MCWidths == <<1, 2>>
MCWeight == [k \in 0..2 |-> 3^k]
MCKeys   == <<k1, k2>>
=============================================================================
