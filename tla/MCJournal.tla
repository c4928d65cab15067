----------------------------- MODULE MCJournal -----------------------------
(***************************************************************************)
(* Two districts, and a line of no district that is twice as long.         *)
(***************************************************************************)
EXTENDS Journal, TLC

CONSTANTS A, B

MCLines ==
  [of : {A, B, None}, size : {1}] \cup [of : {None}, size : {2}]

Alike == Permutations({A, B})
=============================================================================
